----------------------------- MODULE RelayProofs ------------------------------
(***************************************************************************)
(* What serves randomness to users. The watches of the gossip client, for  *)
(* any number of relays, watches, rounds and any length of the queue. The  *)
(* list of waiting requests of the HTTP handler, for any number of         *)
(* requests, rounds and interruptions of the stream. The bucket of the S3  *)
(* relay, for any number of rounds.                                        *)
(***************************************************************************)
EXTENDS Gossip, HTTPServer, S3Relay, TLAPS
-----------------------------------------------------------------------------
(* The S3 relay (module S3Relay).                                          *)

\* Why a round is not in the bucket, apart from not being delivered yet.
Excused(r) ==
    \/ r \in uploads \/ r \in gap \/ r \in dropped
    \/ sync \in {"loop", "put"} /\ r >= rnd

\* While no watch is open, nothing is about to be delivered.  A sync has been at
\* every round before its own.
S3Inv ==
    /\ now3 \in 0..MaxS3 /\ seenTo \in Nat /\ seenTo <= now3 /\ rnd \in Nat
    /\ watchAt \in {"open", "waiting"} /\ sync \in {"off", "loop", "put", "over"}
    /\ \A r \in 1..now3 : r \in bucket \/ Excused(r) \/ (watchAt = "open" /\ r > seenTo)
    /\ sync # "off" => \A r \in Begin..(rnd - 1) : r \in bucket \cup dropped

\* Nothing is due yet.
LEMMA S3InitInv == S3Init => S3Inv
BY S3Assumption DEF S3Init, S3Inv

\* A round becomes due.
LEMMA S3DueKeeps == S3Inv /\ S3Due => S3Inv'
<1> SUFFICES ASSUME S3Inv, S3Due PROVE S3Inv'
    OBVIOUS
<1>1. /\ now3 < MaxS3 /\ now3' = now3 + 1
      /\ gap' = IF watchAt = "open" THEN gap ELSE gap \cup {now3 + 1}
      /\ UNCHANGED <<watchAt, seenTo, uploads, bucket, sync, rnd, dropped>>
    BY DEF S3Due
<1>2. /\ now3 \in Nat /\ MaxS3 \in Nat /\ now3' \in 0..MaxS3 /\ seenTo <= now3' /\ seenTo < now3 + 1
    BY <1>1, S3Assumption DEF S3Inv
<1>3. ASSUME NEW r \in 1..now3'
      PROVE  r \in bucket' \/ Excused(r)' \/ (watchAt' = "open" /\ r > seenTo')
    <2>1. CASE r \in 1..now3
        BY <1>1, <2>1 DEF S3Inv, Excused
    <2>2. CASE r = now3 + 1
        BY <1>1, <1>2, <2>2 DEF S3Inv, Excused
    <2> QED
        BY <1>1, <1>2, <2>1, <2>2
<1> QED
    BY <1>1, <1>2, <1>3 DEF S3Inv

\* A result, or the end of the watch: what it skipped is in the gap.
LEMMA S3WatchKeeps == S3Inv /\ ((\E r \in 1..MaxS3 : S3Result(r)) \/ S3Closed \/ S3Reopen) => S3Inv'
<1> SUFFICES ASSUME S3Inv, (\E r \in 1..MaxS3 : S3Result(r)) \/ S3Closed \/ S3Reopen PROVE S3Inv'
    OBVIOUS
<1>1. now3 \in Nat /\ now3 \in 0..MaxS3 /\ seenTo \in Nat /\ seenTo <= now3
    BY S3Assumption DEF S3Inv
<1>2. ASSUME NEW d \in 1..MaxS3, S3Result(d) PROVE S3Inv'
    <2>1. /\ watchAt = "open" /\ d \in (seenTo + 1)..now3 /\ seenTo' = d /\ uploads' = uploads \cup {d}
          /\ gap' = gap \cup ((seenTo + 1)..(d - 1))
          /\ UNCHANGED <<now3, watchAt, bucket, sync, rnd, dropped>>
        BY <1>2 DEF S3Result
    <2>2. ASSUME NEW r \in 1..now3
          PROVE  r \in bucket' \/ Excused(r)' \/ r > seenTo'
        <3>1. r \in bucket \/ Excused(r) \/ r > seenTo
            BY DEF S3Inv
        <3>2. CASE r \in bucket \/ Excused(r)
            BY <2>1, <3>2 DEF Excused
        <3>3. r > seenTo => r \in (seenTo + 1)..(d - 1) \/ r = d \/ r > d
            BY <1>1, <2>1
        <3> QED
            BY <2>1, <3>1, <3>2, <3>3, Zenon DEF Excused
    <2> QED
        BY <1>1, <2>1, <2>2 DEF S3Inv
<1>3. CASE S3Closed
    <2>1. /\ watchAt = "open" /\ watchAt' = "waiting"
          /\ gap' = gap \cup ((seenTo + 1)..now3) /\ seenTo' = now3
          /\ UNCHANGED <<now3, uploads, bucket, sync, rnd, dropped>>
        BY <1>3 DEF S3Closed
    <2>2. ASSUME NEW r \in 1..now3
          PROVE  r \in bucket' \/ Excused(r)'
        <3>1. r \in bucket \/ Excused(r) \/ r > seenTo
            BY DEF S3Inv
        <3>2. r > seenTo => r \in (seenTo + 1)..now3
            BY <1>1
        <3> QED
            BY <2>1, <3>1, <3>2, Zenon DEF Excused
    <2> QED
        BY <1>1, <2>1, <2>2 DEF S3Inv
<1>4. CASE S3Reopen
    <2>1. /\ watchAt = "waiting" /\ watchAt' = "open" /\ seenTo' \in {now3, now3 - 1} \cap Nat
          /\ UNCHANGED <<now3, uploads, bucket, sync, rnd, gap, dropped>>
        BY <1>4 DEF S3Reopen
    <2>2. ASSUME NEW r \in 1..now3
          PROVE  r \in bucket' \/ Excused(r)'
        BY <2>1, Zenon DEF S3Inv, Excused
    <2> QED
        BY <1>1, <2>1, <2>2 DEF S3Inv
<1> QED
    BY <1>2, <1>3, <1>4

\* An upload ends, well or not.
LEMMA S3UploadKeeps == S3Inv /\ (\E r \in uploads : UploadRandomness(r)) => S3Inv'
<1> SUFFICES ASSUME S3Inv, NEW u \in uploads, UploadRandomness(u) PROVE S3Inv'
    OBVIOUS
<1>1. /\ uploads' = uploads \ {u} /\ u \in bucket' \cup dropped'
      /\ bucket \subseteq bucket' /\ dropped \subseteq dropped'
      /\ UNCHANGED <<now3, watchAt, seenTo, sync, rnd, gap>>
    BY Zenon DEF UploadRandomness
<1>2. ASSUME NEW r \in 1..now3
      PROVE  r \in bucket' \/ Excused(r)' \/ (watchAt' = "open" /\ r > seenTo')
    BY <1>1, Zenon DEF S3Inv, Excused
<1>3. sync # "off" => \A r \in Begin..(rnd - 1) : r \in bucket' \cup dropped'
    BY <1>1, Zenon DEF S3Inv
<1> QED
    BY <1>1, <1>2, <1>3, Zenon DEF S3Inv

\* The sync starts, or has been at one more round.
LEMMA S3SyncKeeps == S3Inv /\ (SyncStart \/ SyncGet \/ SyncPut) => S3Inv'
<1> SUFFICES ASSUME S3Inv, SyncStart \/ SyncGet \/ SyncPut PROVE S3Inv'
    OBVIOUS
<1>1. /\ now3 \in Nat /\ now3 \in 0..MaxS3 /\ rnd \in Nat /\ Begin \in Nat /\ MaxS3 \in Nat
    BY S3Assumption DEF S3Inv
<1>2. CASE SyncStart
    <2>1. /\ sync \in {"off", "over"} /\ sync' = "loop" /\ rnd' = Begin
          /\ dropped' = dropped \ (Begin..MaxS3) /\ gap' = gap \ (Begin..MaxS3)
          /\ UNCHANGED <<now3, watchAt, seenTo, uploads, bucket>>
        BY <1>2 DEF SyncStart
    <2>2. ASSUME NEW r \in 1..now3
          PROVE  r \in bucket' \/ Excused(r)' \/ (watchAt' = "open" /\ r > seenTo')
        <3>1. r >= Begin \/ r \notin Begin..MaxS3
            OBVIOUS
        <3>2. r \in bucket \/ r \in uploads \/ r \in gap \/ r \in dropped \/ (watchAt = "open" /\ r > seenTo)
            BY <2>1, Zenon DEF S3Inv, Excused
        <3> QED
            BY <2>1, <3>1, <3>2, Zenon DEF Excused
    <2>3. \A r \in Begin..(rnd' - 1) : FALSE
        BY <1>1, <2>1
    <2> QED
        BY <1>1, <2>1, <2>2, <2>3 DEF S3Inv
<1>3. ASSUME /\ sync \in {"loop", "put"} /\ sync' \in {"loop", "put"} /\ rnd' = rnd + 1
             /\ rnd \in bucket' \cup dropped'
             /\ bucket \subseteq bucket' /\ dropped \subseteq dropped'
             /\ UNCHANGED <<now3, watchAt, seenTo, uploads, gap>>
      PROVE  S3Inv'
    <2>1. ASSUME NEW r \in 1..now3
          PROVE  r \in bucket' \/ Excused(r)' \/ (watchAt' = "open" /\ r > seenTo')
        <3>1. r >= rnd => r = rnd \/ r >= rnd'
            BY <1>1, <1>3
        <3> QED
            BY <1>3, <3>1, Zenon DEF S3Inv, Excused
    <2>2. ASSUME NEW r \in Begin..(rnd' - 1) PROVE r \in bucket' \cup dropped'
        <3>1. r = rnd \/ r \in Begin..(rnd - 1)
            BY <1>1, <1>3
        <3>2. sync # "off"
            BY <1>3
        <3> QED
            BY <1>3, <3>1, <3>2, Zenon DEF S3Inv
    <2> QED
        BY <1>1, <1>3, <2>1, <2>2 DEF S3Inv
<1>4. CASE SyncPut
    <2>1. /\ sync = "put" /\ sync' = "loop" /\ rnd' = rnd + 1 /\ rnd \in bucket' \cup dropped'
          /\ bucket \subseteq bucket' /\ dropped \subseteq dropped'
          /\ UNCHANGED <<now3, watchAt, seenTo, uploads, gap>>
        BY <1>4, Zenon DEF SyncPut
    <2> QED
        BY <1>3, <2>1
<1>5. CASE SyncGet /\ rnd > now3
    <2>1. /\ sync = "loop" /\ sync' = "over"
          /\ UNCHANGED <<now3, watchAt, seenTo, uploads, bucket, gap, rnd, dropped>>
        BY <1>5 DEF SyncGet
    <2>2. ASSUME NEW r \in 1..now3
          PROVE  r \in bucket' \/ Excused(r)' \/ (watchAt' = "open" /\ r > seenTo')
        <3>1. ~(r >= rnd)
            BY <1>1, <1>5
        <3> QED
            BY <2>1, <3>1, Zenon DEF S3Inv, Excused
    <2> QED
        BY <1>1, <2>1, <2>2 DEF S3Inv
<1>6. CASE SyncGet /\ ~(rnd > now3)
    <2>1. /\ sync = "loop" /\ UNCHANGED <<now3, watchAt, seenTo, uploads, bucket, gap>>
          /\ \/ sync' = "put" /\ UNCHANGED <<rnd, dropped>>
             \/ dropped' = dropped \cup {rnd} /\ rnd' = rnd + 1 /\ UNCHANGED sync
        BY <1>6 DEF SyncGet
    <2>2. CASE sync' = "put" /\ UNCHANGED <<rnd, dropped>>
        <3>1. ASSUME NEW r \in 1..now3
              PROVE  r \in bucket' \/ Excused(r)' \/ (watchAt' = "open" /\ r > seenTo')
            BY <2>1, <2>2, Zenon DEF S3Inv, Excused
        <3> QED
            BY <1>1, <2>1, <2>2, <3>1 DEF S3Inv
    <2>3. CASE dropped' = dropped \cup {rnd} /\ rnd' = rnd + 1 /\ UNCHANGED sync
        BY <1>3, <2>1, <2>3, Zenon
    <2> QED
        BY <2>1, <2>2, <2>3
<1> QED
    BY <1>2, <1>4, <1>5, <1>6

\* Every step keeps the invariant.
LEMMA S3Kept == S3Inv /\ [S3Next]_s3Vars => S3Inv'
<1>1. S3Inv /\ UNCHANGED s3Vars => S3Inv'
    BY Zenon DEF S3Inv, Excused, s3Vars
<1> QED
    BY <1>1, S3DueKeeps, S3WatchKeeps, S3UploadKeeps, S3SyncKeeps, Zenon DEF S3Next

\* The invariant is strong enough.
LEMMA S3InvGivesHoles == S3Inv => HolesAreRepaired
<1>1. ASSUME S3Inv, NEW r \in 1..now3 \ bucket
      PROVE  \/ r \in uploads \/ r > seenTo \/ r \in gap \/ r \in dropped
             \/ sync \in {"loop", "put"} /\ r >= rnd
    BY <1>1, Zenon DEF S3Inv, Excused
<1>2. S3Inv => SyncRepairs
    BY Zenon DEF S3Inv, SyncRepairs
<1> QED
    BY <1>1, <1>2, Zenon DEF HolesExplained, HolesAreRepaired

\* For any first round of the sync and any number of rounds, a round that is due
\* and not in the bucket is on its way, came while no watch was open, failed, or
\* lies ahead of a sync; and a sync that ended was at every round from --begin on
\* (watch, syncCmd).
THEOREM HolesHaveCauses == S3Spec => []HolesAreRepaired
<1> QED
    BY S3InitInv, S3Kept, S3InvGivesHoles, PTL DEF S3Spec

-----------------------------------------------------------------------------
(* The gossip client (module Gossip).                                      *)

\* A sequence is a function on the positions up to its length.
LEMMA SeqIsFunction ==
    ASSUME NEW S, NEW s \in Seq(S)
    PROVE  Len(s) \in Nat /\ s \in [1 .. Len(s) -> S] /\ DOMAIN s = 1 .. Len(s)
OBVIOUS

\* Its elements are in the set it is over.
LEMMA SeqElement ==
    ASSUME NEW S, NEW s \in Seq(S), NEW i \in 1 .. Len(s)
    PROVE  s[i] \in S
OBVIOUS

\* Only the empty sequence has length 0.
LEMMA SeqEmpty ==
    ASSUME NEW S
    PROVE  /\ << >> \in Seq(S) /\ Len(<< >>) = 0
           /\ \A s \in Seq(S) : s # << >> => Len(s) \in Nat \ {0}
OBVIOUS

\* What is at the head, and what is left without it.
LEMMA SeqHeadTail ==
    ASSUME NEW S, NEW s \in Seq(S), s # << >>
    PROVE  /\ Head(s) \in S /\ Tail(s) \in Seq(S) /\ Len(Tail(s)) = Len(s) - 1
           /\ \A i \in 1 .. Len(Tail(s)) : Tail(s)[i] = s[i + 1]
OBVIOUS

\* What is appended comes last.
LEMMA SeqAppend ==
    ASSUME NEW S, NEW s \in Seq(S), NEW e \in S
    PROVE  /\ Append(s, e) \in Seq(S) /\ Append(s, e) # << >>
           /\ Len(Append(s, e)) = Len(s) + 1
           /\ \A i \in 1 .. Len(s) : Append(s, e)[i] = s[i]
           /\ Append(s, e)[Len(s) + 1] = e
OBVIOUS

\* What a relay publishes.
Genuine == [round : Nat, ok : {TRUE}]

\* A relay has published the round.
Published(r) == [round |-> r, ok |-> TRUE] \in topic

\* The types of what the argument is about.
GossipTypes ==
    /\ gDue \in Nat /\ gLatest \in Nat
    /\ gQueue \in Seq(Genuine)
    /\ topic \subseteq Genuine
    /\ listed \subseteq GWatch
    /\ inner \in [GWatch -> {"open", "closed"}]
    /\ gw \in [GWatch -> {"none", "select", "forward", "gone"}]
    /\ gctx \in [GWatch -> BOOLEAN]
    /\ holding \in [GWatch -> Nat] /\ seen \in [GWatch -> Nat]
    /\ gPanic \in BOOLEAN

\* The validator let in only what a relay published, in its time.
QueueIsPublished ==
    \A i \in 1 .. Len(gQueue) : gQueue[i].round <= gDue /\ Published(gQueue[i].round)

\* No watch is ahead of the client, and what one is about to forward is new to it.
NewToWatch ==
    \A s \in GWatch :
        /\ seen[s] <= gLatest
        /\ gw[s] = "forward" =>
              /\ seen[s] < holding[s] /\ holding[s] <= gLatest
              /\ holding[s] <= gDue /\ Published(holding[s])

\* A channel is closed under a living watch by the loop's end alone.
ClosedByLoop ==
    \A s \in GWatch :
        /\ gw[s] = "none" => inner[s] = "open"
        /\ gw[s] \in {"select", "forward"} /\ inner[s] = "closed" => gLoop = "off"

\* The inductive invariant.
GossipInv == GossipTypes /\ QueueIsPublished /\ NewToWatch /\ ClosedByLoop /\ ChannelsSafe

\* A genuine message is determined by its round.
LEMMA GenuineMessage ==
    /\ \A r \in Nat : [round |-> r, ok |-> TRUE] \in Genuine
    /\ \A m \in Genuine : m.round \in Nat /\ [round |-> m.round, ok |-> TRUE] = m
<1>1. \A r \in Nat : [round |-> r, ok |-> TRUE] \in Genuine
  BY DEF Genuine
<1>2. ASSUME NEW m \in Genuine
      PROVE  m.round \in Nat /\ [round |-> m.round, ok |-> TRUE] = m
  BY Zenon DEF Genuine
<1> QED
  BY <1>1, <1>2

\* Nothing has been published.
LEMMA GossipInitInv == GossipInit => GossipInv
<1> SUFFICES ASSUME GossipInit
             PROVE  GossipInv
  OBVIOUS
<1>0. gQueue = <<>> /\ Len(gQueue) = 0 /\ gQueue \in Seq(Genuine)
  BY DEF GossipInit
<1>1. GossipTypes
  BY <1>0, Zenon DEF GossipInit, GossipTypes
<1>2. QueueIsPublished
  BY <1>0 DEF QueueIsPublished
<1>3. NewToWatch /\ ClosedByLoop /\ ChannelsSafe
  BY DEF GossipInit, NewToWatch, ClosedByLoop, ChannelsSafe
<1> QED
  BY <1>1, <1>2, <1>3 DEF GossipInv

(* Time goes on, relays publish, messages arrive: nothing the watches have *)
(* becomes wrong.                                                          *)
LEMMA OutsideStep ==
    ASSUME GossipInv, gDue' \in Nat, gDue <= gDue', topic \subseteq topic',
           topic' \subseteq Genuine,
           gQueue' \in Seq(Genuine), QueueIsPublished',
           UNCHANGED <<gLatest, listed, inner, gw, gctx, holding, seen, gPanic>>,
           gLoop' = gLoop \/ gLoop # "off"
    PROVE  GossipInv'
<1>2. GossipTypes'
  BY DEF GossipInv, GossipTypes
<1>3. NewToWatch'
  <2>1. /\ gLatest \in Nat /\ gDue \in Nat
        /\ holding \in [GWatch -> Nat] /\ seen \in [GWatch -> Nat] /\ NewToWatch
    BY DEF GossipInv, GossipTypes
  <2> QED
    BY <2>1 DEF NewToWatch, Published
<1>4. ClosedByLoop' /\ ChannelsSafe'
  BY DEF GossipInv, ClosedByLoop, ChannelsSafe
<1> QED
  BY <1>2, <1>3, <1>4 DEF GossipInv

\* Every step keeps the invariant.
LEMMA GossipStepInv == GossipInv /\ [GossipNext]_gossipVars => GossipInv'
<1> SUFFICES ASSUME GossipInv, [GossipNext]_gossipVars
             PROVE  GossipInv'
  OBVIOUS
<1>0. GossipTypes /\ QueueIsPublished /\ NewToWatch /\ ClosedByLoop /\ ChannelsSafe
  BY DEF GossipInv
<1>q. Len(gQueue) \in Nat
  BY <1>0, SeqIsFunction DEF GossipTypes
<1>t. /\ gDue \in Nat /\ gLatest \in Nat /\ gQueue \in Seq(Genuine) /\ topic \subseteq Genuine
  BY <1>0, Zenon DEF GossipTypes
<1>1. CASE GossipDue
  <2>1. /\ gDue' = gDue + 1 /\ UNCHANGED <<topic, gQueue, gLoop, gLatest, listed, inner, gw, gctx, holding, seen, gPanic>>
    BY <1>1 DEF GossipDue, subVars
  <2>2. gDue' \in Nat /\ gDue <= gDue'
    BY <1>0, <2>1 DEF GossipTypes
  <2>3. \A i \in 1 .. Len(gQueue) : gQueue[i].round \in Nat
    <3>1. \A i \in 1 .. Len(gQueue) : gQueue[i] \in Genuine
      BY <1>t, SeqElement
    <3> QED
      BY <3>1, GenuineMessage
  <2>4. QueueIsPublished'
    BY <1>0, <2>1, <2>3 DEF GossipTypes, QueueIsPublished, Published
  <2> QED
    BY <1>t, <2>1, <2>2, <2>4, OutsideStep
<1>2. ASSUME NEW n \in Relay, NEW r \in 1 .. LastDue, RelayPublish(n, r)
      PROVE  GossipInv'
  <2>1. /\ topic' = topic \cup {[round |-> r, ok |-> TRUE]}
        /\ UNCHANGED <<gDue, gQueue, gLoop, gLatest, listed, inner, gw, gctx, holding, seen, gPanic>>
    BY <1>2 DEF RelayPublish, subVars
  <2>2. topic' \subseteq Genuine
    BY <1>t, <2>1, GenuineMessage
  <2>3. QueueIsPublished'
    BY <1>0, <2>1 DEF QueueIsPublished, Published
  <2> QED
    BY <1>t, <2>1, <2>2, <2>3, OutsideStep
<1>3. ASSUME NEW n \in Relay, RelayLoses(n) \/ RelayWatch(n) \/ RelayShutdown(n)
      PROVE  GossipInv'
  <2>1. UNCHANGED <<gDue, topic, gQueue, gLoop, gLatest, listed, inner, gw, gctx, holding, seen, gPanic>>
    BY <1>3 DEF RelayLoses, RelayWatch, RelayShutdown, RelayStep, subVars
  <2>2. QueueIsPublished'
    BY <1>0, <2>1 DEF QueueIsPublished, Published
  <2> QED
    BY <1>t, <2>1, <2>2, OutsideStep
<1>4. ASSUME NEW m \in topic \cup {[round |-> r, ok |-> FALSE] : r \in Invalid}, Arrive(m)
      PROVE  GossipInv'
  <2>1. /\ m.round <= gDue /\ m.ok /\ gQueue' = Append(gQueue, m)
        /\ UNCHANGED <<gDue, topic, gLoop, gLatest, listed, inner, gw, gctx, holding, seen, gPanic>>
    BY <1>4 DEF Arrive, Accepts, relayVars, subVars
  <2>2. m \in topic
    <3>1. \A r : ~[round |-> r, ok |-> FALSE].ok
      OBVIOUS
    <3> QED
      BY <2>1, <3>1
  <2>3. m \in Genuine /\ Published(m.round)
    BY <1>t, <2>2, GenuineMessage, Zenon DEF Published
  <2>4. /\ gQueue' \in Seq(Genuine) /\ Len(gQueue') = Len(gQueue) + 1
        /\ \A i \in 1 .. Len(gQueue') : gQueue'[i] = IF i = Len(gQueue) + 1 THEN m ELSE gQueue[i]
    BY <1>t, <2>1, <2>3, SeqAppend
  <2>5. QueueIsPublished'
    <3> SUFFICES ASSUME NEW i \in 1 .. Len(gQueue')
                 PROVE  gQueue'[i].round <= gDue /\ Published(gQueue'[i].round)
      BY <2>1 DEF QueueIsPublished, Published
    <3>1. CASE i = Len(gQueue) + 1
      BY <2>1, <2>3, <2>4, <3>1
    <3>2. CASE i # Len(gQueue) + 1
      BY <1>0, <1>q, <2>4, <3>2 DEF QueueIsPublished
    <3> QED
      BY <3>1, <3>2
  <2> QED
    BY <1>t, <2>1, <2>4, <2>5, OutsideStep
<1>5. CASE (\E r \in 1 .. LastDue : CacheChange(r)) \/ CloseClient
  <2>1. /\ UNCHANGED <<gDue, topic, gQueue, gLatest, listed, inner, gw, gctx, holding, seen, gPanic>>
        /\ gLoop' = gLoop \/ gLoop # "off"
    BY <1>5 DEF CacheChange, CloseClient, relayVars, subVars
  <2>2. QueueIsPublished'
    BY <1>0, <2>1 DEF QueueIsPublished, Published
  <2> QED
    BY <1>t, <2>1, <2>2, OutsideStep
<1>6. CASE GossipRead
  <2> DEFINE r == Head(gQueue).round
             take == {s \in listed : gw[s] = "select" /\ Newer(r)}
  <2>1. /\ gLoop = "on" /\ gQueue # <<>> /\ gQueue' = Tail(gQueue)
        /\ gLatest' = IF Newer(r) THEN r ELSE gLatest
        /\ gw' = [s \in GWatch |-> IF s \in take THEN "forward" ELSE gw[s]]
        /\ holding' = [s \in GWatch |-> IF s \in take THEN r ELSE holding[s]]
        /\ UNCHANGED <<gDue, topic, gLoop, listed, inner, gctx, seen, gPanic>>
    BY <1>6 DEF GossipRead, relayVars
  <2>2. /\ gQueue' \in Seq(Genuine) /\ Len(gQueue') = Len(gQueue) - 1
        /\ \A i \in 1 .. Len(gQueue') : gQueue'[i] = gQueue[i + 1]
        /\ Head(gQueue) = gQueue[1] /\ Len(gQueue) >= 1
    BY <1>0, <1>q, <2>1, SeqHeadTail, SeqEmpty DEF GossipTypes
  <2>3. r \in Nat /\ r <= gDue /\ Published(r)
    <3>1. 1 \in 1 .. Len(gQueue)
      BY <1>q, <2>2
    <3>2. gQueue[1] \in Genuine
      BY <1>0, <3>1, SeqElement DEF GossipTypes
    <3> QED
      BY <1>0, <2>2, <3>1, <3>2, GenuineMessage DEF QueueIsPublished
  <2>4. QueueIsPublished'
    BY <1>0, <1>q, <2>1, <2>2 DEF QueueIsPublished, Published
  <2>5. gLatest' \in Nat /\ gLatest <= gLatest' /\ (take # {} => r > gLatest /\ gLatest' = r)
    BY <1>0, <2>1, <2>3 DEF GossipTypes, Newer
  <2>6. \A s \in take : s \in GWatch /\ gw[s] = "select" /\ s \in listed
    BY <1>0 DEF GossipTypes
  <2> HIDE DEF r, take
  <2>7. GossipTypes'
    BY <1>0, <2>1, <2>2, <2>3, <2>5 DEF GossipTypes
  <2>8. NewToWatch'
    <3> SUFFICES ASSUME NEW s \in GWatch
                 PROVE  /\ seen'[s] <= gLatest'
                        /\ gw'[s] = "forward" =>
                              /\ seen'[s] < holding'[s] /\ holding'[s] <= gLatest'
                              /\ holding'[s] <= gDue' /\ [round |-> holding'[s], ok |-> TRUE] \in topic'
      BY Zenon DEF NewToWatch, Published
    <3>1. /\ seen[s] \in Nat /\ holding[s] \in Nat /\ gDue \in Nat /\ gLatest \in Nat
          /\ seen[s] <= gLatest /\ seen' = seen /\ gDue' = gDue /\ topic' = topic
          /\ gw[s] = "forward" => /\ seen[s] < holding[s] /\ holding[s] <= gLatest
                                  /\ holding[s] <= gDue /\ Published(holding[s])
      BY <1>0, <2>1 DEF GossipTypes, NewToWatch
    <3>2. CASE s \in take
      BY <2>1, <2>3, <2>5, <3>1, <3>2 DEF Published
    <3>3. CASE s \notin take
      BY <2>1, <2>5, <3>1, <3>3 DEF Published
    <3> QED
      BY <3>2, <3>3
  <2>9. \A s \in GWatch : gw'[s] = gw[s] \/ (gw[s] = "select" /\ gw'[s] = "forward")
    BY <2>1, <2>6
  <2>10. ClosedByLoop'
    BY <1>0, <2>1, <2>9 DEF ClosedByLoop
  <2>11. listed \subseteq GWatch
    BY <1>0 DEF GossipTypes
  <2>12. ChannelsSafe'
    BY <1>0, <2>1, <2>9, <2>11 DEF ChannelsSafe
  <2> QED
    BY <2>4, <2>7, <2>8, <2>10, <2>12 DEF GossipInv
<1>7. CASE LoopCloses
  <2>1. /\ gLoop' = "off" /\ gQueue' = <<>> /\ listed' = {}
        /\ inner' = [s \in GWatch |-> IF s \in listed THEN "closed" ELSE inner[s]]
        /\ UNCHANGED <<gDue, topic, gLatest, gw, gctx, holding, seen, gPanic>>
    BY <1>7 DEF LoopCloses, relayVars
  <2>2. GossipTypes'
    BY <1>0, <2>1 DEF GossipTypes
  <2>3. QueueIsPublished' /\ NewToWatch'
    BY <1>0, <2>1 DEF QueueIsPublished, NewToWatch, Published
  <2>4. ClosedByLoop'
    BY <1>0, <2>1 DEF ClosedByLoop, ChannelsSafe
  <2>5. ChannelsSafe'
    BY <1>0, <2>1 DEF ChannelsSafe
  <2> QED
    BY <2>2, <2>3, <2>4, <2>5 DEF GossipInv
<1>8. ASSUME NEW s \in GWatch, GossipWatch(s)
      PROVE  GossipInv'
  <2>1. /\ gw[s] = "none" /\ gw' = [gw EXCEPT ![s] = "select"] /\ listed' = listed \cup {s}
        /\ UNCHANGED <<gDue, topic, gQueue, gLoop, gLatest, inner, gctx, holding, seen, gPanic>>
    BY <1>8 DEF GossipWatch, relayVars
  <2>2. GossipTypes'
    BY <1>0, <2>1 DEF GossipTypes
  <2>3. QueueIsPublished'
    BY <1>0, <2>1 DEF QueueIsPublished, Published
  <2>4. NewToWatch'
    BY <1>0, <2>1 DEF GossipTypes, NewToWatch, Published
  <2>5. ClosedByLoop' /\ ChannelsSafe'
    BY <1>0, <2>1, Zenon DEF GossipTypes, ClosedByLoop, ChannelsSafe
  <2> QED
    BY <2>2, <2>3, <2>4, <2>5 DEF GossipInv
<1>9. ASSUME NEW s \in GWatch, NEW taken \in BOOLEAN, Forward(s, taken)
      PROVE  GossipInv'
  <2>1. /\ gw[s] = "forward" /\ gw' = [gw EXCEPT ![s] = "select"]
        /\ seen' = [seen EXCEPT ![s] = IF taken THEN holding[s] ELSE seen[s]]
        /\ UNCHANGED <<gDue, topic, gQueue, gLoop, gLatest, listed, inner, gctx, holding, gPanic>>
    BY <1>9 DEF Forward, relayVars
  <2>2. GossipTypes'
    BY <1>0, <2>1 DEF GossipTypes
  <2>3. QueueIsPublished'
    BY <1>0, <2>1 DEF QueueIsPublished, Published
  <2>4. NewToWatch'
    BY <1>0, <2>1 DEF GossipTypes, NewToWatch, Published
  <2>5. ClosedByLoop' /\ ChannelsSafe'
    BY <1>0, <2>1 DEF GossipTypes, ClosedByLoop, ChannelsSafe
  <2> QED
    BY <2>2, <2>3, <2>4, <2>5 DEF GossipInv
<1>10. ASSUME NEW s \in GWatch, EndWatchContext(s)
       PROVE  GossipInv'
  <2>1. /\ gctx' = [gctx EXCEPT ![s] = TRUE]
        /\ UNCHANGED <<gDue, topic, gQueue, gLoop, gLatest, listed, inner, gw, holding, seen, gPanic>>
    BY <1>10 DEF EndWatchContext, relayVars
  <2>2. GossipTypes'
    BY <1>0, <2>1 DEF GossipTypes
  <2>3. QueueIsPublished' /\ NewToWatch' /\ ClosedByLoop'
    BY <1>0, <2>1 DEF QueueIsPublished, NewToWatch, ClosedByLoop, Published
  <2>4. ChannelsSafe'
    BY <1>0, <2>1 DEF GossipTypes, ChannelsSafe
  <2> QED
    BY <2>2, <2>3, <2>4 DEF GossipInv
<1>11. ASSUME NEW s \in GWatch, Unsubscribe(s)
       PROVE  GossipInv'
  <2>1. /\ gw[s] = "select" /\ gctx[s] /\ gw' = [gw EXCEPT ![s] = "gone"] /\ listed' = listed \ {s}
        /\ inner' = [inner EXCEPT ![s] = "closed"] /\ gPanic' = (gPanic \/ inner[s] = "closed")
        /\ UNCHANGED <<gDue, topic, gQueue, gLoop, gLatest, gctx, holding, seen>>
    BY <1>11 DEF Unsubscribe, relayVars
  <2>2. GossipTypes'
    BY <1>0, <2>1 DEF GossipTypes
  <2>3. QueueIsPublished'
    BY <1>0, <2>1 DEF QueueIsPublished, Published
  <2>4. NewToWatch'
    BY <1>0, <2>1 DEF GossipTypes, NewToWatch, Published
  <2>5. ClosedByLoop'
    BY <1>0, <2>1 DEF GossipTypes, ClosedByLoop
  <2>6. ChannelsSafe'
    BY <1>0, <2>1, Zenon DEF GossipTypes, ClosedByLoop, ChannelsSafe
  <2> QED
    BY <2>2, <2>3, <2>4, <2>5, <2>6 DEF GossipInv
<1>12. ASSUME NEW s \in GWatch, InnerClosed(s)
       PROVE  GossipInv'
  <2>1. /\ gw[s] = "select" /\ inner[s] = "closed" /\ gw' = [gw EXCEPT ![s] = "gone"]
        /\ UNCHANGED <<gDue, topic, gQueue, gLoop, gLatest, listed, inner, gctx, holding, seen, gPanic>>
    BY <1>12 DEF InnerClosed, relayVars
  <2>2. GossipTypes'
    BY <1>0, <2>1 DEF GossipTypes
  <2>3. QueueIsPublished'
    BY <1>0, <2>1 DEF QueueIsPublished, Published
  <2>4. NewToWatch'
    BY <1>0, <2>1 DEF GossipTypes, NewToWatch, Published
  <2>5. ClosedByLoop' /\ ChannelsSafe'
    BY <1>0, <2>1 DEF GossipTypes, ClosedByLoop, ChannelsSafe
  <2> QED
    BY <2>2, <2>3, <2>4, <2>5 DEF GossipInv
<1>13. CASE UNCHANGED gossipVars
  <2>1. UNCHANGED <<gDue, topic, gQueue, gLoop, gLatest, listed, inner, gw, gctx, holding, seen, gPanic>>
    BY <1>13 DEF gossipVars, relayVars, subVars
  <2>2. QueueIsPublished'
    BY <1>0, <2>1 DEF QueueIsPublished, Published
  <2> QED
    BY <1>t, <2>1, <2>2, OutsideStep
<1> QED
  BY <1>1, <1>2, <1>3, <1>4, <1>5, <1>6, <1>7, <1>8, <1>9, <1>10, <1>11, <1>12, <1>13
     DEF GossipNext

(* A listed channel is open and its watch is there to receive: the loop of *)
(* NewWithPubsub never sends on a closed channel.                          *)
THEOREM ListedIsOpen == GossipSpec => []ChannelsSafe
<1>1. GossipInv => ChannelsSafe
  BY DEF GossipInv
<1> QED
  BY <1>1, GossipInitInv, GossipStepInv, PTL DEF GossipSpec

(* Only Forward hands a round to the user, and it is later than the last.  *)
LEMMA ForwardIsNew ==
    ASSUME GossipInv, [GossipNext]_gossipVars, NEW s \in GWatch, seen'[s] # seen[s]
    PROVE  /\ seen'[s] > seen[s] /\ seen'[s] <= gDue /\ Published(seen'[s])
<1>1. PICK z \in GWatch, taken \in BOOLEAN : Forward(z, taken)
  <2>1. ASSUME NEW n \in Relay, NEW r \in 1 .. LastDue, RelayPublish(n, r)
        PROVE  FALSE
    BY <2>1 DEF RelayPublish, subVars
  <2>2. ASSUME NEW n \in Relay, RelayLoses(n) \/ RelayWatch(n) \/ RelayShutdown(n)
        PROVE  FALSE
    BY <2>2 DEF RelayLoses, RelayWatch, RelayShutdown, RelayStep, subVars
  <2>3. ASSUME NEW m, Arrive(m)
        PROVE  FALSE
    BY <2>3, Zenon DEF Arrive, subVars
  <2>4. CASE \/ GossipDue \/ GossipRead \/ CloseClient \/ LoopCloses
             \/ \E r \in 1 .. LastDue : CacheChange(r)
    BY <2>4, Zenon DEF GossipDue, GossipRead, CloseClient, LoopCloses, CacheChange, subVars
  <2>5. ASSUME NEW z \in GWatch,
               GossipWatch(z) \/ EndWatchContext(z) \/ Unsubscribe(z) \/ InnerClosed(z)
        PROVE  FALSE
    BY <2>5 DEF GossipWatch, EndWatchContext, Unsubscribe, InnerClosed
  <2>6. CASE UNCHANGED gossipVars
    BY <2>6 DEF gossipVars, subVars
  <2> QED
    BY <2>1, <2>2, <2>3, <2>4, <2>5, <2>6 DEF GossipNext
<1>2. seen \in [GWatch -> Nat] /\ holding \in [GWatch -> Nat] /\ NewToWatch
  BY Zenon DEF GossipInv, GossipTypes
<1>3. gw[z] = "forward" /\ seen' = [seen EXCEPT ![z] = IF taken THEN holding[z] ELSE seen[z]]
  BY <1>1 DEF Forward
<1>4. s = z /\ seen'[s] = holding[s]
  BY <1>2, <1>3
<1>5. seen[s] < holding[s] /\ holding[s] <= gDue /\ Published(holding[s])
  BY <1>2, <1>3, <1>4 DEF NewToWatch
<1> QED
  BY <1>2, <1>4, <1>5, Zenon

(* A watch hands its user later and later rounds, each published by a      *)
(* relay and due (Client.Watch behind the filter of NewWithPubsub).        *)
THEOREM UserSeesNewRounds == GossipSpec => WatchGoesForward
<1>1. GossipInv /\ [GossipNext]_gossipVars =>
          [\A s \in GWatch : seen'[s] # seen[s] =>
              /\ seen'[s] > seen[s]
              /\ seen'[s] <= gDue
              /\ [round |-> seen'[s], ok |-> TRUE] \in topic]_gossipVars
  BY ForwardIsNew DEF Published
<1> QED
  BY <1>1, GossipInitInv, GossipStepInv, PTL DEF GossipSpec, WatchGoesForward

-----------------------------------------------------------------------------
(* The HTTP handler (module HTTPServer).                                   *)

\* The types of what the argument is about.
HTTPTypes ==
    /\ due \in Nat /\ latestRound \in Nat
    /\ pending \subseteq Req
    /\ waiter \in [Req -> Int]
    /\ req \in [Req -> {"idle", "start", "starter", "first", "second", "due", "waiting", "answered"}]
    /\ want \in [Req -> Nat]
    /\ answer \in [Req -> Int]
    /\ lostWait \in [Req -> BOOLEAN]

\* Nothing is in the channel of a request that has not waited yet.
EmptyBefore == \A q \in Req : req[q] \notin {"waiting", "answered"} => waiter[q] = -1

\* What a request waits for is the next round, or the stream has ended since.
WaitsForNext ==
    \A q \in pending : lostWait[q] \/ (want[q] = latestRound + 1 /\ latestRound # 0)

\* What was sent to a request is its round.
SentItsRound ==
    \A q \in Req : waiter[q] > 0 => waiter[q] <= due /\ (waiter[q] = want[q] \/ lostWait[q])

\* The inductive invariant.
HTTPInv ==
    /\ HTTPTypes /\ latestRound <= due
    /\ ListedWhileWaiting /\ EmptyBefore
    /\ WaitsForNext /\ SentItsRound /\ AnswersItsRound

\* No request has come.
LEMMA HTTPInitInv == HTTPInit => HTTPInv
  BY DEF HTTPInit, HTTPInv, HTTPTypes, ListedWhileWaiting, EmptyBefore, WaitsForNext,
         SentItsRound, AnswersItsRound

(* A step of a request that is not in the list and does not enter it.      *)
LEMMA OutsideTheList ==
    ASSUME HTTPInv, NEW q \in Req, req[q] \notin {"waiting", "answered"},
           NEW pc \in {"start", "starter", "first", "second", "due", "answered"},
           NEW n \in Nat, NEW a \in Int,
           req' = [req EXCEPT ![q] = pc],
           want' = [want EXCEPT ![q] = n],
           answer' = [answer EXCEPT ![q] = a],
           pc = "answered" /\ a > 0 => a <= due /\ a = n,
           UNCHANGED <<due, latestRound, pending, waiter, lostWait>>
    PROVE  HTTPInv'
<1>1. HTTPTypes' /\ (latestRound <= due)'
  BY DEF HTTPInv, HTTPTypes
<1>2. ListedWhileWaiting' /\ EmptyBefore'
  BY DEF HTTPInv, HTTPTypes, ListedWhileWaiting, EmptyBefore
<1>3. q \notin pending /\ waiter[q] = -1
  BY DEF HTTPInv, ListedWhileWaiting, EmptyBefore
<1>4. WaitsForNext'
  BY <1>3 DEF HTTPInv, HTTPTypes, WaitsForNext
<1>5. SentItsRound'
  BY <1>3 DEF HTTPInv, HTTPTypes, SentItsRound
<1>6. AnswersItsRound'
  BY DEF HTTPInv, HTTPTypes, AnswersItsRound
<1> QED
  BY <1>1, <1>2, <1>4, <1>5, <1>6 DEF HTTPInv

\* Every step keeps the invariant.
LEMMA HTTPStepInv == HTTPInv /\ [HTTPNext]_httpVars => HTTPInv'
<1> SUFFICES ASSUME HTTPInv, [HTTPNext]_httpVars
             PROVE  HTTPInv'
  OBVIOUS
<1>0. HTTPTypes
  BY Zenon DEF HTTPInv
<1>1. CASE RoundDue
  BY <1>1 DEF RoundDue, HTTPInv, HTTPTypes, ListedWhileWaiting, EmptyBefore, WaitsForNext,
              SentItsRound, AnswersItsRound
<1>2. CASE StartWatch \/ StartReceives \/ WatchOpen
  BY <1>2 DEF StartWatch, StartReceives, WatchOpen, HTTPInv, HTTPTypes, ListedWhileWaiting,
              EmptyBefore, WaitsForNext, SentItsRound, AnswersItsRound
<1>3. CASE WatchSignal
  <2>1. /\ \A q \in Req : req[q] \in {"waiting", "answered"} \/ req'[q] \in {"waiting", "answered"}
                             => req'[q] = req[q]
        /\ req' \in [Req -> {"idle", "start", "starter", "first", "second", "due", "waiting", "answered"}]
        /\ UNCHANGED <<due, latestRound, pending, waiter, want, answer, lostWait>>
    BY <1>0, <1>3 DEF WatchSignal, HTTPTypes
  <2>2. HTTPTypes' /\ (latestRound <= due)'
    BY <2>1 DEF HTTPInv, HTTPTypes
  <2>3. ListedWhileWaiting' /\ EmptyBefore'
    BY <2>1, Zenon DEF HTTPInv, ListedWhileWaiting, EmptyBefore
  <2>4. WaitsForNext' /\ SentItsRound' /\ AnswersItsRound'
    BY <2>1 DEF HTTPInv, WaitsForNext, SentItsRound, AnswersItsRound
  <2> QED
    BY <2>2, <2>3, <2>4, Zenon DEF HTTPInv
<1>4. CASE WatchLost
  <2>1. /\ latestRound' = 0
        /\ lostWait' = [q \in Req |-> lostWait[q] \/ q \in pending]
        /\ UNCHANGED <<due, pending, waiter, req, want, answer>>
    BY <1>4 DEF WatchLost
  <2>2. \A q \in Req : lostWait[q] \/ q \in pending => lostWait'[q]
    BY <2>1, Zenon
  <2>3. HTTPTypes' /\ (latestRound <= due)'
    BY <2>1 DEF HTTPInv, HTTPTypes
  <2>4. ListedWhileWaiting' /\ EmptyBefore'
    BY <2>1 DEF HTTPInv, ListedWhileWaiting, EmptyBefore
  <2>5. WaitsForNext'
    BY <1>0, <2>1, <2>2, Zenon DEF WaitsForNext, HTTPTypes
  <2>6. SentItsRound' /\ AnswersItsRound'
    BY <2>1, <2>2 DEF HTTPInv, SentItsRound, AnswersItsRound
  <2> QED
    BY <2>3, <2>4, <2>5, <2>6 DEF HTTPInv
<1>5. ASSUME NEW r \in 1 .. MaxDue, WatchResult(r)
      PROVE  HTTPInv'
  <2> DEFINE b == IF latestRound + 1 # r /\ latestRound # 0 THEN 0 ELSE r
  <2>1. /\ r <= due /\ latestRound' = r /\ pending' = {}
        /\ waiter' = [q \in Req |-> IF q \in pending THEN b ELSE waiter[q]]
        /\ UNCHANGED <<due, req, want, answer, lostWait>>
    BY <1>5 DEF WatchResult
  <2>2. b \in Nat /\ b <= due
    BY <1>0, <2>1 DEF HTTPTypes
  <2>3. \A q \in pending : b = 0 \/ b = want[q] \/ lostWait[q]
    BY <1>0 DEF HTTPInv, HTTPTypes, WaitsForNext
  <2> HIDE DEF b
  <2>4. HTTPTypes' /\ (latestRound <= due)'
    BY <1>0, <2>1, <2>2 DEF HTTPTypes
  <2>5. ListedWhileWaiting' /\ EmptyBefore'
    BY <1>0, <2>1, <2>2 DEF HTTPInv, HTTPTypes, ListedWhileWaiting, EmptyBefore
  <2>6. WaitsForNext'
    BY <2>1, Zenon DEF WaitsForNext
  <2>7. SentItsRound'
    BY <1>0, <2>1, <2>2, <2>3 DEF HTTPInv, HTTPTypes, SentItsRound
  <2>8. AnswersItsRound'
    BY <2>1 DEF HTTPInv, AnswersItsRound
  <2> QED
    BY <2>4, <2>5, <2>6, <2>7, <2>8, Zenon DEF HTTPInv
<1>6. ASSUME NEW q \in Req, NEW n \in 1 .. MaxDue + 1, PublicRand(q, n)
      PROVE  HTTPInv'
  <2>1. /\ req[q] = "idle" /\ want' = [want EXCEPT ![q] = n]
        /\ UNCHANGED <<due, latestRound, pending, waiter, lostWait>>
    BY <1>6 DEF PublicRand
  <2>2. PICK pc \in {"start", "answered"}, a \in Int :
           /\ req' = [req EXCEPT ![q] = pc] /\ answer' = [answer EXCEPT ![q] = a]
           /\ pc = "answered" => ~(a > 0)
    <3>1. CASE Respond(q, -500) \/ Respond(q, -404)
      BY <3>1 DEF Respond
    <3>2. CASE Go(q, "start")
      BY <1>0, <3>2 DEF Go, HTTPTypes
    <3> QED
      BY <1>6, <3>1, <3>2, Zenon DEF PublicRand
  <2>3. n \in Nat /\ (pc = "answered" /\ a > 0 => a <= due /\ a = n)
    BY <2>2
  <2>4. pc \in {"start", "starter", "first", "second", "due", "answered"}
    OBVIOUS
  <2>5. req[q] \notin {"waiting", "answered"}
    BY <2>1
  <2> QED
    BY <2>1, <2>2, <2>3, <2>4, <2>5, OutsideTheList, Zenon
<1>7. ASSUME NEW q \in Req, NEW a \in Int, ~(a > 0),
             req[q] \notin {"waiting", "answered"}, Respond(q, a),
             UNCHANGED <<due, latestRound, pending, waiter, want, lostWait>>
      PROVE  HTTPInv'
  <2>1. want[q] \in Nat /\ want' = [want EXCEPT ![q] = want[q]]
    BY <1>0, <1>7 DEF HTTPTypes
  <2> QED
    BY <1>7, <2>1, OutsideTheList, Zenon DEF Respond
<1>8. ASSUME NEW q \in Req, NEW pc \in {"start", "starter", "first", "second", "due"},
             req[q] \notin {"waiting", "answered"}, Go(q, pc),
             UNCHANGED <<due, latestRound, pending, waiter, want, lostWait>>
      PROVE  HTTPInv'
  <2>1. /\ want[q] \in Nat /\ want' = [want EXCEPT ![q] = want[q]]
        /\ answer[q] \in Int /\ answer' = [answer EXCEPT ![q] = answer[q]]
    BY <1>0, <1>8 DEF HTTPTypes, Go
  <2> QED
    BY <1>8, <2>1, OutsideTheList, Zenon DEF Go
<1>9. ASSUME NEW q \in Req, HealthAsked(q) \/ LookFirst(q) \/ StartOnce(q)
      PROVE  HTTPInv'
  <2>1. PICK pc \in {"start", "starter", "first", "second", "due"} : Go(q, pc)
    BY <1>9, Zenon DEF HealthAsked, LookFirst, StartOnce
  <2>2. /\ req[q] \notin {"waiting", "answered"}
        /\ UNCHANGED <<due, latestRound, pending, waiter, want, lostWait>>
    BY <1>9 DEF HealthAsked, LookFirst, StartOnce
  <2> QED
    BY <1>8, <2>1, <2>2, Zenon
<1>10. ASSUME NEW q \in Req, Health(q) \/ ChainInfo(q)
       PROVE  HTTPInv'
  <2>1. Respond(q, -200) \/ Respond(q, -204) \/ Respond(q, -503)
    <3>1. CASE Health(q)
      <4>1. \/ Respond(q, -503)
            \/ Respond(q, IF due \in {latestRound, latestRound + 1} THEN -200 ELSE -503)
        BY <3>1, Zenon DEF Health
      <4> QED
        BY <4>1, Zenon
    <3>2. CASE ChainInfo(q)
      BY <3>2, Zenon DEF ChainInfo
    <3> QED
      BY <1>10, <3>1, <3>2, Zenon
  <2>2. req[q] \notin {"waiting", "answered"}
    BY <1>10, Zenon DEF Health, ChainInfo
  <2>3. UNCHANGED <<due, latestRound, pending, waiter, want, lostWait>>
    BY <1>10, Zenon DEF Health, ChainInfo
  <2>4. /\ -200 \in Int /\ ~(-200 > 0)
        /\ -204 \in Int /\ ~(-204 > 0)
        /\ -503 \in Int /\ ~(-503 > 0)
    OBVIOUS
  <2>5. ASSUME NEW a \in Int, ~(a > 0), Respond(q, a) PROVE HTTPInv'
    BY <1>7, <2>2, <2>3, <2>5
  <2> QED
    BY <2>1, <2>4, <2>5, Zenon
<1>11. ASSUME NEW q \in Req, LatestRand(q)
       PROVE  HTTPInv'
  <2>1. /\ req[q] = "idle"
        /\ UNCHANGED <<due, latestRound, pending, waiter, lostWait>>
    BY <1>11 DEF LatestRand
  <2>2. CASE Respond(q, -500) /\ UNCHANGED want
    BY <1>7, <2>1, <2>2
  <2>3. ASSUME NEW r \in 1 .. due, want' = [want EXCEPT ![q] = r], Respond(q, r)
        PROVE  HTTPInv'
    <3>1. r \in Nat /\ r \in Int /\ r <= due
      BY <1>0 DEF HTTPTypes
    <3>2. req[q] \notin {"waiting", "answered"}
      BY <2>1
    <3>3. req' = [req EXCEPT ![q] = "answered"] /\ answer' = [answer EXCEPT ![q] = r]
      BY <2>3 DEF Respond
    <3> QED
      BY <2>1, <2>3, <3>1, <3>2, <3>3, OutsideTheList, Zenon
  <2> QED
    BY <1>11, <2>2, <2>3, Zenon DEF LatestRand
<1>12. ASSUME NEW q \in Req, LookAgain(q)
       PROVE  HTTPInv'
  <2>1. CASE ~ComesNext(q)
    BY <1>8, <1>12, <2>1, Zenon DEF LookAgain
  <2>2. CASE ComesNext(q)
    <3>1. /\ req[q] = "second" /\ req' = [req EXCEPT ![q] = "waiting"]
          /\ pending' = pending \cup {q} /\ want[q] = latestRound + 1 /\ latestRound # 0
          /\ UNCHANGED <<due, latestRound, waiter, want, answer, lostWait>>
      BY <1>12, <2>2, Zenon DEF LookAgain, Go, ComesNext
    <3>2. HTTPTypes' /\ (latestRound <= due)'
      BY <1>0, <3>1, Zenon DEF HTTPInv, HTTPTypes
    <3>3. ListedWhileWaiting' /\ EmptyBefore'
      BY <1>0, <3>1, Zenon DEF HTTPInv, HTTPTypes, ListedWhileWaiting, EmptyBefore
    <3>4. WaitsForNext' /\ SentItsRound'
      BY <3>1, Zenon DEF HTTPInv, WaitsForNext, SentItsRound
    <3>5. AnswersItsRound'
      <4>1. \A p \in Req : req'[p] = "answered" => req[p] = "answered"
        BY <1>0, <3>1 DEF HTTPTypes
      <4> QED
        BY <3>1, <4>1, Zenon DEF HTTPInv, AnswersItsRound
    <3> QED
      BY <3>2, <3>3, <3>4, <3>5, Zenon DEF HTTPInv
  <2> QED
    BY <2>1, <2>2, Zenon
<1>13. ASSUME NEW q \in Req, Woken(q) \/ GivenUp(q)
       PROVE  HTTPInv'
  <2>1. PICK a \in {waiter[q], -500} :
          /\ req[q] = "waiting" /\ req' = [req EXCEPT ![q] = "answered"]
          /\ answer' = [answer EXCEPT ![q] = a]
          /\ UNCHANGED <<due, latestRound, waiter, want, lostWait>>
    BY <1>13, Zenon DEF Woken, GivenUp, Respond
  <2>2. pending' = pending \ {q}
    <3>1. CASE Woken(q)
      <4>1. waiter[q] # -1 /\ pending' = pending
        BY <3>1, Zenon DEF Woken
      <4>2. q \notin pending
        BY <4>1, Zenon DEF HTTPInv, ListedWhileWaiting
      <4> QED
        BY <4>1, <4>2
    <3>2. CASE GivenUp(q)
      BY <3>2, Zenon DEF GivenUp
    <3> QED
      BY <1>13, <3>1, <3>2, Zenon
  <2>3. a \in Int /\ (a > 0 => a <= due /\ (a = want[q] \/ lostWait[q]))
    BY <1>0, <2>1 DEF HTTPInv, HTTPTypes, SentItsRound
  <2>4. HTTPTypes' /\ (latestRound <= due)'
    <3>1. HTTPTypes'
      BY <1>0, <2>1, <2>2, <2>3 DEF HTTPTypes
    <3>2. (latestRound <= due)'
      BY <2>1 DEF HTTPInv
    <3> QED
      BY <3>1, <3>2
  <2>a. /\ req'[q] = "answered" /\ answer'[q] = a
        /\ \A p \in Req \ {q} : req'[p] = req[p] /\ answer'[p] = answer[p]
    BY <1>0, <2>1 DEF HTTPTypes
  <2>5. ListedWhileWaiting' /\ EmptyBefore'
    <3>1. ASSUME NEW p \in Req
          PROVE  /\ p \in pending' <=> req'[p] = "waiting" /\ waiter'[p] = -1
                 /\ req'[p] \notin {"waiting", "answered"} => waiter'[p] = -1
      <4>1. CASE p = q
        BY <2>2, <2>a, <4>1
      <4>2. CASE p # q
        <5>1. ListedWhileWaiting /\ EmptyBefore
          BY Zenon DEF HTTPInv
        <5> QED
          BY <2>1, <2>2, <2>a, <4>2, <5>1 DEF ListedWhileWaiting, EmptyBefore
      <4> QED
        BY <4>1, <4>2, Zenon
    <3> QED
      BY <3>1, Zenon DEF ListedWhileWaiting, EmptyBefore
  <2>6. WaitsForNext' /\ SentItsRound'
    BY <2>1, <2>2, Zenon DEF HTTPInv, WaitsForNext, SentItsRound
  <2>7. AnswersItsRound'
    <3>1. ASSUME NEW p \in Req, req'[p] = "answered", answer'[p] > 0
          PROVE  answer'[p] <= due' /\ (answer'[p] = want'[p] \/ lostWait'[p])
      <4>1. CASE p = q
        BY <2>1, <2>3, <2>a, <3>1, <4>1
      <4>2. CASE p # q
        <5>1. AnswersItsRound
          BY Zenon DEF HTTPInv
        <5> QED
          BY <2>1, <2>a, <3>1, <4>2, <5>1 DEF AnswersItsRound
      <4> QED
        BY <4>1, <4>2, Zenon
    <3> QED
      BY <3>1, Zenon DEF AnswersItsRound
  <2> QED
    BY <2>4, <2>5, <2>6, <2>7, Zenon DEF HTTPInv
<1>14. ASSUME NEW q \in Req, AskClient(q)
       PROVE  HTTPInv'
  <2>1. /\ req[q] = "due" /\ want[q] \in Nat
        /\ UNCHANGED <<due, latestRound, pending, waiter, want, lostWait>>
    BY <1>0, <1>14, Zenon DEF AskClient, HTTPTypes
  <2>2. CASE Respond(q, -404) \/ Respond(q, -500)
    BY <1>7, <2>1, <2>2
  <2>3. CASE want[q] <= due /\ Respond(q, want[q])
    <3>1. want' = [want EXCEPT ![q] = want[q]]
      BY <1>0, <2>1, Zenon DEF HTTPTypes
    <3>2. req[q] \notin {"waiting", "answered"} /\ want[q] \in Int
      BY <2>1
    <3>3. req' = [req EXCEPT ![q] = "answered"] /\ answer' = [answer EXCEPT ![q] = want[q]]
      BY <2>3, Zenon DEF Respond
    <3> QED
      BY <2>1, <2>3, <3>1, <3>2, <3>3, OutsideTheList, Zenon
  <2> QED
    BY <1>14, <2>2, <2>3, Zenon DEF AskClient
<1>15. CASE UNCHANGED httpVars
  BY <1>15, Zenon DEF httpVars, HTTPInv, HTTPTypes, ListedWhileWaiting, EmptyBefore, WaitsForNext,
               SentItsRound, AnswersItsRound
<1> QED
  BY <1>1, <1>2, <1>3, <1>4, <1>5, <1>6, <1>9, <1>10, <1>11, <1>12, <1>13, <1>14, <1>15
     DEF HTTPNext

(* Exactly the waiting requests that nothing was sent to are in h.pending: *)
(* getRand never misses its wake-up and Watch never sends to a request     *)
(* that is gone, however many requests there are.                          *)
THEOREM WaitersAreListed == HTTPSpec => []ListedWhileWaiting
<1>1. HTTPInv => ListedWhileWaiting
  BY DEF HTTPInv
<1> QED
  BY <1>1, HTTPInitInv, HTTPStepInv, PTL DEF HTTPSpec

(* The answers of getRand: the round that was asked for and is due, unless *)
(* the stream ended while the request waited.                              *)
THEOREM AnswerIsAskedRound == HTTPSpec => []AnswersItsRound
<1>1. HTTPInv => AnswersItsRound
  BY DEF HTTPInv
<1> QED
  BY <1>1, HTTPInitInv, HTTPStepInv, PTL DEF HTTPSpec
===============================================================================
