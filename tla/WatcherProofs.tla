---------------------------- MODULE WatcherProofs -----------------------------
(***************************************************************************)
(* Whoever is told of new rounds. The subscribers of a client, for any     *)
(* number of them. The callbacks of the store and the streams they feed,   *)
(* for any number of putters, workers and streams, any rounds and any      *)
(* length of the queue.                                                    *)
(***************************************************************************)
EXTENDS CallbackStore, WatchAggregator, TLAPS
-----------------------------------------------------------------------------
(* The aggregator of a client's watchers (module WatchAggregator).         *)

AggTypes ==
    /\ subs \in SUBSET Sub /\ subClosed \in SUBSET Sub
    /\ subCtx \in [Sub -> {"new", "live", "done"}]
    /\ dist \in [Sub -> {"none", "top", "select", "lock", "over"}]
    /\ aCtx \in [Sub -> 0 .. MaxSubs]
    /\ got \in [Sub -> {"none", "result", "end", "left"}]

\* The subscribers come in the order of their numbers.
InTurn == \A s \in Sub : \A t \in 1 .. s - 1 : subCtx[s] # "new" => subCtx[t] # "new"

\* The context a distribution waits for is of a subscriber before all in the list.
WaitsForFirst ==
    \A d \in Sub : dist[d] \in {"select", "lock"} =>
        /\ aCtx[d] \in Sub /\ subCtx[aCtx[d]] # "new"
        /\ \A s \in subs : aCtx[d] <= s

\* What its select returned has a cause.
SelectHasCause ==
    \A d \in Sub : dist[d] = "lock" =>
        /\ got[d] = "end" => ended # {}
        /\ got[d] = "left" => subCtx[aCtx[d]] = "done"
        /\ got[d] # "none"

\* Nobody's channel is closed before it was given out.
ClosedCame == \A s \in subClosed : subCtx[s] # "new"

\* The sink of the passive client runs only while its cancel function is kept.
SinkIsKnown == sink = "on" => passiveOn

AggInv ==
    /\ AggTypes /\ InTurn /\ WaitsForFirst /\ SelectHasCause /\ ClosedCame /\ SinkIsKnown
    /\ SubscribersServed /\ ClosedByEarlier /\ PassiveYields

\* Nobody has subscribed yet.
LEMMA AggInitInv == AggInit => AggInv
<1> SUFFICES ASSUME AggInit PROVE AggInv
    OBVIOUS
<1>1. /\ subs = {} /\ subCtx = [s \in Sub |-> "new"] /\ subClosed = {}
      /\ dist = [s \in Sub |-> "none"] /\ aCtx = [s \in Sub |-> NoSub]
      /\ got = [s \in Sub |-> "none"] /\ passiveOn = FALSE /\ sink = "none"
    BY Zenon DEF AggInit
<1>2. AggTypes
    BY <1>1, AggAssumption DEF AggTypes, NoSub
<1>3. InTurn /\ WaitsForFirst /\ SelectHasCause /\ ClosedCame
    BY <1>1 DEF InTurn, WaitsForFirst, SelectHasCause, ClosedCame
<1>4. SinkIsKnown /\ ClosedByEarlier /\ PassiveYields
    BY <1>1 DEF SinkIsKnown, ClosedByEarlier, PassiveYields
<1>5. SubscribersServed
    BY <1>1 DEF SubscribersServed
<1> QED
    BY <1>2, <1>3, <1>4, <1>5, Zenon DEF AggInv

\* What a new subscriber is to the others.
LEMMA AggNewcomer ==
  ASSUME AggInv, NEW s \in Sub, subCtx[s] = "new", \A t \in 1 .. s - 1 : subCtx[t] # "new"
  PROVE  /\ s \notin subs /\ s \notin subClosed
         /\ \A t \in Sub : subCtx[t] # "new" => t < s
         /\ s \in Int /\ \A t \in Sub : t \in Int
<1>1. s \notin subs /\ s \notin subClosed
    BY Zenon DEF AggInv, SubscribersServed, ClosedCame
<1>2. s \in Int /\ \A t \in Sub : t \in Int
    BY AggAssumption DEF Sub
<1>3. ASSUME NEW t \in Sub, subCtx[t] # "new" PROVE t < s
    <2>1. s # t
        BY <1>3, Zenon
    <2>2. s < t => s \in 1 .. t - 1
        BY <1>2, AggAssumption DEF Sub
    <2>3. s \notin 1 .. t - 1
        BY <1>3, Zenon DEF AggInv, InTurn
    <2> QED
        BY <1>2, <2>1, <2>2, <2>3
<1> QED
    BY <1>1, <1>2, <1>3, Zenon

\* Watch.
LEMMA SubscribeKeeps ==
  ASSUME AggInv, NEW s \in Sub, Subscribe(s)
  PROVE  AggInv'
<1>a. /\ AggTypes /\ InTurn /\ WaitsForFirst /\ SelectHasCause /\ ClosedCame /\ SinkIsKnown
      /\ SubscribersServed /\ ClosedByEarlier /\ PassiveYields
    BY Zenon DEF AggInv
<1>1. /\ subCtx[s] = "new" /\ \A t \in 1 .. s - 1 : subCtx[t] # "new"
      /\ subCtx' = [subCtx EXCEPT ![s] = "live"] /\ subs' = subs \cup {s}
      /\ UNCHANGED <<subClosed, aCtx, got, ended>>
      /\ \/ /\ subs = {} /\ dist' = [dist EXCEPT ![s] = "top"] /\ passiveOn' = FALSE
            /\ sink' = IF passiveOn /\ sink = "on" THEN "cancelled" ELSE sink
         \/ subs # {} /\ UNCHANGED <<dist, passiveOn, sink>>
    BY Zenon DEF Subscribe
<1>2. /\ s \notin subs /\ s \notin subClosed
      /\ \A t \in Sub : subCtx[t] # "new" => t < s
      /\ s \in Int /\ \A t \in Sub : t \in Int
    BY <1>1, AggNewcomer
<1>3. AggTypes'
    BY <1>a, <1>1 DEF AggTypes
<1>4. subCtx'[s] = "live" /\ \A t \in Sub : t # s => subCtx'[t] = subCtx[t]
    BY <1>a, <1>1 DEF AggTypes
<1>5. /\ \A d \in Sub : dist'[d] = dist[d] \/ (d = s /\ dist'[d] = "top")
      /\ \A d \in Sub : dist'[d] \in {"select", "lock"} => dist[d] \in {"select", "lock"} /\ dist[d] = dist'[d]
    BY <1>a, <1>1 DEF AggTypes
<1>6. InTurn'
    <2>1. ASSUME NEW u \in Sub, NEW t \in 1 .. u - 1, subCtx'[u] # "new" PROVE subCtx'[t] # "new"
        <3>1. t \in Sub
            BY AggAssumption DEF Sub
        <3>2. CASE u = s
            BY <1>1, <1>4, <3>1, <3>2, Zenon
        <3>3. CASE u # s
            BY <1>a, <1>4, <2>1, <3>1, <3>3, Zenon DEF InTurn
        <3> QED
            BY <3>2, <3>3
    <2> QED
        BY <2>1, Zenon DEF InTurn
<1>7. WaitsForFirst'
    <2>1. ASSUME NEW d \in Sub, dist'[d] \in {"select", "lock"}
          PROVE  /\ aCtx'[d] \in Sub /\ subCtx'[aCtx'[d]] # "new"
                 /\ \A u \in subs' : aCtx'[d] <= u
        <3>1. /\ aCtx[d] \in Sub /\ subCtx[aCtx[d]] # "new" /\ \A u \in subs : aCtx[d] <= u
            BY <1>a, <1>5, <2>1, Zenon DEF WaitsForFirst
        <3>2. aCtx[d] # s
            BY <1>1, <3>1, Zenon
        <3>3. aCtx[d] <= s
            <4>1. aCtx[d] < s /\ aCtx[d] \in Int
                BY <1>2, <3>1, Zenon
            <4> QED
                BY <1>2, <4>1
        <3> QED
            BY <1>1, <1>4, <3>1, <3>2, <3>3, Zenon
    <2> QED
        BY <2>1, Zenon DEF WaitsForFirst
<1>8. SelectHasCause'
    <2>1. ASSUME NEW d \in Sub, dist'[d] = "lock"
          PROVE  /\ dist[d] = "lock" /\ subCtx'[aCtx'[d]] = subCtx[aCtx[d]]
        <3>1. dist[d] = "lock" /\ aCtx[d] \in Sub /\ aCtx[d] # s
            BY <1>a, <1>1, <1>5, <2>1 DEF WaitsForFirst
        <3> QED
            BY <1>1, <1>4, <3>1, Zenon
    <2> QED
        BY <1>a, <1>1, <2>1, Zenon DEF SelectHasCause
<1>9. ClosedCame' /\ SinkIsKnown' /\ PassiveYields'
    <2>1. ClosedCame'
        BY <1>a, <1>1, <1>2, <1>4, Zenon DEF ClosedCame, AggTypes
    <2>2. ~passiveOn' /\ sink' # "on"
        BY <1>a, <1>1 DEF SinkIsKnown, PassiveYields
    <2> QED
        BY <2>1, <2>2, Zenon DEF SinkIsKnown, PassiveYields
<1>10. SubscribersServed'
    <2>1. subs' = {t \in Sub : subCtx'[t] # "new"} \ subClosed'
        BY <1>a, <1>1, <1>2, <1>4 DEF SubscribersServed
    <2>2. Distributing' # {}
        <3>1. CASE subs = {}
            BY <1>a, <1>1, <3>1 DEF Distributing, AggTypes
        <3>2. CASE subs # {}
            BY <1>a, <1>1, <3>2, Zenon DEF Distributing, SubscribersServed
        <3> QED
            BY <3>1, <3>2
    <2> QED
        BY <2>1, <2>2, Zenon DEF SubscribersServed
<1>11. ClosedByEarlier'
    <2>1. ASSUME NEW u \in subClosed', subCtx'[u] = "live"
          PROVE  ended' # {} \/ (\E t \in 1 .. u - 1 : subCtx'[t] = "done")
        <3>1. u \in Sub /\ u # s /\ subCtx[u] = "live"
            BY <1>a, <1>1, <1>2, <1>4, <2>1, Zenon DEF AggTypes
        <3>2. ended # {} \/ (\E t \in 1 .. u - 1 : subCtx[t] = "done")
            BY <1>a, <1>1, <2>1, <3>1, Zenon DEF ClosedByEarlier
        <3>3. \A t \in 1 .. u - 1 : t \in Sub
            BY <3>1, AggAssumption DEF Sub
        <3>4. \A t \in Sub : subCtx[t] = "done" => t # s
            BY <1>1
        <3> QED
            BY <1>1, <1>4, <3>2, <3>3, <3>4, Zenon
    <2> QED
        BY <2>1, Zenon DEF ClosedByEarlier
<1> QED
    BY <1>3, <1>6, <1>7, <1>8, <1>9, <1>10, <1>11, Zenon DEF AggInv

\* A context ends.
LEMMA AggLeaveKeeps ==
  ASSUME AggInv, NEW s \in Sub, AggLeave(s)
  PROVE  AggInv'
<1>a. /\ AggTypes /\ InTurn /\ WaitsForFirst /\ SelectHasCause /\ ClosedCame /\ SinkIsKnown
      /\ SubscribersServed /\ ClosedByEarlier /\ PassiveYields
    BY Zenon DEF AggInv
<1>1. /\ subCtx[s] = "live" /\ subCtx' = [subCtx EXCEPT ![s] = "done"]
      /\ UNCHANGED <<subs, subClosed, dist, aCtx, got, ended, passiveOn, sink>>
    BY Zenon DEF AggLeave
<1>2. /\ AggTypes'
      /\ \A t \in Sub : /\ subCtx'[t] # "new" <=> subCtx[t] # "new"
                        /\ subCtx[t] = "done" => subCtx'[t] = "done"
                        /\ subCtx'[t] = "live" => subCtx[t] = "live"
    BY <1>a, <1>1 DEF AggTypes
<1>3. \A u \in Sub : \A t \in 1 .. u - 1 : t \in Sub
    BY AggAssumption DEF Sub
<1>4. InTurn'
    BY <1>a, <1>2, <1>3, Zenon DEF InTurn
<1>5. WaitsForFirst' /\ SelectHasCause'
    BY <1>a, <1>1, <1>2, Zenon DEF WaitsForFirst, SelectHasCause
<1>6. ClosedCame' /\ SinkIsKnown' /\ PassiveYields'
    BY <1>a, <1>1, <1>2, Zenon DEF ClosedCame, SinkIsKnown, PassiveYields, AggTypes
<1>7. SubscribersServed'
    <2>1. {t \in Sub : subCtx'[t] # "new"} = {t \in Sub : subCtx[t] # "new"}
        BY <1>2
    <2> QED
        BY <1>a, <1>1, <2>1, Zenon DEF SubscribersServed, Distributing
<1>8. ClosedByEarlier'
    BY <1>a, <1>1, <1>2, <1>3, Zenon DEF ClosedByEarlier, AggTypes
<1> QED
    BY <1>2, <1>4, <1>5, <1>6, <1>7, <1>8, Zenon DEF AggInv

\* distribute takes the first context, and waits.
LEMMA DistWaitsKeeps ==
  ASSUME AggInv, NEW d \in Sub, DistTop(d) \/ DistSelect(d)
  PROVE  AggInv'
<1>a. /\ AggTypes /\ InTurn /\ WaitsForFirst /\ SelectHasCause /\ ClosedCame /\ SinkIsKnown
      /\ SubscribersServed /\ ClosedByEarlier /\ PassiveYields
    BY Zenon DEF AggInv
<1>1. UNCHANGED <<subs, subCtx, subClosed, passiveOn, sink>> /\ ended \subseteq ended'
    BY Zenon DEF DistTop, DistSelect
<1>2. InTurn' /\ ClosedCame' /\ SinkIsKnown' /\ PassiveYields'
    BY <1>a, <1>1, Zenon DEF InTurn, ClosedCame, SinkIsKnown, PassiveYields
<1>3. ClosedByEarlier'
    <2>1. ended # {} => ended' # {}
        BY <1>1
    <2> QED
        BY <1>a, <1>1, <2>1, Zenon DEF ClosedByEarlier
<1>4. CASE DistTop(d) /\ subs = {}
    <2>1. dist' = [dist EXCEPT ![d] = "over"] /\ UNCHANGED <<aCtx, got, ended>>
        BY <1>4, Zenon DEF DistTop
    <2>2. AggTypes' /\ \A e \in Sub : dist'[e] \in {"select", "lock"} => dist'[e] = dist[e]
        BY <1>a, <1>1, <2>1 DEF AggTypes
    <2>3. WaitsForFirst' /\ SelectHasCause'
        BY <1>a, <1>1, <2>1, <2>2, Zenon DEF WaitsForFirst, SelectHasCause
    <2>4. SubscribersServed'
        BY <1>a, <1>1, <1>4, Zenon DEF SubscribersServed
    <2> QED
        BY <1>2, <1>3, <2>2, <2>3, <2>4, Zenon DEF AggInv
<1>5. CASE DistTop(d) /\ subs # {}
    <2>1. /\ dist' = [dist EXCEPT ![d] = "select"] /\ UNCHANGED <<got, ended>>
          /\ \E s \in subs : First(s) /\ aCtx' = [aCtx EXCEPT ![d] = s]
        BY <1>5, Zenon DEF DistTop
    <2>2. PICK s \in subs : First(s) /\ aCtx' = [aCtx EXCEPT ![d] = s]
        BY <2>1, Zenon
    <2>3. s \in Sub /\ s \in 0 .. MaxSubs /\ subCtx[s] # "new"
        BY <1>a, AggAssumption DEF AggTypes, SubscribersServed, Sub
    <2>4. AggTypes'
        BY <1>a, <1>1, <2>1, <2>2, <2>3 DEF AggTypes
    <2>5. /\ dist'[d] = "select" /\ aCtx'[d] = s
          /\ \A e \in Sub : e # d => dist'[e] = dist[e] /\ aCtx'[e] = aCtx[e]
        BY <1>a, <2>1, <2>2 DEF AggTypes
    <2>6. WaitsForFirst'
        <3>1. ASSUME NEW e \in Sub, dist'[e] \in {"select", "lock"}
              PROVE  /\ aCtx'[e] \in Sub /\ subCtx'[aCtx'[e]] # "new"
                     /\ \A t \in subs' : aCtx'[e] <= t
            <4>1. CASE e = d
                <5>1. \A t \in subs : s <= t
                    BY <2>2, Zenon DEF First
                <5> QED
                    BY <1>1, <2>3, <2>5, <4>1, <5>1
            <4>2. CASE e # d
                BY <1>a, <1>1, <2>5, <3>1, <4>2, Zenon DEF WaitsForFirst
            <4> QED
                BY <4>1, <4>2, Zenon
        <3> QED
            BY <3>1, Zenon DEF WaitsForFirst
    <2>7. SelectHasCause'
        <3>1. \A e \in Sub : dist'[e] = "lock" => e # d
            BY <2>5
        <3> QED
            BY <1>a, <1>1, <2>1, <2>5, <3>1, Zenon DEF SelectHasCause
    <2>8. SubscribersServed'
        BY <1>a, <1>1, <2>5 DEF SubscribersServed, Distributing
    <2> QED
        BY <1>2, <1>3, <2>4, <2>6, <2>7, <2>8, Zenon DEF AggInv
<1>6. CASE DistSelect(d)
    <2>1. /\ dist[d] = "select" /\ dist' = [dist EXCEPT ![d] = "lock"] /\ aCtx' = aCtx
          /\ \/ got' = [got EXCEPT ![d] = "result"] /\ UNCHANGED ended
             \/ got' = [got EXCEPT ![d] = "end"] /\ ended' = ended \cup {d}
             \/ subCtx[aCtx[d]] = "done" /\ got' = [got EXCEPT ![d] = "left"] /\ UNCHANGED ended
        BY <1>6, Zenon DEF DistSelect
    <2>2. AggTypes'
        BY <1>a, <1>1, <2>1 DEF AggTypes
    <2>3. /\ dist'[d] = "lock" /\ \A e \in Sub : e # d => dist'[e] = dist[e] /\ got'[e] = got[e]
          /\ \/ got'[d] = "result"
             \/ got'[d] = "end" /\ ended' # {}
             \/ got'[d] = "left" /\ subCtx[aCtx[d]] = "done"
        BY <1>a, <2>1 DEF AggTypes
    <2>4. WaitsForFirst'
        BY <1>a, <1>1, <2>1, <2>3, Zenon DEF WaitsForFirst
    <2>5. SelectHasCause'
        <3>1. ended # {} => ended' # {}
            BY <1>1
        <3>2. /\ got'[d] = "end" => ended' # {} 
              /\ got'[d] = "left" => subCtx[aCtx[d]] = "done"
              /\ got'[d] # "none"
            BY <2>3
        <3> QED
            BY <1>a, <1>1, <2>1, <2>3, <3>1, <3>2 DEF SelectHasCause
    <2>6. SubscribersServed'
        BY <1>a, <1>1, <2>3 DEF SubscribersServed, Distributing
    <2> QED
        BY <1>2, <1>3, <2>2, <2>4, <2>5, <2>6, Zenon DEF AggInv
<1> QED
    BY <1>4, <1>5, <1>6, Zenon

\* distribute keeps the subscribers that are still there, or closes all.
LEMMA DistDeliverKeepsInv ==
  ASSUME AggInv, NEW d \in Sub, DistDeliver(d)
  PROVE  AggInv'
<1>a. /\ AggTypes /\ InTurn /\ WaitsForFirst /\ SelectHasCause /\ ClosedCame /\ SinkIsKnown
      /\ SubscribersServed /\ ClosedByEarlier /\ PassiveYields
    BY Zenon DEF AggInv
<1> DEFINE keep == {s \in subs : got[d] = "result" /\ subCtx[s] = "live"}
<1>1. /\ dist[d] = "lock" /\ subs' = keep /\ subClosed' = subClosed \cup (subs \ keep)
      /\ dist' = [dist EXCEPT ![d] = IF got[d] = "result" THEN "top" ELSE "over"]
      /\ got' = [got EXCEPT ![d] = "none"] /\ aCtx' = [aCtx EXCEPT ![d] = NoSub]
      /\ UNCHANGED <<subCtx, ended, passiveOn, sink>>
    BY Zenon DEF DistDeliver
<1>2. subs' \subseteq subs /\ subClosed' \subseteq subClosed \cup subs
    BY <1>1
<1>3. AggTypes'
    BY <1>a, <1>1, <1>2, AggAssumption DEF AggTypes, NoSub
<1>4. /\ dist'[d] \in {"top", "over"}
      /\ \A e \in Sub : e # d => dist'[e] = dist[e] /\ got'[e] = got[e] /\ aCtx'[e] = aCtx[e]
    BY <1>a, <1>1 DEF AggTypes
<1>5. \A e \in Sub : dist'[e] \in {"select", "lock"} => e # d
    BY <1>4
<1>6. InTurn' /\ SinkIsKnown' /\ PassiveYields'
    <2>1. subs = {} => subs' = {}
        BY <1>2
    <2> QED
        BY <1>a, <1>1, <2>1, Zenon DEF InTurn, SinkIsKnown, PassiveYields
<1>7. WaitsForFirst'
    <2>1. ASSUME NEW e \in Sub, dist'[e] \in {"select", "lock"}
          PROVE  /\ aCtx'[e] \in Sub /\ subCtx'[aCtx'[e]] # "new"
                 /\ \A s \in subs' : aCtx'[e] <= s
        <3>1. e # d /\ dist'[e] = dist[e] /\ aCtx'[e] = aCtx[e]
            BY <1>4, <1>5, <2>1, Zenon
        <3> QED
            BY <1>a, <1>1, <1>2, <2>1, <3>1, Zenon DEF WaitsForFirst
    <2> QED
        BY <2>1, Zenon DEF WaitsForFirst
<1>8. SelectHasCause'
    <2>1. \A e \in Sub : dist'[e] = "lock" => e # d
        BY <1>4
    <2>2. ASSUME NEW e \in Sub, dist'[e] = "lock"
          PROVE  dist[e] = "lock" /\ aCtx'[e] = aCtx[e] /\ got'[e] = got[e]
        BY <1>4, <2>1, <2>2, Zenon
    <2>3. subCtx' = subCtx /\ ended' = ended
        BY <1>1
    <2> QED
        BY <1>a, <2>2, <2>3 DEF SelectHasCause
<1>9. ClosedCame'
    BY <1>a, <1>1, <1>2 DEF ClosedCame, SubscribersServed
<1>10. SubscribersServed'
    <2>1. subs' = {t \in Sub : subCtx'[t] # "new"} \ subClosed'
        BY <1>a, <1>1 DEF SubscribersServed
    <2>2. subs' # {} => got[d] = "result"
        BY <1>1
    <2>3. subs' # {} => Distributing' # {}
        BY <1>a, <1>1, <2>2 DEF Distributing, AggTypes
    <2> QED
        BY <2>1, <2>3, Zenon DEF SubscribersServed
<1>11. ClosedByEarlier'
    <2>1. ASSUME NEW u \in subClosed', subCtx'[u] = "live"
          PROVE  ended' # {} \/ (\E t \in 1 .. u - 1 : subCtx'[t] = "done")
        <3>1. CASE u \in subClosed
            BY <1>a, <1>1, <2>1, <3>1, Zenon DEF ClosedByEarlier
        <3>2. CASE u \in subs /\ u \notin keep
            <4>1. got[d] # "result" /\ got[d] # "none" /\ got[d] \in {"none", "result", "end", "left"}
                BY <1>a, <1>1, <2>1, <3>2 DEF AggTypes, SelectHasCause
            <4>2. CASE got[d] = "end"
                BY <1>a, <1>1, <4>2, Zenon DEF SelectHasCause
            <4>3. CASE got[d] = "left"
                <5>1. aCtx[d] \in Sub /\ aCtx[d] <= u /\ subCtx[aCtx[d]] = "done"
                    BY <1>a, <1>1, <3>2, <4>3 DEF WaitsForFirst, SelectHasCause
                <5>2. aCtx[d] # u
                    BY <1>1, <2>1, <5>1
                <5>3. u \in Sub
                    BY <1>a, <3>2, Zenon DEF AggTypes
                <5>4. aCtx[d] \in 1 .. u - 1
                    BY <5>1, <5>2, <5>3, AggAssumption DEF Sub
                <5> QED
                    BY <1>1, <5>1, <5>4, Zenon
            <4> QED
                BY <4>1, <4>2, <4>3
        <3> QED
            BY <1>1, <2>1, <3>1, <3>2
    <2> QED
        BY <2>1, Zenon DEF ClosedByEarlier
<1> QED
    BY <1>3, <1>6, <1>7, <1>8, <1>9, <1>10, <1>11, Zenon DEF AggInv

\* The automatic watch, and the end of the passive client's.
LEMMA AutoKeeps ==
  ASSUME AggInv, AutoWatch \/ PassiveEnds \/ AutoEnded \/ AutoRetry
  PROVE  AggInv'
<1>1. ASSUME /\ UNCHANGED <<subs, subCtx, subClosed, dist, aCtx, got, ended>>
             /\ SinkIsKnown' /\ PassiveYields'
      PROVE  AggInv'
    <2>1. AggTypes' /\ InTurn' /\ WaitsForFirst' /\ SelectHasCause' /\ ClosedCame'
        BY <1>1, Zenon DEF AggInv, AggTypes, InTurn, WaitsForFirst, SelectHasCause, ClosedCame
    <2>2. SubscribersServed' /\ ClosedByEarlier'
        BY <1>1, Zenon DEF AggInv, SubscribersServed, Distributing, ClosedByEarlier
    <2> QED
        BY <1>1, <2>1, <2>2, Zenon DEF AggInv
<1>2. CASE \E s \in Sub : Subscribe(s)
    BY <1>2, SubscribeKeeps, Zenon
<1>3. ASSUME AutoWatch, ~\E s \in Sub : Subscribe(s) PROVE AggInv'
    <2>1. /\ UNCHANGED <<subs, subCtx, subClosed, dist, aCtx, got, ended>>
          /\ \/ UNCHANGED <<passiveOn, sink>>
             \/ subs = {} /\ passiveOn' = TRUE /\ sink' = "on"
        BY <1>3, Zenon DEF AutoWatch
    <2>2. SinkIsKnown' /\ PassiveYields'
        BY <2>1 DEF AggInv, SinkIsKnown, PassiveYields
    <2> QED
        BY <1>1, <2>1, <2>2, Zenon
<1>4. CASE PassiveEnds \/ AutoEnded \/ AutoRetry
    <2>1. /\ UNCHANGED <<subs, subCtx, subClosed, dist, aCtx, got, ended, passiveOn>>
          /\ sink' \in {sink, "closed", "none"}
        BY <1>4, Zenon DEF PassiveEnds, AutoEnded, AutoRetry
    <2>2. SinkIsKnown' /\ PassiveYields'
        BY <2>1 DEF AggInv, SinkIsKnown, PassiveYields
    <2> QED
        BY <1>1, <2>1, <2>2, Zenon
<1> QED
    BY <1>2, <1>3, <1>4, Zenon

\* Every step keeps the invariant.
LEMMA AggKept == AggInv /\ [AggNext]_aggVars => AggInv'
<1>1. ASSUME AggInv, UNCHANGED aggVars PROVE AggInv'
    <2>1. /\ UNCHANGED <<subs, subCtx, subClosed, dist, aCtx, got, ended>>
          /\ UNCHANGED <<passiveOn, sink>>
        BY <1>1, Zenon DEF aggVars
    <2>2. AggTypes' /\ InTurn' /\ WaitsForFirst' /\ SelectHasCause' /\ ClosedCame'
        BY <1>1, <2>1, Zenon DEF AggInv, AggTypes, InTurn, WaitsForFirst, SelectHasCause, ClosedCame
    <2>3. SubscribersServed' /\ ClosedByEarlier' /\ SinkIsKnown' /\ PassiveYields'
        BY <1>1, <2>1, Zenon DEF AggInv, SubscribersServed, Distributing, ClosedByEarlier, SinkIsKnown, PassiveYields
    <2> QED
        BY <2>2, <2>3, Zenon DEF AggInv
<1>2. ASSUME AggInv, AggNext PROVE AggInv'
    <2>1. ASSUME NEW s \in Sub, AggWatch(s) \/ AggLeave(s) \/ DistTop(s) \/ DistSelect(s) \/ DistDeliver(s)
          PROVE AggInv'
        BY <1>2, <2>1, SubscribeKeeps, AggLeaveKeeps, DistWaitsKeeps, DistDeliverKeepsInv, Zenon DEF AggWatch
    <2> QED
        BY <1>2, <2>1, AutoKeeps, Zenon DEF AggNext
<1> QED
    BY <1>1, <1>2, Zenon

\* For any number of subscribers, however they come and go, one that waits is in
\* the list, with an open channel, and some distribution looks at the list again;
\* only the end of a watch or an earlier subscriber ends the channel of another;
\* and the passive client gives way (Watch, distribute, passiveWatch).
THEOREM WatchersAreServed == AggSpec => []WatchersServed
<1>1. AggInv => WatchersServed
    BY Zenon DEF AggInv, WatchersServed
<1> QED
    BY <1>1, AggInitInv, AggKept, PTL DEF AggSpec

-----------------------------------------------------------------------------
(* The callback store (module CallbackStore).                              *)

-----------------------------------------------------------------------------
(* The state of a job and of a stream.                                     *)

\* The callbacks by name, and the jobs of the queue.
Callback == Stream \cup {"chainstore"}
Jobs == Callback \X Nat

\* The types of what the argument is about.
CBTypes ==
    /\ stored \in Nat
    /\ put \in [Putter -> {"idle", "stored", "sending"}] /\ putRound \in [Putter -> Nat]
    /\ todo \in [Putter -> SUBSET Callback]
    /\ callbacks \in SUBSET Stream /\ jobs \in Seq(Jobs)
    /\ work \in [Worker -> {"idle", "run", "remove", "done", "stopped"}]
    /\ job \in [Worker -> Jobs \cup {<<>>}]
    /\ stream \in [Stream -> {"none", "cursor", "register", "live", "ending", "over"}]
    /\ from \in [Stream -> Nat] /\ snap \in [Stream -> Nat] /\ regAt \in [Stream -> Nat]
    /\ sent \in [Stream -> SUBSET Nat] /\ again \in [Stream -> SUBSET Nat]
    /\ broken \in [Stream -> BOOLEAN]

\* A putter still has to queue a job for a callback; a job is queued; a worker runs it.
Owes(p, cb) == put[p] = "stored" \/ (put[p] = "sending" /\ cb \in todo[p])
Queued(x) == \E i \in 1 .. Len(jobs) : jobs[i] = x
Running(x) == \E w \in Worker : work[w] = "run" /\ job[w] = x

\* The three places a job can be.
LEMMA Places ==
  ASSUME NEW cb, NEW r
  PROVE  /\ OnItsWay(cb, r) <=> \/ \E p \in Putter : putRound[p] = r /\ Owes(p, cb)
                                \/ Queued(<<cb, r>>)
                                \/ Running(<<cb, r>>)
         /\ OnItsWay(cb, r)' <=> \/ \E p \in Putter : putRound'[p] = r /\ Owes(p, cb)'
                                 \/ Queued(<<cb, r>>)'
                                 \/ Running(<<cb, r>>)'
BY Zenon DEF OnItsWay, Owes, Queued, Running

\* The head of the queue goes, the others stay in it.
LEMMA HeadGoes ==
  ASSUME NEW S, NEW q \in Seq(S), q # <<>>
  PROVE  /\ Head(q) \in S /\ Tail(q) \in Seq(S) /\ Len(q) \in Nat \ {0}
         /\ Head(q) = q[1] /\ Len(Tail(q)) = Len(q) - 1
         /\ \A i \in 1 .. Len(Tail(q)) : i + 1 \in 1 .. Len(q) /\ Tail(q)[i] = q[i + 1]
         /\ \A i \in 1 .. Len(q) : i # 1 => i - 1 \in 1 .. Len(Tail(q)) /\ Tail(q)[i - 1] = q[i]
<1>1. Len(q) \in Nat /\ Len(q) # 0
  OBVIOUS
<1>2. Head(q) = q[1] /\ Len(Tail(q)) = Len(q) - 1
  BY <1>1
<1>3. Head(q) \in S /\ Tail(q) \in Seq(S)
  BY <1>1, <1>2
<1>4. \A i \in 1 .. Len(q) - 1 : Tail(q)[i] = q[i + 1]
  BY <1>1
<1>5. \A i \in 1 .. Len(q) : i # 1 => i - 1 \in 1 .. Len(q) - 1 /\ (i - 1) + 1 = i
  BY <1>1
<1>6. \A i \in 1 .. Len(q) - 1 : i + 1 \in 1 .. Len(q)
  BY <1>1
<1> QED
  BY <1>1, <1>2, <1>3, <1>4, <1>5, <1>6, Zenon

\* A job that is appended is the last of the queue.
LEMMA LastComes ==
  ASSUME NEW S, NEW q \in Seq(S), NEW x \in S
  PROVE  /\ Append(q, x) \in Seq(S) /\ Len(q) \in Nat /\ Len(Append(q, x)) = Len(q) + 1
         /\ Append(q, x)[Len(q) + 1] = x
         /\ \A i \in 1 .. Len(q) : Append(q, x)[i] = q[i]
         /\ \A i \in 1 .. Len(Append(q, x)) : i \in 1 .. Len(q) \/ i = Len(q) + 1
OBVIOUS

\* A stream that has a callback has been opened.
Opened(cb) == cb \in Stream => stream[cb] # "none"

\* All rounds under way are stored, and all callbacks under way are of opened streams.
JobsKnown ==
    /\ \A p \in Putter : put[p] # "idle" => putRound[p] \in 1 .. stored
    /\ \A p \in Putter : put[p] = "sending" => \A cb \in todo[p] : Opened(cb)
    /\ \A x \in Jobs : Queued(x) \/ Running(x) => x[2] \in 1 .. stored /\ Opened(x[1])

\* So are the rounds sent, and nothing is sent before a stream is opened.
StreamsKnown ==
    /\ \A s \in callbacks : stream[s] # "none"
    /\ \A s \in Stream : sent[s] \subseteq 1 .. stored /\ snap[s] <= stored
    /\ \A s \in Stream : stream[s] = "none" => sent[s] = {} /\ again[s] = {} /\ ~broken[s]
    /\ \A s \in Stream : stream[s] = "cursor" => from[s] \in 1 .. snap[s]

\* A worker that is about to leave its callback has found the peer gone.
GivenUp ==
    /\ \A w \in Worker : work[w] \in {"run", "remove", "done"} => job[w] \in Jobs
    /\ \A w \in Worker : work[w] \in {"remove", "done"} => job[w][1] \in Stream /\ broken[job[w][1]]

\* The cursor has sent its part before the stream registers.
CursorFirst ==
    \A s \in Stream : stream[s] = "register" /\ from[s] \in 1 .. snap[s]
                      => from[s] .. snap[s] \subseteq sent[s]

\* The round of a job, unless the cursor saw it, has not been sent.
NotSent(cb, r) == cb \in Stream /\ r \in sent[cb] => r <= snap[cb]

\* There is one job for a callback and a round, in one place.
PuttersApart ==
    \A p, q \in Putter : p # q /\ put[p] # "idle" /\ put[q] # "idle" => putRound[p] # putRound[q]
QueueApart == \A i, j \in 1 .. Len(jobs) : i # j => jobs[i] # jobs[j]
WorkersApart ==
    \A v, w \in Worker : v # w /\ work[v] = "run" /\ work[w] = "run" => job[v] # job[w]
OwedOnce ==
    \A p \in Putter : \A cb \in Callback :
        Owes(p, cb) => /\ ~Queued(<<cb, putRound[p]>>) /\ ~Running(<<cb, putRound[p]>>)
                       /\ NotSent(cb, putRound[p])
TakenOnce ==
    /\ \A x \in Jobs : Queued(x) => ~Running(x)
    /\ \A x \in Jobs : Queued(x) \/ Running(x) => NotSent(x[1], x[2])
OneJob == PuttersApart /\ QueueApart /\ WorkersApart /\ OwedOnce /\ TakenOnce

\* A stream that LiveStreamComplete is about, the rounds it owes its peer, and those
\* it has dealt with.
Live(s) == stream[s] = "live" /\ ~broken[s] /\ Alone(s)
Due(s) == (IF from[s] = 0 THEN snap[s] + 1 ELSE from[s]) .. stored
Covered(s, r) == r \in sent[s] \cup (snap[s] + 1 .. regAt[s]) \/ r < from[s] \/ OnItsWay(s, r)
Whole(s) ==
    Live(s) => s \in callbacks /\ (KindOf(s) # "proxy" => \A r \in Due(s) : Covered(s, r))

\* LiveStreamComplete, stream by stream.
LEMMA AllWhole ==
  /\ LiveStreamComplete <=> \A s \in Stream : Whole(s)
  /\ LiveStreamComplete' <=> \A s \in Stream : Whole(s)'
BY Zenon DEF LiveStreamComplete, Whole, Live, Due, Covered

\* The inductive invariant.
CBInv ==
    /\ CBTypes /\ JobsKnown /\ StreamsKnown /\ GivenUp /\ CursorFirst /\ OneJob
    /\ StoredIsAnnounced /\ LiveStreamComplete /\ TwiceAtHandover

\* The initial state has the types.
LEMMA CBInitTypes == CBInit => CBTypes
<1> SUFFICES ASSUME CBInit PROVE CBTypes
  OBVIOUS
<1>1. stored \in Nat /\ jobs \in Seq(Jobs) /\ callbacks \in SUBSET Stream
  BY DEF CBInit
<1>2. put \in [Putter -> {"idle", "stored", "sending"}] /\ putRound \in [Putter -> Nat]
  BY DEF CBInit
<1>3. todo \in [Putter -> SUBSET Callback]
  BY Zenon DEF CBInit
<1>4. /\ work \in [Worker -> {"idle", "run", "remove", "done", "stopped"}]
      /\ job \in [Worker -> Jobs \cup {<<>>}]
  BY Zenon DEF CBInit
<1>5. stream \in [Stream -> {"none", "cursor", "register", "live", "ending", "over"}]
  BY DEF CBInit
<1>6. from \in [Stream -> Nat] /\ snap \in [Stream -> Nat] /\ regAt \in [Stream -> Nat]
  BY DEF CBInit
<1>7. sent \in [Stream -> SUBSET Nat] /\ again \in [Stream -> SUBSET Nat]
  BY Zenon DEF CBInit
<1>8. broken \in [Stream -> BOOLEAN]
  BY Zenon DEF CBInit
<1> QED
  BY <1>1, <1>2, <1>3, <1>4, <1>5, <1>6, <1>7, <1>8, Zenon DEF CBTypes

\* Put has stored the next round: the jobs for it are owed.
LEMMA PutStoreKeeps ==
  ASSUME CBInv, NEW p \in Putter, PutStore(p)
  PROVE  CBInv'
<1>0. /\ CBTypes /\ JobsKnown /\ StreamsKnown /\ GivenUp /\ CursorFirst /\ OneJob
      /\ StoredIsAnnounced /\ LiveStreamComplete /\ TwiceAtHandover
  BY Zenon DEF CBInv
<1>1. /\ todo' = todo /\ callbacks' = callbacks /\ jobs' = jobs /\ work' = work /\ job' = job
      /\ told' = told /\ stream' = stream /\ from' = from /\ snap' = snap /\ regAt' = regAt
      /\ sent' = sent /\ again' = again /\ broken' = broken
  BY Zenon DEF PutStore, putVars, workVars, streamVars, sendVars
<1>2. /\ put[p] = "idle" /\ stored' = stored + 1 /\ put' = [put EXCEPT ![p] = "stored"]
      /\ putRound' = [putRound EXCEPT ![p] = stored + 1]
  BY Zenon DEF PutStore
<1>3. /\ stored \in Nat /\ put \in [Putter -> {"idle", "stored", "sending"}]
      /\ putRound \in [Putter -> Nat]
  BY <1>0, Zenon DEF CBTypes
<1>4. stored' \in Nat
  BY <1>2, <1>3
<1>5. /\ put' \in [Putter -> {"idle", "stored", "sending"}] /\ put'[p] = "stored"
      /\ \A q \in Putter : q # p => put'[q] = put[q]
  BY <1>2, <1>3, Zenon
<1>6. /\ putRound' \in [Putter -> Nat] /\ putRound'[p] = stored'
      /\ \A q \in Putter : q # p => putRound'[q] = putRound[q]
  BY <1>2, <1>3, <1>4, Zenon
<1>7. \A r \in 1 .. stored : r \in 1 .. stored' /\ r # stored'
  BY <1>2, <1>3
<1>8. \A r \in 1 .. stored' : r \in 1 .. stored \/ r = stored'
  BY <1>2, <1>3
<1>9. stored' \in 1 .. stored' /\ stored' \notin 1 .. stored
  BY <1>2, <1>3
<1>10. "idle" # "stored" /\ "idle" # "sending" /\ "stored" # "sending"
  OBVIOUS
<1>11. \A cb : ~Owes(p, cb) /\ Owes(p, cb)'
  BY <1>2, <1>5, <1>10, Zenon DEF Owes
<1>12. \A q \in Putter : \A cb : q # p => (Owes(q, cb)' <=> Owes(q, cb))
  BY <1>1, <1>5, Zenon DEF Owes
<1>13. \A x : (Queued(x)' <=> Queued(x)) /\ (Running(x)' <=> Running(x))
  BY <1>1, Zenon DEF Queued, Running
<1>14. CBTypes'
  BY <1>0, <1>1, <1>4, <1>5, <1>6, Zenon DEF CBTypes, Jobs, Callback
<1>15. \A cb, r : OnItsWay(cb, r) => OnItsWay(cb, r)'
  <2> SUFFICES ASSUME NEW cb, NEW r, OnItsWay(cb, r) PROVE OnItsWay(cb, r)'
    OBVIOUS
  <2> QED
    BY <1>6, <1>11, <1>12, <1>13, Places, Zenon
<1>16. \A cb, r : r = stored' => OnItsWay(cb, r)'
  <2> SUFFICES ASSUME NEW cb, NEW r, r = stored' PROVE OnItsWay(cb, r)'
    OBVIOUS
  <2> QED
    BY <1>6, <1>11, Places, Zenon
<1>17. JobsKnown' /\ StreamsKnown'
  <2>1. \A q \in Putter : put'[q] # "idle" => putRound'[q] \in 1 .. stored'
    BY <1>0, <1>5, <1>6, <1>7, <1>9, Zenon DEF JobsKnown
  <2>2. \A q \in Putter : put'[q] = "sending" => \A cb \in todo[q] : Opened(cb)
    BY <1>0, <1>5, <1>10, Zenon DEF JobsKnown
  <2>3. \A s \in Stream : sent[s] \subseteq 1 .. stored' /\ snap[s] <= stored'
    <3> SUFFICES ASSUME NEW s \in Stream PROVE sent[s] \subseteq 1 .. stored' /\ snap[s] <= stored'
      OBVIOUS
    <3>1. sent[s] \subseteq 1 .. stored /\ snap[s] <= stored /\ snap[s] \in Nat
      BY <1>0, Zenon DEF StreamsKnown, CBTypes
    <3>2. snap[s] <= stored'
      BY <1>2, <1>3, <3>1
    <3> QED
      BY <1>7, <3>1, <3>2, Zenon
  <2>4. \A cb : Opened(cb)' <=> Opened(cb)
    BY <1>1, Zenon DEF Opened
  <2> QED
    BY <1>0, <1>1, <1>7, <1>13, <2>1, <2>2, <2>3, <2>4, Zenon DEF JobsKnown, StreamsKnown, Jobs, Callback
<1>18. GivenUp'
  BY <1>0, <1>1, Zenon DEF GivenUp, Jobs, Callback
<1>19. CursorFirst'
  BY <1>0, <1>1, Zenon DEF CursorFirst
<1>20. OneJob'
  <2>1. \A cb, r : NotSent(cb, r)' <=> NotSent(cb, r)
    BY <1>1, Zenon DEF NotSent
  <2>2. \A q \in Putter : q # p /\ put[q] # "idle" => putRound[q] # stored'
    BY <1>0, <1>7, Zenon DEF JobsKnown
  <2>3. \A q, v \in Putter : q # v /\ put'[q] # "idle" /\ put'[v] # "idle" => putRound'[q] # putRound'[v]
    <3> SUFFICES ASSUME NEW q \in Putter, NEW v \in Putter, q # v, put'[q] # "idle", put'[v] # "idle"
                 PROVE  putRound'[q] # putRound'[v]
      OBVIOUS
    <3>1. CASE q = p
      BY <1>5, <1>6, <2>2, <3>1, Zenon
    <3>2. CASE v = p
      BY <1>5, <1>6, <2>2, <3>2, Zenon
    <3>3. CASE q # p /\ v # p
      BY <1>0, <1>5, <1>6, <3>3, Zenon DEF OneJob, PuttersApart
    <3> QED
      BY <3>1, <3>2, <3>3, Zenon
  <2>4. ASSUME NEW cb \in Callback, NEW r, r = stored'
        PROVE  ~Queued(<<cb, r>>) /\ ~Running(<<cb, r>>) /\ NotSent(cb, r)
    <3>1. <<cb, r>> \in Jobs /\ <<cb, r>>[2] = r
      BY <1>4, <2>4 DEF Jobs
    <3>2. ~(r \in 1 .. stored)
      BY <1>9, <2>4, Zenon
    <3>3. ~Queued(<<cb, r>>) /\ ~Running(<<cb, r>>)
      BY <1>0, <3>1, <3>2, Zenon DEF JobsKnown
    <3>4. NotSent(cb, r)
      BY <1>0, <3>2, Zenon DEF StreamsKnown, NotSent
    <3> QED
      BY <3>3, <3>4, Zenon
  <2>5. ASSUME NEW q \in Putter, NEW cb \in Callback, Owes(q, cb)', NEW r, r = putRound'[q]
        PROVE  ~Queued(<<cb, r>>) /\ ~Running(<<cb, r>>) /\ NotSent(cb, r)
    <3>1. CASE q = p
      BY <2>4, <2>5, <3>1, <1>6, Zenon
    <3>2. CASE q # p
      BY <2>5, <3>2, <1>0, <1>6, <1>12, Zenon DEF OneJob, OwedOnce
    <3> QED
      BY <3>1, <3>2, Zenon
  <2>6. \A q \in Putter : \A cb \in Callback :
          Owes(q, cb)' => /\ ~Queued(<<cb, putRound[q]>>)' /\ ~Running(<<cb, putRound[q]>>)'
                          /\ NotSent(cb, putRound[q])'
    <3> SUFFICES ASSUME NEW q \in Putter, NEW cb \in Callback, Owes(q, cb)'
                 PROVE  /\ ~Queued(<<cb, putRound[q]>>)' /\ ~Running(<<cb, putRound[q]>>)'
                        /\ NotSent(cb, putRound[q])'
      OBVIOUS
    <3>1. ~Queued(<<cb, putRound'[q]>>) /\ ~Running(<<cb, putRound'[q]>>) /\ NotSent(cb, putRound'[q])
      BY <2>5, Zenon
    <3> QED
      BY <1>1, <3>1, Zenon DEF Queued, Running, NotSent
  <2>7. TakenOnce'
    BY <1>0, <1>13, <2>1, Zenon DEF OneJob, TakenOnce, Jobs, Callback
  <2>8. QueueApart' /\ WorkersApart'
    BY <1>0, <1>1, Zenon DEF OneJob, QueueApart, WorkersApart
  <2> QED
    BY <2>3, <2>6, <2>7, <2>8, Zenon DEF OneJob, PuttersApart, OwedOnce, Callback
<1>21. StoredIsAnnounced'
  BY <1>0, <1>1, <1>8, <1>15, <1>16, Zenon DEF StoredIsAnnounced
<1>22. LiveStreamComplete'
  <2> SUFFICES ASSUME NEW s \in Stream PROVE Whole(s)'
    BY AllWhole, Zenon
  <2>1. Whole(s)
    BY <1>0, AllWhole, Zenon
  <2>2. Live(s)' <=> Live(s)
    BY <1>1, Zenon DEF Live, Alone
  <2>3. \A r : Covered(s, r) => Covered(s, r)'
    BY <1>1, <1>15, Zenon DEF Covered
  <2>4. \A r \in Due(s)' : r \in Due(s) \/ r = stored'
    <3>1. from[s] \in Nat /\ snap[s] \in Nat
      BY <1>0, Zenon DEF CBTypes
    <3> QED
      BY <1>1, <1>2, <1>3, <3>1 DEF Due
  <2>5. \A r : r = stored' => Covered(s, r)'
    BY <1>16, Zenon DEF Covered
  <2> QED
    BY <1>1, <2>1, <2>2, <2>3, <2>4, <2>5, Zenon DEF Whole
<1>23. TwiceAtHandover'
  BY <1>0, <1>1, Zenon DEF TwiceAtHandover
<1> QED
  BY <1>14, <1>17, <1>18, <1>19, <1>20, <1>21, <1>22, <1>23, Zenon DEF CBInv

\* A step that moves jobs from place to place, and delivers none.
LEMMA MovingStreams ==
  ASSUME CBInv,
         /\ stored' = stored /\ callbacks' = callbacks /\ stream' = stream
         /\ from' = from /\ snap' = snap /\ regAt' = regAt /\ sent' = sent /\ again' = again
         /\ broken' = broken,
         \A cb \in callbacks : ~broken[cb] => \A r : OnItsWay(cb, r) => OnItsWay(cb, r)'
  PROVE  StreamsKnown' /\ CursorFirst' /\ LiveStreamComplete' /\ TwiceAtHandover'
<1>0. /\ CBTypes /\ JobsKnown /\ StreamsKnown /\ GivenUp /\ CursorFirst /\ OneJob
      /\ StoredIsAnnounced /\ LiveStreamComplete /\ TwiceAtHandover
  BY Zenon DEF CBInv
<1>1. StreamsKnown'
  BY <1>0, Zenon DEF StreamsKnown
<1>2. CursorFirst' /\ TwiceAtHandover'
  BY <1>0, Zenon DEF CursorFirst, TwiceAtHandover
<1>3. LiveStreamComplete'
  <2> SUFFICES ASSUME NEW s \in Stream PROVE Whole(s)'
    BY AllWhole, Zenon
  <2>1. Whole(s)
    BY <1>0, AllWhole, Zenon
  <2>2. (Live(s)' <=> Live(s)) /\ Due(s)' = Due(s)
    BY Zenon DEF Live, Alone, Due
  <2>3. s \in callbacks /\ ~broken[s] => \A r : Covered(s, r) => Covered(s, r)'
    BY Zenon DEF Covered
  <2>4. Live(s) => ~broken[s]
    BY Zenon DEF Live
  <2> QED
    BY <2>1, <2>2, <2>3, <2>4, Zenon DEF Whole
<1> QED
  BY <1>1, <1>2, <1>3, Zenon

\* The same, and the aggregation loop still awaits what it awaited.
LEMMA MovingJobs ==
  ASSUME CBInv,
         /\ stored' = stored /\ told' = told /\ callbacks' = callbacks /\ stream' = stream
         /\ from' = from /\ snap' = snap /\ regAt' = regAt /\ sent' = sent /\ again' = again
         /\ broken' = broken,
         \A cb \in callbacks : ~broken[cb] => \A r : OnItsWay(cb, r) => OnItsWay(cb, r)',
         \A r : OnItsWay("chainstore", r) => OnItsWay("chainstore", r)'
  PROVE  StreamsKnown' /\ CursorFirst' /\ StoredIsAnnounced' /\ LiveStreamComplete' /\ TwiceAtHandover'
<1>1. StreamsKnown' /\ CursorFirst' /\ LiveStreamComplete' /\ TwiceAtHandover'
  BY MovingStreams, Zenon
<1>2. StoredIsAnnounced'
  BY Zenon DEF CBInv, StoredIsAnnounced
<1> QED
  BY <1>1, <1>2, Zenon

\* Put has the mutex: it owes a job to the callbacks registered now.
LEMMA PutLockKeeps ==
  ASSUME CBInv, NEW p \in Putter, PutLock(p)
  PROVE  CBInv'
<1>0. /\ CBTypes /\ JobsKnown /\ StreamsKnown /\ GivenUp /\ CursorFirst /\ OneJob
      /\ StoredIsAnnounced /\ LiveStreamComplete /\ TwiceAtHandover
  BY Zenon DEF CBInv
<1>1. /\ stored' = stored /\ putRound' = putRound /\ callbacks' = callbacks /\ jobs' = jobs
      /\ work' = work /\ job' = job /\ told' = told /\ stream' = stream /\ from' = from
      /\ snap' = snap /\ regAt' = regAt /\ sent' = sent /\ again' = again /\ broken' = broken
  BY Zenon DEF PutLock, putVars, workVars, streamVars, sendVars
<1>2. /\ put[p] = "stored" /\ put' = [put EXCEPT ![p] = "sending"]
      /\ todo' = [todo EXCEPT ![p] = callbacks \cup {"chainstore"}]
  BY Zenon DEF PutLock
<1>3. /\ put \in [Putter -> {"idle", "stored", "sending"}] /\ callbacks \in SUBSET Stream
      /\ todo \in [Putter -> SUBSET Callback]
  BY <1>0, Zenon DEF CBTypes
<1>4. /\ put' \in [Putter -> {"idle", "stored", "sending"}] /\ put'[p] = "sending"
      /\ \A q \in Putter : q # p => put'[q] = put[q]
  BY <1>2, <1>3, Zenon
<1>5. callbacks \cup {"chainstore"} \in SUBSET Callback
  BY <1>3, Zenon DEF Callback
<1>6. /\ todo' \in [Putter -> SUBSET Callback] /\ todo'[p] = callbacks \cup {"chainstore"}
      /\ \A q \in Putter : q # p => todo'[q] = todo[q]
  BY <1>2, <1>3, <1>5, Zenon
<1>7. "idle" # "stored" /\ "idle" # "sending" /\ "stored" # "sending"
  OBVIOUS
<1>8. \A cb : Owes(p, cb) /\ (Owes(p, cb)' <=> cb \in callbacks \cup {"chainstore"})
  BY <1>2, <1>4, <1>6, <1>7, Zenon DEF Owes
<1>9. \A q \in Putter : \A cb : q # p => (Owes(q, cb)' <=> Owes(q, cb))
  BY <1>4, <1>6, Zenon DEF Owes
<1>10. \A x : (Queued(x)' <=> Queued(x)) /\ (Running(x)' <=> Running(x))
  BY <1>1, Zenon DEF Queued, Running
<1>11. CBTypes'
  BY <1>0, <1>1, <1>4, <1>6, Zenon DEF CBTypes, Jobs, Callback
<1>12. \A cb \in callbacks \cup {"chainstore"} : \A r : OnItsWay(cb, r) => OnItsWay(cb, r)'
  <2> SUFFICES ASSUME NEW cb \in callbacks \cup {"chainstore"}, NEW r, OnItsWay(cb, r)
               PROVE  OnItsWay(cb, r)'
    OBVIOUS
  <2> QED
    BY <1>1, <1>8, <1>9, <1>10, Places, Zenon
<1>13. StreamsKnown' /\ CursorFirst' /\ StoredIsAnnounced' /\ LiveStreamComplete' /\ TwiceAtHandover'
  BY <1>1, <1>12, MovingJobs, Zenon
<1>14. JobsKnown'
  <2>1. \A cb : Opened(cb)' <=> Opened(cb)
    BY <1>1, Zenon DEF Opened
  <2>2. \A cb \in callbacks \cup {"chainstore"} : Opened(cb)
    BY <1>0, CallbackAssumption, Zenon DEF StreamsKnown, Opened
  <2>3. \A q \in Putter : put'[q] # "idle" => putRound[q] \in 1 .. stored
    BY <1>0, <1>2, <1>4, <1>7, Zenon DEF JobsKnown
  <2>4. \A q \in Putter : put'[q] = "sending" => \A cb \in todo'[q] : Opened(cb)
    BY <1>0, <1>4, <1>6, <2>2, Zenon DEF JobsKnown
  <2> QED
    BY <1>0, <1>1, <1>10, <2>1, <2>3, <2>4, Zenon DEF JobsKnown, Jobs, Callback
<1>15. GivenUp'
  BY <1>0, <1>1, Zenon DEF GivenUp, Jobs, Callback
<1>16. OneJob'
  <2>1. \A cb, r : NotSent(cb, r)' <=> NotSent(cb, r)
    BY <1>1, Zenon DEF NotSent
  <2>2. \A q \in Putter : \A cb : Owes(q, cb)' => Owes(q, cb)
    BY <1>8, <1>9, Zenon
  <2>3. OwedOnce'
    BY <1>0, <1>1, <1>10, <2>1, <2>2, Zenon DEF OneJob, OwedOnce, Callback
  <2>4. \A q \in Putter : put'[q] # "idle" => put[q] # "idle"
    BY <1>2, <1>4, <1>7, Zenon
  <2>5. PuttersApart'
    BY <1>0, <1>1, <2>4, Zenon DEF OneJob, PuttersApart
  <2>6. TakenOnce'
    BY <1>0, <1>10, <2>1, Zenon DEF OneJob, TakenOnce, Jobs, Callback
  <2>7. QueueApart' /\ WorkersApart'
    BY <1>0, <1>1, Zenon DEF OneJob, QueueApart, WorkersApart
  <2> QED
    BY <2>3, <2>5, <2>6, <2>7, Zenon DEF OneJob
<1> QED
  BY <1>11, <1>13, <1>14, <1>15, <1>16, Zenon DEF CBInv

\* Put queues one job.
LEMMA PutJobKeeps ==
  ASSUME CBInv, NEW p \in Putter, NEW c \in Callback, PutJob(p, c)
  PROVE  CBInv'
<1>0. /\ CBTypes /\ JobsKnown /\ StreamsKnown /\ GivenUp /\ CursorFirst /\ OneJob
      /\ StoredIsAnnounced /\ LiveStreamComplete /\ TwiceAtHandover
  BY Zenon DEF CBInv
<1>1. /\ stored' = stored /\ put' = put /\ putRound' = putRound /\ callbacks' = callbacks
      /\ work' = work /\ job' = job /\ told' = told /\ stream' = stream /\ from' = from
      /\ snap' = snap /\ regAt' = regAt /\ sent' = sent /\ again' = again /\ broken' = broken
  BY Zenon DEF PutJob, putVars, workVars, streamVars, sendVars
<1> DEFINE x0 == <<c, putRound[p]>>
<1>2. /\ put[p] = "sending" /\ c \in todo[p] /\ jobs' = Append(jobs, x0)
      /\ todo' = [todo EXCEPT ![p] = todo[p] \ {c}]
  BY Zenon DEF PutJob
<1>3. /\ putRound \in [Putter -> Nat] /\ jobs \in Seq(Jobs) /\ todo \in [Putter -> SUBSET Callback]
  BY <1>0, Zenon DEF CBTypes
<1>4. x0 \in Jobs /\ x0[1] = c /\ x0[2] = putRound[p]
  <2>1. putRound[p] \in Nat
    BY <1>3, Zenon
  <2> QED
    BY <2>1 DEF Jobs
<1>5. /\ jobs' \in Seq(Jobs) /\ Len(jobs) \in Nat /\ Len(jobs') = Len(jobs) + 1
      /\ jobs'[Len(jobs) + 1] = x0
      /\ \A i \in 1 .. Len(jobs) : jobs'[i] = jobs[i]
      /\ \A i \in 1 .. Len(jobs') : i \in 1 .. Len(jobs) \/ i = Len(jobs) + 1
  <2> HIDE DEF x0
  <2>1. jobs \in Seq(Jobs) /\ x0 \in Jobs
    BY <1>3, <1>4, Zenon
  <2> DEFINE a == Append(jobs, x0)
  <2>2. /\ a \in Seq(Jobs) /\ Len(jobs) \in Nat /\ Len(a) = Len(jobs) + 1
        /\ a[Len(jobs) + 1] = x0
        /\ \A i \in 1 .. Len(jobs) : a[i] = jobs[i]
        /\ \A i \in 1 .. Len(a) : i \in 1 .. Len(jobs) \/ i = Len(jobs) + 1
    BY <2>1, LastComes, Zenon
  <2>3. jobs' = a
    BY <1>2, Zenon
  <2> HIDE DEF a
  <2> QED
    BY <2>2, <2>3, Zenon
<1>6. todo[p] \ {c} \in SUBSET Callback
  BY <1>3, Zenon
<1>7. /\ todo' \in [Putter -> SUBSET Callback] /\ todo'[p] = todo[p] \ {c}
      /\ \A q \in Putter : q # p => todo'[q] = todo[q]
  BY <1>2, <1>3, <1>6, Zenon
<1>8. "idle" # "stored" /\ "idle" # "sending" /\ "stored" # "sending"
  OBVIOUS
<1>9. Owes(p, c) /\ ~Owes(p, c)' /\ \A cb : cb # c => (Owes(p, cb)' <=> Owes(p, cb))
  BY <1>1, <1>2, <1>7, <1>8, Zenon DEF Owes
<1>10. \A q \in Putter : \A cb : q # p => (Owes(q, cb)' <=> Owes(q, cb))
  BY <1>1, <1>7, Zenon DEF Owes
<1>11. \A x : Queued(x)' <=> (Queued(x) \/ x = x0)
  <2> HIDE DEF x0
  <2>1. 1 .. Len(jobs') = 1 .. Len(jobs) \cup {Len(jobs) + 1}
    BY <1>5
  <2> QED
    BY <1>5, <2>1, Zenon DEF Queued
<1>12. \A x : Running(x)' <=> Running(x)
  BY <1>1, Zenon DEF Running
<1>13. CBTypes'
  BY <1>0, <1>1, <1>5, <1>7, Zenon DEF CBTypes, Jobs, Callback
<1>14. \A cb, r : OnItsWay(cb, r) => OnItsWay(cb, r)'
  <2> SUFFICES ASSUME NEW cb, NEW r, OnItsWay(cb, r) PROVE OnItsWay(cb, r)'
    OBVIOUS
  <2>1. CASE Queued(<<cb, r>>) \/ Running(<<cb, r>>)
    BY <1>11, <1>12, <2>1, Places, Zenon
  <2>2. ASSUME NEW q \in Putter, putRound[q] = r, Owes(q, cb) PROVE OnItsWay(cb, r)'
    <3>1. CASE q = p /\ cb = c
      BY <1>11, <2>2, <3>1, Places, Zenon
    <3>2. CASE ~(q = p /\ cb = c)
      BY <1>1, <1>9, <1>10, <2>2, <3>2, Places, Zenon
    <3> QED
      BY <3>1, <3>2, Zenon
  <2> QED
    BY <2>1, <2>2, Places, Zenon
<1>15. StreamsKnown' /\ CursorFirst' /\ StoredIsAnnounced' /\ LiveStreamComplete' /\ TwiceAtHandover'
  BY <1>1, <1>14, MovingJobs, Zenon
<1>16. JobsKnown'
  <2>1. \A cb : Opened(cb)' <=> Opened(cb)
    BY <1>1, Zenon DEF Opened
  <2>2. Opened(c) /\ putRound[p] \in 1 .. stored
    BY <1>0, <1>2, <1>8, Zenon DEF JobsKnown
  <2>3. \A q \in Putter : put[q] = "sending" => \A cb \in todo'[q] : Opened(cb)
    BY <1>0, <1>7, Zenon DEF JobsKnown
  <2>4. \A x \in Jobs : Queued(x)' \/ Running(x)' => x[2] \in 1 .. stored /\ Opened(x[1])
    <3> HIDE DEF x0
    <3> QED
      BY <1>0, <1>4, <1>11, <1>12, <2>2, Zenon DEF JobsKnown
  <2> QED
    BY <1>0, <1>1, <2>1, <2>3, <2>4, Zenon DEF JobsKnown, Jobs, Callback
<1>17. GivenUp'
  BY <1>0, <1>1, Zenon DEF GivenUp, Jobs, Callback
<1>18. OneJob'
  <2>1. \A cb, r : NotSent(cb, r)' <=> NotSent(cb, r)
    BY <1>1, Zenon DEF NotSent
  <2>2. ~Queued(x0) /\ ~Running(x0) /\ NotSent(c, putRound[p])
    BY <1>0, <1>9, Zenon DEF OneJob, OwedOnce
  <2>3. OwedOnce'
    <3> SUFFICES ASSUME NEW q \in Putter, NEW cb \in Callback, Owes(q, cb)'
                 PROVE  /\ ~Queued(<<cb, putRound[q]>>)' /\ ~Running(<<cb, putRound[q]>>)'
                        /\ NotSent(cb, putRound[q])'
      BY Zenon DEF OwedOnce, Callback
    <3>1. Owes(q, cb) /\ ~(q = p /\ cb = c)
      BY <1>9, <1>10, Zenon
    <3>2. ~Queued(<<cb, putRound[q]>>) /\ ~Running(<<cb, putRound[q]>>) /\ NotSent(cb, putRound[q])
      BY <1>0, <3>1, Zenon DEF OneJob, OwedOnce
    <3>3. <<cb, putRound[q]>> # x0
      <4>1. CASE cb # c
        BY <4>1
      <4>2. CASE q # p
        <5>1. put[q] # "idle" /\ put[p] # "idle"
          BY <1>2, <1>8, <3>1, Zenon DEF Owes
        <5>2. putRound[q] # putRound[p]
          BY <1>0, <4>2, <5>1, Zenon DEF OneJob, PuttersApart
        <5> QED
          BY <5>2
      <4> QED
        BY <3>1, <4>1, <4>2, Zenon
    <3> DEFINE y == <<cb, putRound[q]>>
    <3>4. ~Queued(y)' /\ ~Running(y)' /\ y = <<cb, putRound'[q]>>
      BY <1>1, <1>11, <1>12, <3>2, <3>3, Zenon
    <3> QED
      BY <1>1, <2>1, <3>2, <3>4, Zenon DEF NotSent
  <2>4. QueueApart'
    <3> HIDE DEF x0
    <3> SUFFICES ASSUME NEW i \in 1 .. Len(jobs'), NEW j \in 1 .. Len(jobs'), i # j
                 PROVE  jobs'[i] # jobs'[j]
      BY Zenon DEF QueueApart
    <3>1. \A k \in 1 .. Len(jobs) : jobs[k] # x0
      BY <2>2, Zenon DEF Queued
    <3>2. CASE i \in 1 .. Len(jobs) /\ j \in 1 .. Len(jobs)
      BY <1>0, <1>5, <3>2, Zenon DEF OneJob, QueueApart
    <3>3. CASE i = Len(jobs) + 1
      BY <1>5, <3>1, <3>3, Zenon
    <3>4. CASE j = Len(jobs) + 1
      BY <1>5, <3>1, <3>4, Zenon
    <3> QED
      BY <1>5, <3>2, <3>3, <3>4, Zenon
  <2>5. TakenOnce'
    <3> HIDE DEF x0
    <3> QED
      BY <1>0, <1>4, <1>11, <1>12, <2>1, <2>2, Zenon DEF OneJob, TakenOnce, Jobs, Callback
  <2>6. PuttersApart' /\ WorkersApart'
    BY <1>0, <1>1, Zenon DEF OneJob, PuttersApart, WorkersApart
  <2> QED
    BY <2>3, <2>4, <2>5, <2>6, Zenon DEF OneJob
<1> QED
  BY <1>13, <1>15, <1>16, <1>17, <1>18, Zenon DEF CBInv

\* Put returns: it owes nothing.
LEMMA PutEndsKeeps ==
  ASSUME CBInv, NEW p \in Putter, PutEnds(p)
  PROVE  CBInv'
<1>0. /\ CBTypes /\ JobsKnown /\ StreamsKnown /\ GivenUp /\ CursorFirst /\ OneJob
      /\ StoredIsAnnounced /\ LiveStreamComplete /\ TwiceAtHandover
  BY Zenon DEF CBInv
<1>1. /\ stored' = stored /\ putRound' = putRound /\ todo' = todo /\ callbacks' = callbacks
      /\ jobs' = jobs /\ work' = work /\ job' = job /\ told' = told /\ stream' = stream
      /\ from' = from /\ snap' = snap /\ regAt' = regAt /\ sent' = sent /\ again' = again
      /\ broken' = broken
  BY Zenon DEF PutEnds, putVars, workVars, streamVars, sendVars
<1>2. put[p] = "sending" /\ todo[p] = {} /\ put' = [put EXCEPT ![p] = "idle"]
  BY Zenon DEF PutEnds
<1>3. put \in [Putter -> {"idle", "stored", "sending"}]
  BY <1>0, Zenon DEF CBTypes
<1>4. /\ put' \in [Putter -> {"idle", "stored", "sending"}] /\ put'[p] = "idle"
      /\ \A q \in Putter : q # p => put'[q] = put[q]
  BY <1>2, <1>3, Zenon
<1>5. "idle" # "stored" /\ "idle" # "sending" /\ "stored" # "sending"
  OBVIOUS
<1>6. \A q \in Putter : \A cb : Owes(q, cb)' <=> Owes(q, cb)
  BY <1>1, <1>2, <1>4, <1>5, Zenon DEF Owes
<1>7. \A x : (Queued(x)' <=> Queued(x)) /\ (Running(x)' <=> Running(x))
  BY <1>1, Zenon DEF Queued, Running
<1>8. CBTypes'
  BY <1>0, <1>1, <1>4, Zenon DEF CBTypes, Jobs, Callback
<1>9. \A cb, r : OnItsWay(cb, r) => OnItsWay(cb, r)'
  <2> SUFFICES ASSUME NEW cb, NEW r, OnItsWay(cb, r) PROVE OnItsWay(cb, r)'
    OBVIOUS
  <2> QED
    BY <1>1, <1>6, <1>7, Places, Zenon
<1>10. StreamsKnown' /\ CursorFirst' /\ StoredIsAnnounced' /\ LiveStreamComplete' /\ TwiceAtHandover'
  BY <1>1, <1>9, MovingJobs, Zenon
<1>11. \A q \in Putter : (put'[q] # "idle" => put[q] # "idle") /\ (put'[q] = "sending" => put[q] = "sending")
  BY <1>4, <1>5, Zenon
<1>12. JobsKnown'
  <2>1. \A cb : Opened(cb)' <=> Opened(cb)
    BY <1>1, Zenon DEF Opened
  <2> QED
    BY <1>0, <1>1, <1>7, <1>11, <2>1, Zenon DEF JobsKnown, Jobs, Callback
<1>13. GivenUp'
  BY <1>0, <1>1, Zenon DEF GivenUp, Jobs, Callback
<1>14. OneJob'
  <2>1. \A cb, r : NotSent(cb, r)' <=> NotSent(cb, r)
    BY <1>1, Zenon DEF NotSent
  <2>2. OwedOnce'
    BY <1>0, <1>1, <1>6, <1>7, <2>1, Zenon DEF OneJob, OwedOnce, Callback
  <2>3. PuttersApart'
    BY <1>0, <1>1, <1>11, Zenon DEF OneJob, PuttersApart
  <2>4. TakenOnce'
    BY <1>0, <1>7, <2>1, Zenon DEF OneJob, TakenOnce, Jobs, Callback
  <2>5. QueueApart' /\ WorkersApart'
    BY <1>0, <1>1, Zenon DEF OneJob, QueueApart, WorkersApart
  <2> QED
    BY <2>2, <2>3, <2>4, <2>5, Zenon DEF OneJob
<1> QED
  BY <1>8, <1>10, <1>12, <1>13, <1>14, Zenon DEF CBInv

\* OwedOnce, putter by putter and round by round.
LEMMA OwedByRound ==
  /\ OwedOnce <=> \A p \in Putter : \A cb \in Callback : \A r :
        Owes(p, cb) /\ putRound[p] = r
        => ~Queued(<<cb, r>>) /\ ~Running(<<cb, r>>) /\ NotSent(cb, r)
  /\ OwedOnce' <=> \A p \in Putter : \A cb \in Callback : \A r :
        Owes(p, cb)' /\ putRound'[p] = r
        => ~Queued(<<cb, r>>)' /\ ~Running(<<cb, r>>)' /\ NotSent(cb, r)'
<1>1. OwedOnce <=> \A p \in Putter : \A cb \in Callback : \A r :
        Owes(p, cb) /\ putRound[p] = r
        => ~Queued(<<cb, r>>) /\ ~Running(<<cb, r>>) /\ NotSent(cb, r)
  BY Zenon DEF OwedOnce
<1>2. OwedOnce' <=> \A p \in Putter : \A cb \in Callback : \A r :
        Owes(p, cb)' /\ putRound'[p] = r
        => ~Queued(<<cb, r>>)' /\ ~Running(<<cb, r>>)' /\ NotSent(cb, r)'
  BY Zenon DEF OwedOnce, Callback, Queued, Running, NotSent, Owes
<1> QED
  BY <1>1, <1>2, Zenon

\* TakenOnce, callback by callback and round by round.
LEMMA TakenByRound ==
  /\ TakenOnce <=> \A cb \in Callback, r \in Nat :
        /\ Queued(<<cb, r>>) => ~Running(<<cb, r>>)
        /\ Queued(<<cb, r>>) \/ Running(<<cb, r>>) => NotSent(cb, r)
  /\ TakenOnce' <=> \A cb \in Callback, r \in Nat :
        /\ Queued(<<cb, r>>)' => ~Running(<<cb, r>>)'
        /\ Queued(<<cb, r>>)' \/ Running(<<cb, r>>)' => NotSent(cb, r)'
<1>1. \A cb \in Callback, r \in Nat : <<cb, r>> \in Jobs /\ <<cb, r>>[1] = cb /\ <<cb, r>>[2] = r
  BY DEF Jobs
<1>2. \A x \in Jobs : x[1] \in Callback /\ x[2] \in Nat /\ x = <<x[1], x[2]>>
  BY DEF Jobs
<1>t. /\ TakenOnce <=> \A x \in Jobs :
           /\ Queued(x) => ~Running(x)
           /\ Queued(x) \/ Running(x) => NotSent(x[1], x[2])
      /\ TakenOnce' <=> \A x \in Jobs :
           /\ Queued(x)' => ~Running(x)'
           /\ Queued(x)' \/ Running(x)' => NotSent(x[1], x[2])'
  BY Zenon DEF TakenOnce, Jobs, Callback
<1>3. TakenOnce => \A cb \in Callback, r \in Nat :
        /\ Queued(<<cb, r>>) => ~Running(<<cb, r>>)
        /\ Queued(<<cb, r>>) \/ Running(<<cb, r>>) => NotSent(cb, r)
  <2> SUFFICES ASSUME TakenOnce, NEW cb \in Callback, NEW r \in Nat
               PROVE  /\ Queued(<<cb, r>>) => ~Running(<<cb, r>>)
                      /\ Queued(<<cb, r>>) \/ Running(<<cb, r>>) => NotSent(cb, r)
    BY Zenon
  <2>1. PICK x : x = <<cb, r>>
    BY Zenon
  <2>2. x \in Jobs /\ x[1] = cb /\ x[2] = r
    BY <1>1, <2>1, Zenon
  <2>3. (Queued(x) => ~Running(x)) /\ (Queued(x) \/ Running(x) => NotSent(x[1], x[2]))
    BY <1>t, <2>2, Zenon
  <2> QED
    BY <2>1, <2>2, <2>3, Zenon
<1>4. (\A cb \in Callback, r \in Nat :
         /\ Queued(<<cb, r>>) => ~Running(<<cb, r>>)
         /\ Queued(<<cb, r>>) \/ Running(<<cb, r>>) => NotSent(cb, r)) => TakenOnce
  <2> SUFFICES ASSUME \A cb \in Callback, r \in Nat :
                         /\ Queued(<<cb, r>>) => ~Running(<<cb, r>>)
                         /\ Queued(<<cb, r>>) \/ Running(<<cb, r>>) => NotSent(cb, r),
                      NEW x \in Jobs
               PROVE  /\ Queued(x) => ~Running(x)
                      /\ Queued(x) \/ Running(x) => NotSent(x[1], x[2])
    BY <1>t, Zenon
  <2>1. PICK cb \in Callback, r \in Nat : cb = x[1] /\ r = x[2] /\ x = <<cb, r>>
    BY <1>2, Zenon
  <2> QED
    BY <2>1, Zenon
<1>5. TakenOnce' => \A cb \in Callback, r \in Nat :
        /\ Queued(<<cb, r>>)' => ~Running(<<cb, r>>)'
        /\ Queued(<<cb, r>>)' \/ Running(<<cb, r>>)' => NotSent(cb, r)'
  <2> SUFFICES ASSUME TakenOnce', NEW cb \in Callback, NEW r \in Nat
               PROVE  /\ Queued(<<cb, r>>)' => ~Running(<<cb, r>>)'
                      /\ Queued(<<cb, r>>)' \/ Running(<<cb, r>>)' => NotSent(cb, r)'
    BY Zenon
  <2>1. PICK x : x = <<cb, r>>
    BY Zenon
  <2>2. x \in Jobs /\ x[1] = cb /\ x[2] = r
    BY <1>1, <2>1, Zenon
  <2>3. (Queued(x)' => ~Running(x)') /\ (Queued(x)' \/ Running(x)' => NotSent(x[1], x[2])')
    BY <1>t, <2>2, Zenon
  <2> QED
    BY <2>1, <2>2, <2>3, Zenon
<1>6. (\A cb \in Callback, r \in Nat :
         /\ Queued(<<cb, r>>)' => ~Running(<<cb, r>>)'
         /\ Queued(<<cb, r>>)' \/ Running(<<cb, r>>)' => NotSent(cb, r)') => TakenOnce'
  <2> SUFFICES ASSUME \A cb \in Callback, r \in Nat :
                         /\ Queued(<<cb, r>>)' => ~Running(<<cb, r>>)'
                         /\ Queued(<<cb, r>>)' \/ Running(<<cb, r>>)' => NotSent(cb, r)',
                      NEW x \in Jobs
               PROVE  /\ Queued(x)' => ~Running(x)'
                      /\ Queued(x)' \/ Running(x)' => NotSent(x[1], x[2])'
    BY <1>t, Zenon
  <2>1. PICK cb \in Callback, r \in Nat : cb = x[1] /\ r = x[2] /\ x = <<cb, r>>
    BY <1>2, Zenon
  <2> QED
    BY <2>1, Zenon
<1> QED
  BY <1>3, <1>4, <1>5, <1>6, Zenon

\* A worker takes the head of the queue.
LEMMA WorkerTakeKeeps ==
  ASSUME CBInv, NEW w \in Worker, WorkerTake(w)
  PROVE  CBInv'
<1>0. /\ CBTypes /\ JobsKnown /\ StreamsKnown /\ GivenUp /\ CursorFirst /\ OneJob
      /\ StoredIsAnnounced /\ LiveStreamComplete /\ TwiceAtHandover
  BY Zenon DEF CBInv
<1>1. /\ stored' = stored /\ put' = put /\ putRound' = putRound /\ todo' = todo
      /\ callbacks' = callbacks /\ told' = told /\ stream' = stream /\ from' = from
      /\ snap' = snap /\ regAt' = regAt /\ sent' = sent /\ again' = again /\ broken' = broken
  BY Zenon DEF WorkerTake, putVars, workVars, streamVars, sendVars
<1>h. PICK h : h = Head(jobs)
  BY Zenon
<1>t. PICK t : t = Tail(jobs)
  BY Zenon
<1>2. /\ work[w] = "idle" /\ jobs # <<>> /\ work' = [work EXCEPT ![w] = "run"]
      /\ job' = [job EXCEPT ![w] = h] /\ jobs' = t
  BY <1>h, <1>t, Zenon DEF WorkerTake
<1>3. /\ jobs \in Seq(Jobs) /\ work \in [Worker -> {"idle", "run", "remove", "done", "stopped"}]
      /\ job \in [Worker -> Jobs \cup {<<>>}]
  BY <1>0, Zenon DEF CBTypes
<1>4. /\ h \in Jobs /\ t \in Seq(Jobs) /\ Len(jobs) \in Nat \ {0}
      /\ h = jobs[1] /\ Len(t) = Len(jobs) - 1
      /\ \A i \in 1 .. Len(t) : i + 1 \in 1 .. Len(jobs) /\ t[i] = jobs[i + 1]
      /\ \A i \in 1 .. Len(jobs) : i # 1 => i - 1 \in 1 .. Len(t) /\ t[i - 1] = jobs[i]
  <2>1. jobs \in Seq(Jobs) /\ jobs # <<>>
    BY <1>2, <1>3, Zenon
  <2> QED
    BY <1>h, <1>t, <2>1, HeadGoes, Zenon
<1>5. /\ work' \in [Worker -> {"idle", "run", "remove", "done", "stopped"}] /\ work'[w] = "run"
      /\ \A v \in Worker : v # w => work'[v] = work[v]
  BY <1>2, <1>3, Zenon
<1>6. /\ job' \in [Worker -> Jobs \cup {<<>>}] /\ job'[w] = h
      /\ \A v \in Worker : v # w => job'[v] = job[v]
  BY <1>2, <1>3, <1>4, Zenon
<1>7. "idle" # "run"
  OBVIOUS
<1>8. \A x : Running(x)' <=> Running(x) \/ x = h
  BY <1>2, <1>5, <1>6, <1>7, Zenon DEF Running
<1>9. 1 \in 1 .. Len(jobs) /\ \A i \in 1 .. Len(t) : i + 1 # 1
  BY <1>4
<1>10. (\A x : Queued(x)' => Queued(x)) /\ Queued(h) /\ ~Queued(h)'
  <2>1. \A x : Queued(x)' => Queued(x)
    BY <1>2, <1>4, Zenon DEF Queued
  <2>2. Queued(h)
    BY <1>4, <1>9, Zenon DEF Queued
  <2>3. \A i \in 1 .. Len(t) : t[i] # h
    <3> SUFFICES ASSUME NEW i \in 1 .. Len(t) PROVE t[i] # h
      OBVIOUS
    <3>1. i + 1 \in 1 .. Len(jobs) /\ t[i] = jobs[i + 1] /\ i + 1 # 1
      BY <1>4, <1>9, Zenon
    <3> QED
      BY <1>0, <1>4, <1>9, <3>1, Zenon DEF OneJob, QueueApart
  <2> QED
    BY <1>2, <2>1, <2>2, <2>3, Zenon DEF Queued
<1>11. \A x : Queued(x) => Queued(x)' \/ x = h
  BY <1>2, <1>4, Zenon DEF Queued
<1>12. \A p, cb : Owes(p, cb)' <=> Owes(p, cb)
  BY <1>1, Zenon DEF Owes
<1>13. CBTypes'
  BY <1>0, <1>1, <1>2, <1>4, <1>5, <1>6, Zenon DEF CBTypes, Jobs, Callback
<1>14. \A cb, r : OnItsWay(cb, r) => OnItsWay(cb, r)'
  <2> SUFFICES ASSUME NEW cb, NEW r, OnItsWay(cb, r) PROVE OnItsWay(cb, r)'
    OBVIOUS
  <2> QED
    BY <1>1, <1>8, <1>11, <1>12, Places, Zenon
<1>15. StreamsKnown' /\ CursorFirst' /\ StoredIsAnnounced' /\ LiveStreamComplete' /\ TwiceAtHandover'
  BY <1>1, <1>14, MovingJobs, Zenon
<1>16. JobsKnown'
  <2>1. \A cb : Opened(cb)' <=> Opened(cb)
    BY <1>1, Zenon DEF Opened
  <2>2. \A x \in Jobs : Queued(x)' \/ Running(x)' => x[2] \in 1 .. stored /\ Opened(x[1])
    BY <1>0, <1>8, <1>10, Zenon DEF JobsKnown
  <2> QED
    BY <1>0, <1>1, <2>1, <2>2, Zenon DEF JobsKnown, Jobs, Callback
<1>17. GivenUp'
  <2> SUFFICES ASSUME NEW v \in Worker
               PROVE  /\ work'[v] \in {"run", "remove", "done"} => job'[v] \in Jobs
                      /\ work'[v] \in {"remove", "done"} => job'[v][1] \in Stream /\ broken'[job'[v][1]]
    BY Zenon DEF GivenUp, Jobs, Callback
  <2>1. "run" \notin {"remove", "done"}
    OBVIOUS
  <2>2. CASE v = w
    BY <1>4, <1>5, <1>6, <2>1, <2>2, Zenon
  <2>3. CASE v # w
    <3>1. work'[v] = work[v] /\ job'[v] = job[v] /\ broken' = broken
      BY <1>1, <1>5, <1>6, <2>3, Zenon
    <3> QED
      BY <1>0, <3>1, Zenon DEF GivenUp
  <2> QED
    BY <2>2, <2>3, Zenon
<1>18. OneJob'
  <2>1. \A cb, r : NotSent(cb, r)' <=> NotSent(cb, r)
    BY <1>1, Zenon DEF NotSent
  <2>2. OwedOnce'
    <3> SUFFICES ASSUME NEW q \in Putter, NEW cb \in Callback, NEW r, Owes(q, cb)', putRound'[q] = r
                 PROVE  ~Queued(<<cb, r>>)' /\ ~Running(<<cb, r>>)' /\ NotSent(cb, r)'
      BY OwedByRound, Zenon
    <3>1. ~Queued(<<cb, r>>) /\ ~Running(<<cb, r>>) /\ NotSent(cb, r)
      BY <1>0, <1>1, <1>12, OwedByRound, Zenon DEF OneJob
    <3> QED
      BY <1>8, <1>10, <2>1, <3>1, Zenon
  <2>3. QueueApart'
    <3> SUFFICES ASSUME NEW i \in 1 .. Len(t), NEW j \in 1 .. Len(t), i # j PROVE t[i] # t[j]
      BY <1>2, Zenon DEF QueueApart
    <3>1. i + 1 # j + 1
      OBVIOUS
    <3>2. /\ i + 1 \in 1 .. Len(jobs) /\ t[i] = jobs[i + 1]
          /\ j + 1 \in 1 .. Len(jobs) /\ t[j] = jobs[j + 1]
      BY <1>4, Zenon
    <3> QED
      BY <1>0, <3>1, <3>2, Zenon DEF OneJob, QueueApart
  <2>4. WorkersApart'
    <3> SUFFICES ASSUME NEW u \in Worker, NEW v \in Worker, u # v, work'[u] = "run", work'[v] = "run"
                 PROVE  job'[u] # job'[v]
      BY Zenon DEF WorkersApart
    <3>1. ASSUME NEW z \in Worker, z # w, work'[z] = "run" PROVE work[z] = "run" /\ job'[z] # h
      <4>1. work[z] = "run" /\ job'[z] = job[z]
        BY <1>5, <1>6, <3>1, Zenon
      <4>2. ~Running(h)
        BY <1>0, <1>4, <1>10, Zenon DEF OneJob, TakenOnce
      <4> QED
        BY <4>1, <4>2, Zenon DEF Running
    <3>2. CASE u = w
      BY <1>6, <3>1, <3>2, Zenon
    <3>3. CASE v = w
      BY <1>6, <3>1, <3>3, Zenon
    <3>4. CASE u # w /\ v # w
      BY <1>0, <1>6, <3>1, <3>4, Zenon DEF OneJob, WorkersApart
    <3> QED
      BY <3>2, <3>3, <3>4, Zenon
  <2>5. TakenOnce'
    <3> SUFFICES ASSUME NEW cb \in Callback, NEW r \in Nat
                 PROVE  /\ Queued(<<cb, r>>)' => ~Running(<<cb, r>>)'
                        /\ Queued(<<cb, r>>)' \/ Running(<<cb, r>>)' => NotSent(cb, r)'
      BY TakenByRound, Zenon
    <3>1. /\ Queued(<<cb, r>>) => ~Running(<<cb, r>>)
          /\ Queued(<<cb, r>>) \/ Running(<<cb, r>>) => NotSent(cb, r)
      BY <1>0, TakenByRound, Zenon DEF OneJob
    <3> QED
      BY <1>8, <1>10, <2>1, <3>1, Zenon
  <2>6. PuttersApart'
    BY <1>0, <1>1, Zenon DEF OneJob, PuttersApart
  <2> QED
    BY <2>2, <2>3, <2>4, <2>5, <2>6, Zenon DEF OneJob
<1> QED
  BY <1>13, <1>15, <1>16, <1>17, <1>18, Zenon DEF CBInv

\* A step that adds no job: what was known of the jobs still is.
LEMMA NoNewJobs ==
  ASSUME CBInv,
         stored' = stored /\ put' = put /\ putRound' = putRound /\ todo' = todo /\ jobs' = jobs,
         \A v \in Worker : work'[v] = "run" => work[v] = "run" /\ job'[v] = job[v],
         \A cb : Opened(cb) => Opened(cb)',
         \A cb \in Callback : \A r : OnItsWay(cb, r)' /\ NotSent(cb, r) => NotSent(cb, r)'
  PROVE  JobsKnown' /\ OneJob'
<1>0. /\ CBTypes /\ JobsKnown /\ StreamsKnown /\ GivenUp /\ CursorFirst /\ OneJob
      /\ StoredIsAnnounced /\ LiveStreamComplete /\ TwiceAtHandover
  BY Zenon DEF CBInv
<1>1. \A x : (Queued(x)' <=> Queued(x)) /\ (Running(x)' => Running(x))
  BY Zenon DEF Queued, Running
<1>2. \A p, cb : Owes(p, cb)' <=> Owes(p, cb)
  BY Zenon DEF Owes
<1>3. JobsKnown'
  BY <1>0, <1>1, Zenon DEF JobsKnown, Jobs, Callback
<1>4. OwedOnce'
  <2> SUFFICES ASSUME NEW q \in Putter, NEW cb \in Callback, NEW r, Owes(q, cb)', putRound'[q] = r
               PROVE  ~Queued(<<cb, r>>)' /\ ~Running(<<cb, r>>)' /\ NotSent(cb, r)'
    BY OwedByRound, Zenon
  <2>1. ~Queued(<<cb, r>>) /\ ~Running(<<cb, r>>) /\ NotSent(cb, r)
    BY <1>0, <1>2, OwedByRound, Zenon DEF OneJob
  <2>2. OnItsWay(cb, r)'
    BY Places, Zenon
  <2> QED
    BY <1>1, <2>1, <2>2, Zenon
<1>5. TakenOnce'
  <2> SUFFICES ASSUME NEW cb \in Callback, NEW r \in Nat
               PROVE  /\ Queued(<<cb, r>>)' => ~Running(<<cb, r>>)'
                      /\ Queued(<<cb, r>>)' \/ Running(<<cb, r>>)' => NotSent(cb, r)'
    BY TakenByRound, Zenon
  <2>1. /\ Queued(<<cb, r>>) => ~Running(<<cb, r>>)
        /\ Queued(<<cb, r>>) \/ Running(<<cb, r>>) => NotSent(cb, r)
    BY <1>0, TakenByRound, Zenon DEF OneJob
  <2>2. Queued(<<cb, r>>)' \/ Running(<<cb, r>>)' => OnItsWay(cb, r)'
    BY Places, Zenon
  <2> QED
    BY <1>1, <2>1, <2>2, Zenon
<1>6. WorkersApart'
  BY <1>0, Zenon DEF OneJob, WorkersApart
<1>7. PuttersApart' /\ QueueApart'
  BY <1>0, Zenon DEF OneJob, PuttersApart, QueueApart
<1> QED
  BY <1>3, <1>4, <1>5, <1>6, <1>7, Zenon DEF OneJob

\* Worker w runs the callback cb for round r.
Has(w, cb, r) == work[w] = "run" /\ job[w] = <<cb, r>>

\* A worker that runs a callback for a round runs that job.
LEMMA HasJob ==
  ASSUME NEW w, NEW cb, NEW r, Has(w, cb, r)
  PROVE  job[w][1] = cb /\ job[w][2] = r
BY DEF Has

\* A worker w leaves its job or only changes its state: no other worker is concerned,
\* and no job but that of w is lost.
LEMMA WorkerLeaves ==
  ASSUME NEW w \in Worker, NEW a, NEW b, a # "run",
         work \in [Worker -> {"idle", "run", "remove", "done", "stopped"}], job \in [Worker -> Jobs \cup {<<>>}],
         a \in {"idle", "run", "remove", "done", "stopped"}, b \in Jobs \cup {<<>>},
         work' = [work EXCEPT ![w] = a], job' = [job EXCEPT ![w] = b],
         put' = put /\ putRound' = putRound /\ todo' = todo /\ jobs' = jobs
  PROVE  /\ work' \in [Worker -> {"idle", "run", "remove", "done", "stopped"}]
         /\ job' \in [Worker -> Jobs \cup {<<>>}]
         /\ work'[w] = a /\ job'[w] = b
         /\ \A v \in Worker : v # w => work'[v] = work[v] /\ job'[v] = job[v]
         /\ \A v \in Worker : work'[v] = "run" => v # w /\ work[v] = "run" /\ job'[v] = job[v]
         /\ \A cb, r : OnItsWay(cb, r) /\ ~OnItsWay(cb, r)' => Has(w, cb, r)
<1>1. /\ work' \in [Worker -> {"idle", "run", "remove", "done", "stopped"}]
      /\ work'[w] = a /\ \A v \in Worker : v # w => work'[v] = work[v]
  BY Zenon
<1>2. /\ job' \in [Worker -> Jobs \cup {<<>>}]
      /\ job'[w] = b /\ \A v \in Worker : v # w => job'[v] = job[v]
  BY Zenon
<1>3. ASSUME NEW cb, NEW r, OnItsWay(cb, r), ~Has(w, cb, r)
      PROVE  OnItsWay(cb, r)'
  <2>1. /\ \A x : Queued(x)' <=> Queued(x)
        /\ \A q : Owes(q, cb)' <=> Owes(q, cb)
    BY Zenon DEF Queued, Owes
  <2>2. Running(<<cb, r>>) => Running(<<cb, r>>)'
    BY <1>1, <1>2, <1>3, Zenon DEF Running, Has
  <2> QED
    BY <1>3, <2>1, <2>2, Places, Zenon
<1> QED
  BY <1>1, <1>2, <1>3, Zenon

\* What a worker that has run its callback knows.
LEMMA WorkerKnows ==
  ASSUME CBInv, NEW w \in Worker, work[w] \in {"run", "remove", "done"}
  PROVE  /\ job[w] \in Jobs /\ job[w][1] \in Callback /\ job[w][2] \in Nat
         /\ job[w] = <<job[w][1], job[w][2]>>
<1>1. job[w] \in Jobs
  BY Zenon DEF CBInv, GivenUp
<1> QED
  BY <1>1 DEF Jobs

\* GivenUp after a step of one worker.
LEMMA OthersGivenUp ==
  ASSUME GivenUp, NEW w \in Worker, broken' = broken,
         \A v \in Worker : v # w => work'[v] = work[v] /\ job'[v] = job[v],
         work'[w] \in {"run", "remove", "done"} => job'[w] \in Jobs,
         work'[w] \in {"remove", "done"} => job'[w][1] \in Stream /\ broken[job'[w][1]]
  PROVE  GivenUp'
<1> SUFFICES ASSUME NEW v \in Worker
             PROVE  /\ work'[v] \in {"run", "remove", "done"} => job'[v] \in Jobs
                    /\ work'[v] \in {"remove", "done"} => job'[v][1] \in Stream /\ broken'[job'[v][1]]
  BY Zenon DEF GivenUp, Jobs, Callback
<1>1. CASE v = w
  BY <1>1, Zenon
<1>2. CASE v # w
  <2>1. work'[v] = work[v] /\ job'[v] = job[v]
    BY <1>2, Zenon
  <2> QED
    BY <2>1, Zenon DEF GivenUp
<1> QED
  BY <1>1, <1>2, Zenon

\* A worker stops.
LEMMA WorkerStopKeeps ==
  ASSUME CBInv, NEW w \in Worker, WorkerStop(w)
  PROVE  CBInv'
<1>0. /\ CBTypes /\ JobsKnown /\ StreamsKnown /\ GivenUp /\ CursorFirst /\ OneJob
      /\ StoredIsAnnounced /\ LiveStreamComplete /\ TwiceAtHandover
  BY Zenon DEF CBInv
<1>1. /\ stored' = stored /\ put' = put /\ putRound' = putRound /\ todo' = todo
      /\ callbacks' = callbacks /\ jobs' = jobs /\ job' = job /\ told' = told
      /\ stream' = stream /\ from' = from /\ snap' = snap /\ regAt' = regAt /\ sent' = sent
      /\ again' = again /\ broken' = broken
  BY Zenon DEF WorkerStop, putVars, workVars, streamVars, sendVars
<1>2. work[w] = "idle" /\ work' = [work EXCEPT ![w] = "stopped"]
  BY Zenon DEF WorkerStop
<1>3. /\ work \in [Worker -> {"idle", "run", "remove", "done", "stopped"}]
      /\ job \in [Worker -> Jobs \cup {<<>>}]
  BY <1>0, Zenon DEF CBTypes
<1>4. job' = [job EXCEPT ![w] = job[w]] /\ job[w] \in Jobs \cup {<<>>}
  BY <1>1, <1>3, Zenon
<1>5. /\ "stopped" # "run" /\ "idle" # "run"
      /\ "stopped" \notin {"run", "remove", "done"} /\ "stopped" \notin {"remove", "done"}
      /\ "stopped" \in {"idle", "run", "remove", "done", "stopped"}
  OBVIOUS
<1>6. /\ work' \in [Worker -> {"idle", "run", "remove", "done", "stopped"}]
      /\ job' \in [Worker -> Jobs \cup {<<>>}] /\ work'[w] = "stopped"
      /\ \A v \in Worker : v # w => work'[v] = work[v] /\ job'[v] = job[v]
      /\ \A v \in Worker : work'[v] = "run" => work[v] = "run" /\ job'[v] = job[v]
      /\ \A cb, r : OnItsWay(cb, r) => OnItsWay(cb, r)'
  <2>1. \A cb, r : ~Has(w, cb, r)
    BY <1>2, <1>5, Zenon DEF Has
  <2> QED
    <3>1. put' = put /\ putRound' = putRound /\ todo' = todo /\ jobs' = jobs
      BY <1>1, Zenon
    <3> QED
      BY <1>2, <1>3, <1>4, <1>5, <2>1, <3>1, WorkerLeaves, Zenon
<1>7. CBTypes'
  BY <1>0, <1>1, <1>6, Zenon DEF CBTypes, Jobs, Callback
<1>8. StreamsKnown' /\ CursorFirst' /\ StoredIsAnnounced' /\ LiveStreamComplete' /\ TwiceAtHandover'
  BY <1>1, <1>6, MovingJobs, Zenon
<1>9. GivenUp'
  BY <1>0, <1>1, <1>5, <1>6, OthersGivenUp, Zenon
<1>10. JobsKnown' /\ OneJob'
  <2>1. \A cb : Opened(cb) => Opened(cb)'
    BY <1>1, Zenon DEF Opened
  <2>2. \A cb \in Callback : \A r : OnItsWay(cb, r)' /\ NotSent(cb, r) => NotSent(cb, r)'
    BY <1>1, Zenon DEF NotSent
  <2> QED
    BY <1>1, <1>6, <2>1, <2>2, NoNewJobs, Zenon
<1> QED
  BY <1>7, <1>8, <1>9, <1>10, Zenon DEF CBInv

\* A worker that has told its stream of the lost peer is free.
LEMMA WorkerDoneKeeps ==
  ASSUME CBInv, NEW w \in Worker, WorkerDone(w)
  PROVE  CBInv'
<1>0. /\ CBTypes /\ JobsKnown /\ StreamsKnown /\ GivenUp /\ CursorFirst /\ OneJob
      /\ StoredIsAnnounced /\ LiveStreamComplete /\ TwiceAtHandover
  BY Zenon DEF CBInv
<1>1. /\ stored' = stored /\ put' = put /\ putRound' = putRound /\ todo' = todo
      /\ callbacks' = callbacks /\ jobs' = jobs /\ told' = told /\ stream' = stream
      /\ from' = from /\ snap' = snap /\ regAt' = regAt /\ sent' = sent /\ again' = again
      /\ broken' = broken
  BY Zenon DEF WorkerDone, putVars, workVars, streamVars, sendVars
<1>2. work[w] = "done" /\ work' = [work EXCEPT ![w] = "idle"]
  BY Zenon DEF WorkerDone
<1>3. /\ work \in [Worker -> {"idle", "run", "remove", "done", "stopped"}]
      /\ job \in [Worker -> Jobs \cup {<<>>}]
  BY <1>0, Zenon DEF CBTypes
<1>4. job' = [job EXCEPT ![w] = <<>>] /\ <<>> \in Jobs \cup {<<>>}
  BY Zenon DEF WorkerDone
<1>5. /\ "idle" # "run" /\ "done" # "run"
      /\ "idle" \notin {"run", "remove", "done"} /\ "idle" \notin {"remove", "done"}
      /\ "idle" \in {"idle", "run", "remove", "done", "stopped"}
  OBVIOUS
<1>6. /\ work' \in [Worker -> {"idle", "run", "remove", "done", "stopped"}]
      /\ job' \in [Worker -> Jobs \cup {<<>>}] /\ work'[w] = "idle"
      /\ \A v \in Worker : v # w => work'[v] = work[v] /\ job'[v] = job[v]
      /\ \A v \in Worker : work'[v] = "run" => work[v] = "run" /\ job'[v] = job[v]
      /\ \A cb, r : OnItsWay(cb, r) => OnItsWay(cb, r)'
  <2>1. \A cb, r : ~Has(w, cb, r)
    BY <1>2, <1>5, Zenon DEF Has
  <2> QED
    <3>1. put' = put /\ putRound' = putRound /\ todo' = todo /\ jobs' = jobs
      BY <1>1, Zenon
    <3> QED
      BY <1>2, <1>3, <1>4, <1>5, <2>1, <3>1, WorkerLeaves, Zenon
<1>7. CBTypes'
  BY <1>0, <1>1, <1>6, Zenon DEF CBTypes, Jobs, Callback
<1>8. StreamsKnown' /\ CursorFirst' /\ StoredIsAnnounced' /\ LiveStreamComplete' /\ TwiceAtHandover'
  BY <1>1, <1>6, MovingJobs, Zenon
<1>9. GivenUp'
  BY <1>0, <1>1, <1>5, <1>6, OthersGivenUp, Zenon
<1>10. JobsKnown' /\ OneJob'
  <2>1. \A cb : Opened(cb) => Opened(cb)'
    BY <1>1, Zenon DEF Opened
  <2>2. \A cb \in Callback : \A r : OnItsWay(cb, r)' /\ NotSent(cb, r) => NotSent(cb, r)'
    BY <1>1, Zenon DEF NotSent
  <2> QED
    BY <1>1, <1>6, <2>1, <2>2, NoNewJobs, Zenon
<1> QED
  BY <1>7, <1>8, <1>9, <1>10, Zenon DEF CBInv

\* The callback of the chain store: the aggregation loop is told.
LEMMA TellAggregatorKeeps ==
  ASSUME CBInv, NEW w \in Worker, TellAggregator(w)
  PROVE  CBInv'
<1>0. /\ CBTypes /\ JobsKnown /\ StreamsKnown /\ GivenUp /\ CursorFirst /\ OneJob
      /\ StoredIsAnnounced /\ LiveStreamComplete /\ TwiceAtHandover
  BY Zenon DEF CBInv
<1>1. /\ stored' = stored /\ put' = put /\ putRound' = putRound /\ todo' = todo
      /\ callbacks' = callbacks /\ jobs' = jobs /\ stream' = stream /\ from' = from
      /\ snap' = snap /\ regAt' = regAt /\ sent' = sent /\ again' = again /\ broken' = broken
  BY Zenon DEF TellAggregator, putVars, workVars, streamVars, sendVars
<1>2. /\ work[w] = "run" /\ job[w][1] = "chainstore" /\ told' = told \cup {job[w][2]}
      /\ work' = [work EXCEPT ![w] = "idle"] /\ job' = [job EXCEPT ![w] = <<>>]
  BY Zenon DEF TellAggregator
<1>3. /\ work \in [Worker -> {"idle", "run", "remove", "done", "stopped"}]
      /\ job \in [Worker -> Jobs \cup {<<>>}]
  BY <1>0, Zenon DEF CBTypes
<1>4. job[w] = <<"chainstore", job[w][2]>>
  BY <1>2, WorkerKnows, Zenon
<1>5. /\ "idle" # "run" /\ "run" \in {"run", "remove", "done"}
      /\ "idle" \notin {"run", "remove", "done"} /\ "idle" \notin {"remove", "done"}
      /\ "idle" \in {"idle", "run", "remove", "done", "stopped"} /\ <<>> \in Jobs \cup {<<>>}
  OBVIOUS
<1>6. /\ work' \in [Worker -> {"idle", "run", "remove", "done", "stopped"}]
      /\ job' \in [Worker -> Jobs \cup {<<>>}] /\ work'[w] = "idle"
      /\ \A v \in Worker : v # w => work'[v] = work[v] /\ job'[v] = job[v]
      /\ \A v \in Worker : work'[v] = "run" => work[v] = "run" /\ job'[v] = job[v]
      /\ \A cb, r : OnItsWay(cb, r) /\ ~OnItsWay(cb, r)' => Has(w, cb, r)
  BY <1>1, <1>2, <1>3, <1>5, WorkerLeaves, Zenon
<1>7. \A cb, r : Has(w, cb, r) => cb = "chainstore" /\ r \in told'
  <2> SUFFICES ASSUME NEW cb, NEW r, Has(w, cb, r) PROVE cb = "chainstore" /\ r \in told'
    OBVIOUS
  <2>1. job[w][1] = cb /\ job[w][2] = r
    BY HasJob, Zenon
  <2> QED
    BY <1>2, <2>1, Zenon
<1>8. CBTypes'
  BY <1>0, <1>1, <1>6, Zenon DEF CBTypes, Jobs, Callback
<1>9. StreamsKnown' /\ CursorFirst' /\ LiveStreamComplete' /\ TwiceAtHandover'
  <2>1. \A cb \in callbacks : cb # "chainstore"
    BY <1>0, CallbackAssumption, Zenon DEF CBTypes
  <2>2. \A cb \in callbacks : ~broken[cb] => \A r : OnItsWay(cb, r) => OnItsWay(cb, r)'
    BY <1>6, <1>7, <2>1, Zenon
  <2> QED
    BY <1>1, <2>2, MovingStreams, Zenon
<1>10. StoredIsAnnounced'
  <2> SUFFICES ASSUME NEW r \in 1 .. stored PROVE r \in told' \/ OnItsWay("chainstore", r)'
    BY <1>1, Zenon DEF StoredIsAnnounced
  <2>1. r \in told => r \in told'
    BY <1>2, Zenon
  <2>2. r \in told \/ OnItsWay("chainstore", r)
    BY <1>0, Zenon DEF StoredIsAnnounced
  <2> QED
    BY <1>6, <1>7, <2>1, <2>2, Zenon
<1>11. GivenUp'
  BY <1>0, <1>1, <1>5, <1>6, OthersGivenUp, Zenon
<1>12. JobsKnown' /\ OneJob'
  <2>1. \A cb : Opened(cb) => Opened(cb)'
    BY <1>1, Zenon DEF Opened
  <2>2. \A cb \in Callback : \A r : OnItsWay(cb, r)' /\ NotSent(cb, r) => NotSent(cb, r)'
    BY <1>1, Zenon DEF NotSent
  <2> QED
    BY <1>1, <1>6, <2>1, <2>2, NoNewJobs, Zenon
<1> QED
  BY <1>8, <1>9, <1>10, <1>11, <1>12, Zenon DEF CBInv

\* A send of a stream fails: the peer is gone.
LEMMA SendFailsKeeps ==
  ASSUME CBInv, NEW w \in Worker, SendFails(w)
  PROVE  CBInv'
<1>0. /\ CBTypes /\ JobsKnown /\ StreamsKnown /\ GivenUp /\ CursorFirst /\ OneJob
      /\ StoredIsAnnounced /\ LiveStreamComplete /\ TwiceAtHandover
  BY Zenon DEF CBInv
<1>1. /\ stored' = stored /\ put' = put /\ putRound' = putRound /\ todo' = todo
      /\ callbacks' = callbacks /\ jobs' = jobs /\ job' = job /\ told' = told
      /\ stream' = stream /\ from' = from /\ snap' = snap /\ regAt' = regAt /\ sent' = sent
      /\ again' = again /\ broken' = broken
  BY Zenon DEF SendFails, putVars, workVars, streamVars, sendVars
<1>a. PICK a \in {"done", "remove"} : work' = [work EXCEPT ![w] = a]
  BY Zenon DEF SendFails
<1>2. work[w] = "run" /\ job[w][1] \in Stream /\ broken[job[w][1]]
  BY Zenon DEF SendFails
<1>3. /\ work \in [Worker -> {"idle", "run", "remove", "done", "stopped"}]
      /\ job \in [Worker -> Jobs \cup {<<>>}]
  BY <1>0, Zenon DEF CBTypes
<1>4. /\ job' = [job EXCEPT ![w] = job[w]] /\ job[w] \in Jobs \cup {<<>>}
      /\ job'[w] = job[w] /\ job[w] \in Jobs
  <2>1. "run" \in {"run", "remove", "done"}
    OBVIOUS
  <2> QED
    BY <1>1, <1>2, <1>3, <2>1, WorkerKnows, Zenon
<1>5. a # "run" /\ a \in {"idle", "run", "remove", "done", "stopped"}
  OBVIOUS
<1>6. /\ work' \in [Worker -> {"idle", "run", "remove", "done", "stopped"}]
      /\ job' \in [Worker -> Jobs \cup {<<>>}] /\ work'[w] = a
      /\ \A v \in Worker : v # w => work'[v] = work[v] /\ job'[v] = job[v]
      /\ \A v \in Worker : work'[v] = "run" => work[v] = "run" /\ job'[v] = job[v]
      /\ \A cb, r : OnItsWay(cb, r) /\ ~OnItsWay(cb, r)' => Has(w, cb, r)
  BY <1>1, <1>a, <1>3, <1>4, <1>5, WorkerLeaves, Zenon
<1>7. \A cb, r : Has(w, cb, r) => cb \in Stream /\ broken[cb]
  <2> SUFFICES ASSUME NEW cb, NEW r, Has(w, cb, r) PROVE cb \in Stream /\ broken[cb]
    OBVIOUS
  <2>1. job[w][1] = cb
    BY HasJob, Zenon
  <2> QED
    BY <1>2, <2>1, Zenon
<1>8. CBTypes'
  BY <1>0, <1>1, <1>6, Zenon DEF CBTypes, Jobs, Callback
<1>9. StreamsKnown' /\ CursorFirst' /\ StoredIsAnnounced' /\ LiveStreamComplete' /\ TwiceAtHandover'
  <2>1. \A cb \in callbacks : ~broken[cb] => \A r : OnItsWay(cb, r) => OnItsWay(cb, r)'
    BY <1>6, <1>7, Zenon
  <2>2. \A r : OnItsWay("chainstore", r) => OnItsWay("chainstore", r)'
    BY <1>6, <1>7, CallbackAssumption, Zenon
  <2> QED
    BY <1>1, <2>1, <2>2, MovingJobs, Zenon
<1>10. GivenUp'
  BY <1>0, <1>1, <1>2, <1>4, <1>6, OthersGivenUp, Zenon
<1>11. JobsKnown' /\ OneJob'
  <2>1. \A cb : Opened(cb) => Opened(cb)'
    BY <1>1, Zenon DEF Opened
  <2>2. \A cb \in Callback : \A r : OnItsWay(cb, r)' /\ NotSent(cb, r) => NotSent(cb, r)'
    BY <1>1, Zenon DEF NotSent
  <2> QED
    BY <1>1, <1>6, <2>1, <2>2, NoNewJobs, Zenon
<1> QED
  BY <1>8, <1>9, <1>10, <1>11, Zenon DEF CBInv

\* A step of one stream, or for it, leaves the others whole.
LEMMA OthersWhole ==
  ASSUME CBInv, NEW s \in Stream, NEW t \in Stream, t # s, stored' = stored,
         \A u \in Stream : stream'[u] = "none" => stream[u] = "none",
         stream'[t] = stream[t] /\ broken'[t] = broken[t],
         from'[t] = from[t] /\ snap'[t] = snap[t] /\ regAt'[t] = regAt[t] /\ sent'[t] = sent[t],
         t \in callbacks => t \in callbacks' \/ (AddrOf(t) = AddrOf(s) /\ stream'[s] # "none"),
         \A r : OnItsWay(t, r) => OnItsWay(t, r)'
  PROVE  Whole(t)'
<1>1. Whole(t)
  BY AllWhole, Zenon DEF CBInv
<1>2. Live(t)' => Live(t)
  BY Zenon DEF Live, Alone
<1>3. Due(t)' = Due(t)
  BY Zenon DEF Due
<1>4. \A r : Covered(t, r) => Covered(t, r)'
  BY Zenon DEF Covered
<1>5. Live(t)' /\ AddrOf(t) = AddrOf(s) => stream'[s] = "none"
  BY Zenon DEF Live, Alone
<1>6. Live(t)' => t \in callbacks'
  BY <1>1, <1>2, <1>5, Zenon DEF Whole
<1> QED
  BY <1>1, <1>2, <1>3, <1>4, <1>6, Zenon DEF Whole

\* The callback of a lost peer is removed.
LEMMA WorkerRemoveKeeps ==
  ASSUME CBInv, NEW w \in Worker, WorkerRemove(w)
  PROVE  CBInv'
<1>0. /\ CBTypes /\ JobsKnown /\ StreamsKnown /\ GivenUp /\ CursorFirst /\ OneJob
      /\ StoredIsAnnounced /\ LiveStreamComplete /\ TwiceAtHandover
  BY Zenon DEF CBInv
<1>1. /\ stored' = stored /\ put' = put /\ putRound' = putRound /\ todo' = todo /\ jobs' = jobs
      /\ job' = job /\ told' = told /\ stream' = stream /\ from' = from /\ snap' = snap
      /\ regAt' = regAt /\ sent' = sent /\ again' = again /\ broken' = broken
  BY Zenon DEF WorkerRemove, putVars, workVars, streamVars, sendVars
<1>2. /\ work[w] = "remove" /\ work' = [work EXCEPT ![w] = "done"]
      /\ callbacks' = Without(AddrOf(job[w][1]))
  BY Zenon DEF WorkerRemove
<1>3. /\ work \in [Worker -> {"idle", "run", "remove", "done", "stopped"}]
      /\ job \in [Worker -> Jobs \cup {<<>>}] /\ callbacks \in SUBSET Stream
  BY <1>0, Zenon DEF CBTypes
<1>s. PICK s \in Stream : s = job[w][1] /\ broken[s]
  <2>1. "remove" \in {"remove", "done"}
    OBVIOUS
  <2> QED
    BY <1>0, <1>2, <2>1, Zenon DEF GivenUp
<1>4. /\ job' = [job EXCEPT ![w] = job[w]] /\ job[w] \in Jobs \cup {<<>>}
      /\ job'[w] = job[w] /\ job[w] \in Jobs
  <2>1. "remove" \in {"run", "remove", "done"}
    OBVIOUS
  <2> QED
    BY <1>1, <1>2, <1>3, <2>1, WorkerKnows, Zenon
<1>5. "done" # "run" /\ "remove" # "run" /\ "done" \in {"idle", "run", "remove", "done", "stopped"}
  OBVIOUS
<1>6. /\ work' \in [Worker -> {"idle", "run", "remove", "done", "stopped"}]
      /\ job' \in [Worker -> Jobs \cup {<<>>}]
      /\ \A v \in Worker : v # w => work'[v] = work[v] /\ job'[v] = job[v]
      /\ \A v \in Worker : work'[v] = "run" => work[v] = "run" /\ job'[v] = job[v]
      /\ \A cb, r : OnItsWay(cb, r) => OnItsWay(cb, r)'
  <2>1. \A cb, r : ~Has(w, cb, r)
    BY <1>2, <1>5, Zenon DEF Has
  <2> QED
    <3>1. put' = put /\ putRound' = putRound /\ todo' = todo /\ jobs' = jobs
      BY <1>1, Zenon
    <3> QED
      BY <1>2, <1>3, <1>4, <1>5, <2>1, <3>1, WorkerLeaves, Zenon
<1>7. /\ callbacks' \in SUBSET Stream /\ callbacks' \subseteq callbacks
      /\ \A t \in callbacks : t \in callbacks' \/ AddrOf(t) = AddrOf(s)
  BY <1>2, <1>3, <1>s, Zenon DEF Without
<1>8. CBTypes'
  BY <1>0, <1>1, <1>6, <1>7, Zenon DEF CBTypes, Jobs, Callback
<1>9. StreamsKnown'
  BY <1>0, <1>1, <1>7, Zenon DEF StreamsKnown
<1>10. CursorFirst' /\ TwiceAtHandover'
  BY <1>0, <1>1, Zenon DEF CursorFirst, TwiceAtHandover
<1>11. StoredIsAnnounced'
  BY <1>0, <1>1, <1>6, Zenon DEF StoredIsAnnounced
<1>12. LiveStreamComplete'
  <2> SUFFICES ASSUME NEW t \in Stream PROVE Whole(t)'
    BY AllWhole, Zenon
  <2>1. CASE t = s
    BY <1>s, <1>1, <2>1, Zenon DEF Whole, Live
  <2>2. CASE t # s
    <3>1. stream'[s] # "none"
      BY <1>0, <1>1, <1>s, Zenon DEF StreamsKnown
    <3> QED
      BY <1>1, <1>6, <1>7, <2>2, <3>1, OthersWhole, Zenon
  <2> QED
    BY <2>1, <2>2, Zenon
<1>13. GivenUp'
  BY <1>0, <1>1, <1>s, <1>4, <1>6, OthersGivenUp, Zenon
<1>14. JobsKnown' /\ OneJob'
  <2>1. \A cb : Opened(cb) => Opened(cb)'
    BY <1>1, Zenon DEF Opened
  <2>2. \A cb \in Callback : \A r : OnItsWay(cb, r)' /\ NotSent(cb, r) => NotSent(cb, r)'
    BY <1>1, Zenon DEF NotSent
  <2> QED
    BY <1>1, <1>6, <2>1, <2>2, NoNewJobs, Zenon
<1> QED
  BY <1>8, <1>9, <1>10, <1>11, <1>12, <1>13, <1>14, Zenon DEF CBInv

\* A send of a stream works: the job is done and the round sent.
LEMMA SendWorksKeeps ==
  ASSUME CBInv, NEW w \in Worker, SendWorks(w)
  PROVE  CBInv'
<1>0. /\ CBTypes /\ JobsKnown /\ StreamsKnown /\ GivenUp /\ CursorFirst /\ OneJob
      /\ StoredIsAnnounced /\ LiveStreamComplete /\ TwiceAtHandover
  BY Zenon DEF CBInv
<1>1. /\ stored' = stored /\ put' = put /\ putRound' = putRound /\ todo' = todo
      /\ callbacks' = callbacks /\ jobs' = jobs /\ told' = told /\ stream' = stream
      /\ from' = from /\ snap' = snap /\ regAt' = regAt /\ broken' = broken
  BY Zenon DEF SendWorks, putVars, workVars, streamVars, sendVars
<1>2. /\ work[w] = "run" /\ job[w][1] \in Stream
      /\ work' = [work EXCEPT ![w] = "idle"] /\ job' = [job EXCEPT ![w] = <<>>]
  BY Zenon DEF SendWorks
<1>3. /\ work \in [Worker -> {"idle", "run", "remove", "done", "stopped"}]
      /\ job \in [Worker -> Jobs \cup {<<>>}]
      /\ sent \in [Stream -> SUBSET Nat] /\ again \in [Stream -> SUBSET Nat]
  BY <1>0, Zenon DEF CBTypes
<1>4. /\ "idle" # "run" /\ "run" \in {"run", "remove", "done"}
      /\ "idle" \notin {"run", "remove", "done"} /\ "idle" \notin {"remove", "done"}
      /\ "idle" \in {"idle", "run", "remove", "done", "stopped"} /\ <<>> \in Jobs \cup {<<>>}
  OBVIOUS
<1>5. /\ job[w] \in Jobs /\ job[w][2] \in Nat /\ job[w] = <<job[w][1], job[w][2]>>
  BY <1>2, <1>4, WorkerKnows, Zenon
<1>s. PICK s \in Stream : s = job[w][1]
  BY <1>2, Zenon
<1>r. PICK r \in Nat : r = job[w][2]
  BY <1>5, Zenon
<1>6. /\ work' \in [Worker -> {"idle", "run", "remove", "done", "stopped"}]
      /\ job' \in [Worker -> Jobs \cup {<<>>}] /\ work'[w] = "idle"
      /\ \A v \in Worker : v # w => work'[v] = work[v] /\ job'[v] = job[v]
      /\ \A v \in Worker : work'[v] = "run" => v # w /\ work[v] = "run" /\ job'[v] = job[v]
      /\ \A cb, q : OnItsWay(cb, q) /\ ~OnItsWay(cb, q)' => Has(w, cb, q)
  BY <1>1, <1>2, <1>3, <1>4, WorkerLeaves, Zenon
<1>7. /\ \A cb, q : Has(w, cb, q) => cb = s
      /\ \A cb, q : Has(w, cb, q) => q = r
  <2> SUFFICES ASSUME NEW cb, NEW q, Has(w, cb, q) PROVE cb = s /\ q = r
    BY Zenon
  <2>1. cb = job[w][1] /\ q = job[w][2]
    BY HasJob, Zenon
  <2> QED
    BY <1>s, <1>r, <2>1, Zenon
<1>8. Running(<<s, r>>) /\ <<s, r>> \in Jobs /\ <<s, r>>[1] = s /\ <<s, r>>[2] = r
  <2>1. <<s, r>> = job[w]
    BY <1>s, <1>r, <1>5, Zenon
  <2> QED
    BY <1>s, <1>r, <1>2, <1>5, <2>1, Zenon DEF Running
<1>9. r \in 1 .. stored /\ stream[s] # "none"
  BY <1>0, <1>8, Zenon DEF JobsKnown, Opened
<1>10. r \in sent[s] => r <= snap[s]
  <2>1. s \in Callback
    BY Zenon DEF Callback
  <2> QED
    BY <1>0, <1>8, <2>1, TakenByRound, Zenon DEF OneJob, NotSent
<1>11. ~OnItsWay(s, r)'
  <2>1. s \in Callback
    BY Zenon DEF Callback
  <2>2. ~Queued(<<s, r>>)'
    <3>1. ~Queued(<<s, r>>)
      BY <1>0, <1>8, <2>1, TakenByRound, Zenon DEF OneJob
    <3> QED
      BY <1>1, <3>1, Zenon DEF Queued
  <2>3. ~Running(<<s, r>>)'
    <3>1. <<s, r>> = job[w]
      BY <1>s, <1>r, <1>5, Zenon
    <3>2. \A v \in Worker : v # w /\ work[v] = "run" => job[v] # job[w]
      BY <1>0, <1>2, Zenon DEF OneJob, WorkersApart
    <3> QED
      BY <1>6, <3>1, <3>2, Zenon DEF Running
  <2>4. \A q \in Putter : putRound'[q] = r => ~Owes(q, s)'
    <3>1. \A q \in Putter : putRound[q] = r => ~Owes(q, s)
      BY <1>0, <1>8, <2>1, OwedByRound, Zenon DEF OneJob
    <3> QED
      BY <1>1, <3>1, Zenon DEF Owes
  <2> QED
    BY <2>2, <2>3, <2>4, Places, Zenon
<1>12. \/ /\ sent' = [sent EXCEPT ![s] = sent[s] \cup {r}]
          /\ again' = [again EXCEPT ![s] = again[s] \cup ({r} \cap sent[s])]
       \/ KindOf(s) = "proxy" /\ sent' = sent /\ again' = again
  BY <1>s, <1>r, Zenon DEF SendWorks, Deliver
<1>13. /\ sent' \in [Stream -> SUBSET Nat] /\ again' \in [Stream -> SUBSET Nat]
       /\ \A t \in Stream : t # s => sent'[t] = sent[t] /\ again'[t] = again[t]
       /\ sent'[s] \in {sent[s], sent[s] \cup {r}} /\ (KindOf(s) # "proxy" => r \in sent'[s])
       /\ again'[s] \subseteq again[s] \cup ({r} \cap sent[s])
  <2>1. sent[s] \cup {r} \in SUBSET Nat /\ again[s] \cup ({r} \cap sent[s]) \in SUBSET Nat
    BY <1>3, Zenon
  <2>2. CASE /\ sent' = [sent EXCEPT ![s] = sent[s] \cup {r}]
             /\ again' = [again EXCEPT ![s] = again[s] \cup ({r} \cap sent[s])]
    <3>1. /\ sent' \in [Stream -> SUBSET Nat] /\ sent'[s] = sent[s] \cup {r}
          /\ \A t \in Stream : t # s => sent'[t] = sent[t]
      BY <1>3, <2>1, <2>2, Zenon
    <3>2. /\ again' \in [Stream -> SUBSET Nat] /\ again'[s] = again[s] \cup ({r} \cap sent[s])
          /\ \A t \in Stream : t # s => again'[t] = again[t]
      BY <1>3, <2>1, <2>2, Zenon
    <3> QED
      BY <3>1, <3>2, Zenon
  <2>3. CASE KindOf(s) = "proxy" /\ sent' = sent /\ again' = again
    BY <1>3, <2>3, Zenon
  <2> QED
    BY <1>12, <2>2, <2>3, Zenon
<1>14. CBTypes'
  BY <1>0, <1>1, <1>6, <1>13, Zenon DEF CBTypes, Jobs, Callback
<1>15. StreamsKnown'
  <2>1. \A t \in callbacks' : stream'[t] # "none"
    BY <1>0, <1>1, Zenon DEF StreamsKnown
  <2>2. ASSUME NEW t \in Stream
        PROVE  /\ sent'[t] \subseteq 1 .. stored' /\ snap'[t] <= stored'
               /\ stream'[t] = "none" => sent'[t] = {} /\ again'[t] = {} /\ ~broken'[t]
               /\ stream'[t] = "cursor" => from'[t] \in 1 .. snap'[t]
    <3>1. /\ sent[t] \subseteq 1 .. stored /\ snap[t] <= stored
          /\ stream[t] = "none" => sent[t] = {} /\ again[t] = {} /\ ~broken[t]
          /\ stream[t] = "cursor" => from[t] \in 1 .. snap[t]
      BY <1>0, Zenon DEF StreamsKnown
    <3>2. CASE t # s
      BY <1>1, <1>13, <3>1, <3>2, Zenon
    <3>3. CASE t = s
      <4>1. sent'[t] \subseteq 1 .. stored
        BY <1>9, <1>13, <3>1, <3>3, Zenon
      <4> QED
        BY <1>1, <1>9, <3>1, <3>3, <4>1, Zenon
    <3> QED
      BY <3>2, <3>3, Zenon
  <2> QED
    BY <2>1, <2>2, Zenon DEF StreamsKnown
<1>16. \A t \in Stream : sent[t] \subseteq sent'[t]
  BY <1>13, Zenon
<1>17. CursorFirst'
  <2> SUFFICES ASSUME NEW t \in Stream, stream'[t] = "register", from'[t] \in 1 .. snap'[t]
               PROVE  from'[t] .. snap'[t] \subseteq sent'[t]
    BY Zenon DEF CursorFirst
  <2>1. from[t] .. snap[t] \subseteq sent[t]
    BY <1>0, <1>1, Zenon DEF CursorFirst
  <2> QED
    BY <1>1, <1>16, <2>1, Zenon
<1>18. TwiceAtHandover'
  <2> SUFFICES ASSUME NEW t \in Stream PROVE again'[t] \subseteq 1 .. snap[t]
    BY <1>1, Zenon DEF TwiceAtHandover
  <2>1. again[t] \subseteq 1 .. snap[t]
    BY <1>0, Zenon DEF TwiceAtHandover
  <2>2. r \in sent[s] => r \in 1 .. snap[s]
    <3>1. snap[s] \in Nat /\ r \in Nat /\ stored \in Nat
      BY <1>0, Zenon DEF CBTypes
    <3> QED
      BY <1>9, <1>10, <3>1
  <2>3. CASE t = s
    BY <1>13, <2>1, <2>2, <2>3, Zenon
  <2>4. CASE t # s
    BY <1>13, <2>1, <2>4, Zenon
  <2> QED
    BY <2>3, <2>4, Zenon
<1>19. StoredIsAnnounced'
  <2>1. s # "chainstore"
    BY CallbackAssumption, Zenon
  <2>2. \A q : OnItsWay("chainstore", q) => OnItsWay("chainstore", q)'
    BY <1>6, <1>7, <2>1, Zenon
  <2> QED
    BY <1>0, <1>1, <2>2, Zenon DEF StoredIsAnnounced
<1>20. LiveStreamComplete'
  <2> SUFFICES ASSUME NEW t \in Stream PROVE Whole(t)'
    BY AllWhole, Zenon
  <2>1. CASE t # s
    <3>1. sent'[t] = sent[t]
      BY <1>13, <2>1, Zenon
    <3>2. \A q : OnItsWay(t, q) => OnItsWay(t, q)'
      BY <1>6, <1>7, <2>1, Zenon
    <3> QED
      BY <1>1, <2>1, <3>1, <3>2, OthersWhole, Zenon
  <2>2. CASE t = s
    <3>1. Whole(s)
      BY <1>0, AllWhole, Zenon
    <3>2. (Live(s)' <=> Live(s)) /\ Due(s)' = Due(s)
      BY <1>1, Zenon DEF Live, Alone, Due
    <3>3. ASSUME KindOf(s) # "proxy", NEW q, Covered(s, q) PROVE Covered(s, q)'
      <4>1. CASE q = r
        <5>1. q \in sent'[s]
          BY <1>13, <3>3, <4>1, Zenon
        <5> QED
          BY <5>1, Zenon DEF Covered
      <4>2. CASE q # r
        <5>0. ~Has(w, s, q)
          BY <1>7, <4>2, Zenon
        <5>1. OnItsWay(s, q) => OnItsWay(s, q)'
          BY <1>6, <5>0, Zenon
        <5>2. /\ q \in sent[s] => q \in sent'[s]
              /\ snap' = snap /\ regAt' = regAt /\ from' = from
          BY <1>1, <1>16, Zenon
        <5>3. CASE q \in sent[s]
          BY <5>2, <5>3, Zenon DEF Covered
        <5>4. CASE q \in snap[s] + 1 .. regAt[s] \/ q < from[s] \/ OnItsWay(s, q)
          BY <5>1, <5>2, <5>4, Zenon DEF Covered
        <5> QED
          BY <3>3, <5>3, <5>4, Zenon DEF Covered
      <4> QED
        BY <4>1, <4>2, Zenon
    <3> QED
      BY <1>1, <2>2, <3>1, <3>2, <3>3, Zenon DEF Whole
  <2> QED
    BY <2>1, <2>2, Zenon
<1>21. GivenUp'
  BY <1>0, <1>1, <1>4, <1>6, OthersGivenUp, Zenon
<1>22. JobsKnown' /\ OneJob'
  <2>1. \A cb : Opened(cb) => Opened(cb)'
    BY <1>1, Zenon DEF Opened
  <2>2. ASSUME NEW cb \in Callback, NEW q, OnItsWay(cb, q)', NotSent(cb, q) PROVE NotSent(cb, q)'
    <3> SUFFICES ASSUME cb \in Stream, q \in sent'[cb] PROVE q <= snap'[cb]
      BY Zenon DEF NotSent
    <3>1. q \in sent[cb]
      <4>1. cb # s \/ q # r
        BY <1>11, <2>2, Zenon
      <4> QED
        BY <1>13, <4>1, Zenon
    <3> QED
      BY <1>1, <2>2, <3>1, Zenon DEF NotSent
  <2>3. \A v \in Worker : work'[v] = "run" => work[v] = "run" /\ job'[v] = job[v]
    BY <1>6, Zenon
  <2> QED
    BY <1>1, <2>1, <2>2, <2>3, NoNewJobs, Zenon
<1> QED
  BY <1>14, <1>15, <1>17, <1>18, <1>19, <1>20, <1>21, <1>22, Zenon DEF CBInv

\* A peer goes away.
LEMMA PeerGoneKeeps ==
  ASSUME CBInv, NEW s \in Stream, PeerGone(s)
  PROVE  CBInv'
<1>0. /\ CBTypes /\ JobsKnown /\ StreamsKnown /\ GivenUp /\ CursorFirst /\ OneJob
      /\ StoredIsAnnounced /\ LiveStreamComplete /\ TwiceAtHandover
  BY Zenon DEF CBInv
<1>1. /\ stored' = stored /\ put' = put /\ putRound' = putRound /\ todo' = todo
      /\ callbacks' = callbacks /\ jobs' = jobs /\ work' = work /\ job' = job /\ told' = told
      /\ stream' = stream /\ from' = from /\ snap' = snap /\ regAt' = regAt /\ sent' = sent
      /\ again' = again
  BY Zenon DEF PeerGone, putVars, workVars, streamVars, sendVars
<1>2. stream[s] \in {"cursor", "register", "live"} /\ broken' = [broken EXCEPT ![s] = TRUE]
  BY Zenon DEF PeerGone
<1>3. broken \in [Stream -> BOOLEAN]
  BY <1>0, Zenon DEF CBTypes
<1>4. stream[s] # "none"
  BY <1>2
<1>5. /\ broken' \in [Stream -> BOOLEAN] /\ broken'[s]
      /\ \A t \in Stream : t # s => broken'[t] = broken[t]
  BY <1>2, <1>3, Zenon
<1>6. \A cb, r : OnItsWay(cb, r)' <=> OnItsWay(cb, r)
  BY <1>1, Zenon DEF OnItsWay
<1>7. StoredIsAnnounced'
  BY <1>0, <1>1, <1>6, Zenon DEF StoredIsAnnounced
<1>8. JobsKnown' /\ OneJob'
  <2>1. \A cb : Opened(cb) => Opened(cb)'
    BY <1>1, Zenon DEF Opened
  <2>2. ASSUME NEW cb \in Callback, NEW q, NotSent(cb, q) PROVE NotSent(cb, q)'
    BY <1>1, <2>2, Zenon DEF NotSent
  <2> QED
    BY <1>1, <2>1, <2>2, NoNewJobs, Zenon
<1>9. GivenUp'
  <2>1. \A t \in Stream : broken[t] => broken'[t]
    BY <1>5, Zenon
  <2> QED
    BY <1>0, <1>1, <2>1, Zenon DEF GivenUp, Jobs, Callback
<1>10. CBTypes'
  BY <1>0, <1>1, <1>5, Zenon DEF CBTypes, Jobs, Callback
<1>11. StreamsKnown'
  BY <1>0, <1>1, <1>4, <1>5, Zenon DEF StreamsKnown
<1>12. CursorFirst'
  BY <1>0, <1>1, Zenon DEF CursorFirst
<1>13. TwiceAtHandover'
  BY <1>0, <1>1, Zenon DEF TwiceAtHandover
<1>14. LiveStreamComplete'
  <2> SUFFICES ASSUME NEW t \in Stream PROVE Whole(t)'
    BY AllWhole, Zenon
  <2>1. CASE t # s
    <3>1. /\ stream'[t] = stream[t] /\ from'[t] = from[t] /\ snap'[t] = snap[t]
          /\ regAt'[t] = regAt[t] /\ sent'[t] = sent[t] /\ broken'[t] = broken[t]
      BY <1>1, <1>5, <2>1, Zenon
    <3>2. \A u \in Stream : stream'[u] = "none" => stream[u] = "none"
      BY <1>1, Zenon
    <3>3. t \in callbacks => t \in callbacks' \/ (AddrOf(t) = AddrOf(s) /\ stream'[s] # "none")
      BY <1>1, Zenon
    <3>4. stored' = stored
      BY <1>1, Zenon
    <3> QED
      BY <1>6, <2>1, <3>1, <3>2, <3>3, <3>4, OthersWhole, Zenon
  <2>2. CASE t = s
    BY <1>5, <2>2, Zenon DEF Whole, Live
  <2> QED
    BY <2>1, <2>2, Zenon
<1> QED
  BY <1>7, <1>8, <1>9, <1>10, <1>11, <1>12, <1>13, <1>14, Zenon DEF CBInv

\* The handler of a stream returns.
LEMMA StreamEndsKeeps ==
  ASSUME CBInv, NEW s \in Stream, StreamEnds(s)
  PROVE  CBInv'
<1>0. /\ CBTypes /\ JobsKnown /\ StreamsKnown /\ GivenUp /\ CursorFirst /\ OneJob
      /\ StoredIsAnnounced /\ LiveStreamComplete /\ TwiceAtHandover
  BY Zenon DEF CBInv
<1>1. /\ stored' = stored /\ put' = put /\ putRound' = putRound /\ todo' = todo
      /\ callbacks' = callbacks /\ jobs' = jobs /\ work' = work /\ job' = job /\ told' = told
      /\ from' = from /\ snap' = snap /\ regAt' = regAt /\ sent' = sent /\ again' = again
      /\ broken' = broken
  BY Zenon DEF StreamEnds, putVars, workVars, streamVars, sendVars
<1>a. PICK a \in {"ending", "over"} : stream' = [stream EXCEPT ![s] = a]
  BY Zenon DEF StreamEnds
<1>2. stream[s] = "live"
  BY Zenon DEF StreamEnds
<1>3. stream \in [Stream -> {"none", "cursor", "register", "live", "ending", "over"}]
  BY <1>0, Zenon DEF CBTypes
<1>4. /\ a # "none" /\ a # "register" /\ a # "live" /\ a # "cursor" /\ a \in {"none", "cursor", "register", "live", "ending", "over"}
      /\ stream[s] # "none" /\ stream'[s] = a
  BY <1>2, <1>a, <1>3
<1>5. /\ stream' \in [Stream -> {"none", "cursor", "register", "live", "ending", "over"}]
      /\ stream'[s] # "none" /\ stream'[s] # "register" /\ stream'[s] # "live" /\ stream'[s] # "cursor"
      /\ \A t \in Stream : t # s => stream'[t] = stream[t]
  BY <1>a, <1>3, <1>4, Zenon
<1>6. \A cb, r : OnItsWay(cb, r)' <=> OnItsWay(cb, r)
  BY <1>1, Zenon DEF OnItsWay
<1>7. StoredIsAnnounced'
  BY <1>0, <1>1, <1>6, Zenon DEF StoredIsAnnounced
<1>8. JobsKnown' /\ OneJob'
  <2>1. \A cb : Opened(cb) => Opened(cb)'
    BY <1>4, <1>5, Zenon DEF Opened
  <2>2. ASSUME NEW cb \in Callback, NEW q, NotSent(cb, q) PROVE NotSent(cb, q)'
    BY <1>1, <2>2, Zenon DEF NotSent
  <2> QED
    BY <1>1, <2>1, <2>2, NoNewJobs, Zenon
<1>9. GivenUp'
  BY <1>0, <1>1, Zenon DEF GivenUp, Jobs, Callback
<1>10. CBTypes'
  BY <1>0, <1>1, <1>5, Zenon DEF CBTypes, Jobs, Callback
<1>11. StreamsKnown'
  <2>1. \A t \in callbacks' : stream'[t] # "none"
    BY <1>0, <1>1, <1>4, <1>5, Zenon DEF StreamsKnown, CBTypes
  <2>2. ASSUME NEW t \in Stream
        PROVE  /\ sent'[t] \subseteq 1 .. stored' /\ snap'[t] <= stored'
               /\ stream'[t] = "none" => sent'[t] = {} /\ again'[t] = {} /\ ~broken'[t]
               /\ stream'[t] = "cursor" => from'[t] \in 1 .. snap'[t]
    <3>1. /\ sent[t] \subseteq 1 .. stored /\ snap[t] <= stored
          /\ stream[t] = "none" => sent[t] = {} /\ again[t] = {} /\ ~broken[t]
          /\ stream[t] = "cursor" => from[t] \in 1 .. snap[t]
      BY <1>0, Zenon DEF StreamsKnown
    <3>2. CASE t # s
      BY <1>1, <1>5, <3>1, <3>2, Zenon
    <3>3. CASE t = s
      BY <1>1, <1>5, <3>1, <3>3, Zenon
    <3> QED
      BY <3>2, <3>3, Zenon
  <2> QED
    BY <2>1, <2>2, Zenon DEF StreamsKnown
<1>12. CursorFirst'
  <2> SUFFICES ASSUME NEW t \in Stream, stream'[t] = "register", from'[t] \in 1 .. snap'[t]
               PROVE  from'[t] .. snap'[t] \subseteq sent'[t]
    BY Zenon DEF CursorFirst
  <2>1. t # s
    BY <1>4, <1>5, Zenon
  <2>2. /\ stream'[t] = stream[t] /\ from'[t] = from[t] /\ snap'[t] = snap[t]
        /\ sent'[t] = sent[t]
    BY <1>1, <1>5, <2>1, Zenon
  <2> QED
    BY <1>0, <2>2, Zenon DEF CursorFirst
<1>13. TwiceAtHandover'
  BY <1>0, <1>1, Zenon DEF TwiceAtHandover
<1>14. LiveStreamComplete'
  <2> SUFFICES ASSUME NEW t \in Stream PROVE Whole(t)'
    BY AllWhole, Zenon
  <2>1. CASE t # s
    <3>1. /\ stream'[t] = stream[t] /\ from'[t] = from[t] /\ snap'[t] = snap[t]
          /\ regAt'[t] = regAt[t] /\ sent'[t] = sent[t] /\ broken'[t] = broken[t]
      BY <1>1, <1>5, <2>1, Zenon
    <3>2. \A u \in Stream : stream'[u] = "none" => stream[u] = "none"
      BY <1>4, <1>5, Zenon
    <3>3. t \in callbacks => t \in callbacks' \/ (AddrOf(t) = AddrOf(s) /\ stream'[s] # "none")
      BY <1>1, Zenon
    <3>4. stored' = stored
      BY <1>1, Zenon
    <3> QED
      BY <1>6, <2>1, <3>1, <3>2, <3>3, <3>4, OthersWhole, Zenon
  <2>2. CASE t = s
    BY <1>5, <2>2, Zenon DEF Whole, Live
  <2> QED
    BY <2>1, <2>2, Zenon
<1> QED
  BY <1>7, <1>8, <1>9, <1>10, <1>11, <1>12, <1>13, <1>14, Zenon DEF CBInv

\* The handler of a stream removes its callback.
LEMMA StreamRemoveKeeps ==
  ASSUME CBInv, NEW s \in Stream, StreamRemove(s)
  PROVE  CBInv'
<1>0. /\ CBTypes /\ JobsKnown /\ StreamsKnown /\ GivenUp /\ CursorFirst /\ OneJob
      /\ StoredIsAnnounced /\ LiveStreamComplete /\ TwiceAtHandover
  BY Zenon DEF CBInv
<1>1. /\ stored' = stored /\ put' = put /\ putRound' = putRound /\ todo' = todo /\ jobs' = jobs
      /\ work' = work /\ job' = job /\ told' = told /\ from' = from /\ snap' = snap
      /\ regAt' = regAt /\ sent' = sent /\ again' = again /\ broken' = broken
  BY Zenon DEF StreamRemove, putVars, workVars, streamVars, sendVars
<1>2. /\ stream[s] = "ending" /\ stream' = [stream EXCEPT ![s] = "over"]
      /\ callbacks' = Without(AddrOf(s))
  BY Zenon DEF StreamRemove
<1>3. stream \in [Stream -> {"none", "cursor", "register", "live", "ending", "over"}] /\ callbacks \in SUBSET Stream
  BY <1>0, Zenon DEF CBTypes
<1>4. /\ "over" # "none" /\ "over" # "register" /\ "over" # "live" /\ "over" # "cursor"
      /\ "over" \in {"none", "cursor", "register", "live", "ending", "over"} /\ stream[s] # "none"
  BY <1>2
<1>5. /\ stream' \in [Stream -> {"none", "cursor", "register", "live", "ending", "over"}] /\ stream'[s] = "over"
      /\ \A t \in Stream : t # s => stream'[t] = stream[t]
  BY <1>2, <1>3, <1>4, Zenon
<1>c. /\ callbacks' \in SUBSET Stream /\ callbacks' \subseteq callbacks
      /\ \A t \in callbacks : t \in callbacks' \/ AddrOf(t) = AddrOf(s)
  BY <1>2, <1>3, Zenon DEF Without
<1>6. \A cb, r : OnItsWay(cb, r)' <=> OnItsWay(cb, r)
  BY <1>1, Zenon DEF OnItsWay
<1>7. StoredIsAnnounced'
  BY <1>0, <1>1, <1>6, Zenon DEF StoredIsAnnounced
<1>8. JobsKnown' /\ OneJob'
  <2>1. \A cb : Opened(cb) => Opened(cb)'
    BY <1>4, <1>5, Zenon DEF Opened
  <2>2. ASSUME NEW cb \in Callback, NEW q, NotSent(cb, q) PROVE NotSent(cb, q)'
    BY <1>1, <2>2, Zenon DEF NotSent
  <2> QED
    BY <1>1, <2>1, <2>2, NoNewJobs, Zenon
<1>9. GivenUp'
  BY <1>0, <1>1, Zenon DEF GivenUp, Jobs, Callback
<1>10. CBTypes'
  BY <1>0, <1>1, <1>5, <1>c, Zenon DEF CBTypes, Jobs, Callback
<1>11. StreamsKnown'
  <2>1. \A t \in callbacks' : stream'[t] # "none"
    BY <1>0, <1>3, <1>4, <1>5, <1>c, Zenon DEF StreamsKnown
  <2>2. ASSUME NEW t \in Stream
        PROVE  /\ sent'[t] \subseteq 1 .. stored' /\ snap'[t] <= stored'
               /\ stream'[t] = "none" => sent'[t] = {} /\ again'[t] = {} /\ ~broken'[t]
               /\ stream'[t] = "cursor" => from'[t] \in 1 .. snap'[t]
    <3>1. /\ sent[t] \subseteq 1 .. stored /\ snap[t] <= stored
          /\ stream[t] = "none" => sent[t] = {} /\ again[t] = {} /\ ~broken[t]
          /\ stream[t] = "cursor" => from[t] \in 1 .. snap[t]
      BY <1>0, Zenon DEF StreamsKnown
    <3>2. CASE t # s
      BY <1>1, <1>5, <3>1, <3>2, Zenon
    <3>3. CASE t = s
      BY <1>1, <1>4, <1>5, <3>1, <3>3, Zenon
    <3> QED
      BY <3>2, <3>3, Zenon
  <2> QED
    BY <2>1, <2>2, Zenon DEF StreamsKnown
<1>12. CursorFirst'
  <2> SUFFICES ASSUME NEW t \in Stream, stream'[t] = "register", from'[t] \in 1 .. snap'[t]
               PROVE  from'[t] .. snap'[t] \subseteq sent'[t]
    BY Zenon DEF CursorFirst
  <2>1. t # s
    BY <1>4, <1>5, Zenon
  <2>2. /\ stream'[t] = stream[t] /\ from'[t] = from[t] /\ snap'[t] = snap[t]
        /\ sent'[t] = sent[t]
    BY <1>1, <1>5, <2>1, Zenon
  <2> QED
    BY <1>0, <2>2, Zenon DEF CursorFirst
<1>13. TwiceAtHandover'
  BY <1>0, <1>1, Zenon DEF TwiceAtHandover
<1>14. LiveStreamComplete'
  <2> SUFFICES ASSUME NEW t \in Stream PROVE Whole(t)'
    BY AllWhole, Zenon
  <2>1. CASE t # s
    <3>1. /\ stream'[t] = stream[t] /\ from'[t] = from[t] /\ snap'[t] = snap[t]
          /\ regAt'[t] = regAt[t] /\ sent'[t] = sent[t] /\ broken'[t] = broken[t]
      BY <1>1, <1>5, <2>1, Zenon
    <3>2. \A u \in Stream : stream'[u] = "none" => stream[u] = "none"
      BY <1>4, <1>5, Zenon
    <3>3. t \in callbacks => t \in callbacks' \/ (AddrOf(t) = AddrOf(s) /\ stream'[s] # "none")
      BY <1>4, <1>5, <1>c, Zenon
    <3>4. stored' = stored
      BY <1>1, Zenon
    <3> QED
      BY <1>6, <2>1, <3>1, <3>2, <3>3, <3>4, OthersWhole, Zenon
  <2>2. CASE t = s
    BY <1>4, <1>5, <2>2, Zenon DEF Whole, Live
  <2> QED
    BY <2>1, <2>2, Zenon
<1> QED
  BY <1>7, <1>8, <1>9, <1>10, <1>11, <1>12, <1>13, <1>14, Zenon DEF CBInv

\* The handler of a stream registers its callback: jobs of later Puts are for it.
LEMMA StreamRegisterKeeps ==
  ASSUME CBInv, NEW s \in Stream, StreamRegister(s)
  PROVE  CBInv'
<1>0. /\ CBTypes /\ JobsKnown /\ StreamsKnown /\ GivenUp /\ CursorFirst /\ OneJob
      /\ StoredIsAnnounced /\ LiveStreamComplete /\ TwiceAtHandover
  BY Zenon DEF CBInv
<1>1. /\ stored' = stored /\ put' = put /\ putRound' = putRound /\ todo' = todo /\ jobs' = jobs
      /\ work' = work /\ job' = job /\ told' = told /\ from' = from /\ snap' = snap
      /\ sent' = sent /\ again' = again /\ broken' = broken
  BY Zenon DEF StreamRegister, putVars, workVars, streamVars, sendVars
<1>2. /\ stream[s] = "register" /\ stream' = [stream EXCEPT ![s] = "live"]
      /\ callbacks' = Without(AddrOf(s)) \cup {s} /\ regAt' = [regAt EXCEPT ![s] = stored]
  BY Zenon DEF StreamRegister
<1>3. /\ stream \in [Stream -> {"none", "cursor", "register", "live", "ending", "over"}] /\ callbacks \in SUBSET Stream
      /\ regAt \in [Stream -> Nat] /\ stored \in Nat
  BY <1>0, Zenon DEF CBTypes
<1>4. /\ "live" # "none" /\ "live" # "register" /\ "live" # "cursor"
      /\ "live" \in {"none", "cursor", "register", "live", "ending", "over"} /\ stream[s] # "none"
  BY <1>2
<1>5. /\ stream' \in [Stream -> {"none", "cursor", "register", "live", "ending", "over"}] /\ stream'[s] = "live"
      /\ \A t \in Stream : t # s => stream'[t] = stream[t]
      /\ regAt' \in [Stream -> Nat] /\ regAt'[s] = stored
      /\ \A t \in Stream : t # s => regAt'[t] = regAt[t]
  <2>1. /\ stream' \in [Stream -> {"none", "cursor", "register", "live", "ending", "over"}] /\ stream'[s] = "live"
        /\ \A t \in Stream : t # s => stream'[t] = stream[t]
    BY <1>2, <1>3, <1>4, Zenon
  <2>2. /\ regAt' \in [Stream -> Nat] /\ regAt'[s] = stored
        /\ \A t \in Stream : t # s => regAt'[t] = regAt[t]
    BY <1>2, <1>3, Zenon
  <2> QED
    BY <2>1, <2>2, Zenon
<1>c. /\ callbacks' \in SUBSET Stream /\ callbacks' \subseteq callbacks \cup {s} /\ s \in callbacks'
      /\ \A t \in callbacks : t \in callbacks' \/ AddrOf(t) = AddrOf(s)
  BY <1>2, <1>3, Zenon DEF Without
<1>6. \A cb, r : OnItsWay(cb, r)' <=> OnItsWay(cb, r)
  BY <1>1, Zenon DEF OnItsWay
<1>7. StoredIsAnnounced'
  BY <1>0, <1>1, <1>6, Zenon DEF StoredIsAnnounced
<1>8. JobsKnown' /\ OneJob'
  <2>1. \A cb : Opened(cb) => Opened(cb)'
    BY <1>4, <1>5, Zenon DEF Opened
  <2>2. ASSUME NEW cb \in Callback, NEW q, NotSent(cb, q) PROVE NotSent(cb, q)'
    BY <1>1, <2>2, Zenon DEF NotSent
  <2> QED
    BY <1>1, <2>1, <2>2, NoNewJobs, Zenon
<1>9. GivenUp'
  BY <1>0, <1>1, Zenon DEF GivenUp, Jobs, Callback
<1>10. CBTypes'
  BY <1>0, <1>1, <1>5, <1>c, Zenon DEF CBTypes, Jobs, Callback
<1>11. StreamsKnown'
  <2>1. \A t \in callbacks' : stream'[t] # "none"
    BY <1>0, <1>3, <1>4, <1>5, <1>c, Zenon DEF StreamsKnown
  <2>2. ASSUME NEW t \in Stream
        PROVE  /\ sent'[t] \subseteq 1 .. stored' /\ snap'[t] <= stored'
               /\ stream'[t] = "none" => sent'[t] = {} /\ again'[t] = {} /\ ~broken'[t]
               /\ stream'[t] = "cursor" => from'[t] \in 1 .. snap'[t]
    <3>1. /\ sent[t] \subseteq 1 .. stored /\ snap[t] <= stored
          /\ stream[t] = "none" => sent[t] = {} /\ again[t] = {} /\ ~broken[t]
          /\ stream[t] = "cursor" => from[t] \in 1 .. snap[t]
      BY <1>0, Zenon DEF StreamsKnown
    <3>2. CASE t # s
      BY <1>1, <1>5, <3>1, <3>2, Zenon
    <3>3. CASE t = s
      BY <1>1, <1>4, <1>5, <3>1, <3>3, Zenon
    <3> QED
      BY <3>2, <3>3, Zenon
  <2> QED
    BY <2>1, <2>2, Zenon DEF StreamsKnown
<1>12. CursorFirst'
  <2> SUFFICES ASSUME NEW t \in Stream, stream'[t] = "register", from'[t] \in 1 .. snap'[t]
               PROVE  from'[t] .. snap'[t] \subseteq sent'[t]
    BY Zenon DEF CursorFirst
  <2>1. t # s
    BY <1>4, <1>5, Zenon
  <2>2. /\ stream'[t] = stream[t] /\ from'[t] = from[t] /\ snap'[t] = snap[t]
        /\ sent'[t] = sent[t]
    BY <1>1, <1>5, <2>1, Zenon
  <2> QED
    BY <1>0, <2>2, Zenon DEF CursorFirst
<1>13. TwiceAtHandover'
  BY <1>0, <1>1, Zenon DEF TwiceAtHandover
<1>14. LiveStreamComplete'
  <2> SUFFICES ASSUME NEW t \in Stream PROVE Whole(t)'
    BY AllWhole, Zenon
  <2>1. CASE t # s
    <3>1. /\ stream'[t] = stream[t] /\ from'[t] = from[t] /\ snap'[t] = snap[t]
          /\ regAt'[t] = regAt[t] /\ sent'[t] = sent[t] /\ broken'[t] = broken[t]
      BY <1>1, <1>5, <2>1, Zenon
    <3>2. \A u \in Stream : stream'[u] = "none" => stream[u] = "none"
      BY <1>4, <1>5, Zenon
    <3>3. t \in callbacks => t \in callbacks' \/ (AddrOf(t) = AddrOf(s) /\ stream'[s] # "none")
      BY <1>4, <1>5, <1>c, Zenon
    <3>4. stored' = stored
      BY <1>1, Zenon
    <3> QED
      BY <1>6, <2>1, <3>1, <3>2, <3>3, <3>4, OthersWhole, Zenon
  <2>2. CASE t = s
    <3>1. /\ from[s] \in Nat /\ snap[s] \in Nat /\ stored \in Nat /\ regAt'[s] = stored
          /\ from'[s] = from[s] /\ snap'[s] = snap[s] /\ sent'[s] = sent[s] /\ stored' = stored
      BY <1>0, <1>1, <1>5, Zenon DEF CBTypes
    <3>2. from[s] \in 1 .. snap[s] => from[s] .. snap[s] \subseteq sent[s]
      BY <1>0, <1>2, Zenon DEF CursorFirst
    <3>3. ASSUME NEW r \in Due(s)' PROVE Covered(s, r)'
      <4>1. r \in (IF from[s] = 0 THEN snap[s] + 1 ELSE from[s]) .. stored
        BY <3>1, Zenon DEF Due
      <4>2. r \in snap[s] + 1 .. stored \/ (from[s] \in 1 .. snap[s] /\ r \in from[s] .. snap[s])
        BY <3>1, <4>1
      <4>3. r \in sent'[s] \cup (snap'[s] + 1 .. regAt'[s])
        BY <3>1, <3>2, <4>2, Zenon
      <4> QED
        BY <4>3, Zenon DEF Covered
    <3> QED
      BY <1>c, <2>2, <3>3, Zenon DEF Whole
  <2> QED
    BY <2>1, <2>2, Zenon
<1> QED
  BY <1>7, <1>8, <1>9, <1>10, <1>11, <1>12, <1>13, <1>14, Zenon DEF CBInv

\* A stream is opened.
LEMMA StreamStartKeeps ==
  ASSUME CBInv, NEW s \in Stream, NEW n \in 0 .. LastRound, StreamStart(s, n)
  PROVE  CBInv'
<1>0. /\ CBTypes /\ JobsKnown /\ StreamsKnown /\ GivenUp /\ CursorFirst /\ OneJob
      /\ StoredIsAnnounced /\ LiveStreamComplete /\ TwiceAtHandover
  BY Zenon DEF CBInv
<1>1. /\ stored' = stored /\ put' = put /\ putRound' = putRound /\ todo' = todo
      /\ callbacks' = callbacks /\ jobs' = jobs /\ work' = work /\ job' = job /\ told' = told
      /\ regAt' = regAt /\ sent' = sent /\ again' = again /\ broken' = broken
  BY Zenon DEF StreamStart, putVars, workVars, streamVars, sendVars
<1>a. PICK a \in {"cursor", "register"} :
        stream' = [stream EXCEPT ![s] = a] /\ (a = "cursor" <=> n \in 1 .. stored)
  <2>1. stream' = [stream EXCEPT ![s] = IF n \in 1 .. stored THEN "cursor" ELSE "register"]
    BY Zenon DEF StreamStart
  <2>2. PICK a : a = IF n \in 1 .. stored THEN "cursor" ELSE "register"
    BY Zenon
  <2>3. a \in {"cursor", "register"} /\ (a = "cursor" <=> n \in 1 .. stored)
    BY <2>2
  <2> QED
    BY <2>1, <2>2, <2>3, Zenon
<1>2. /\ stream[s] = "none" /\ from' = [from EXCEPT ![s] = n] /\ snap' = [snap EXCEPT ![s] = stored]
  BY Zenon DEF StreamStart
<1>3. /\ stream \in [Stream -> {"none", "cursor", "register", "live", "ending", "over"}]
      /\ from \in [Stream -> Nat] /\ snap \in [Stream -> Nat] /\ stored \in Nat
  BY <1>0, Zenon DEF CBTypes
<1>4. /\ a # "none" /\ a # "live" /\ a \in {"none", "cursor", "register", "live", "ending", "over"} /\ n \in Nat
      /\ a = "register" => n \notin 1 .. stored
  BY <1>a
<1>5. /\ stream' \in [Stream -> {"none", "cursor", "register", "live", "ending", "over"}] /\ stream'[s] = a
      /\ \A t \in Stream : t # s => stream'[t] = stream[t]
      /\ from' \in [Stream -> Nat] /\ from'[s] = n
      /\ \A t \in Stream : t # s => from'[t] = from[t]
      /\ snap' \in [Stream -> Nat] /\ snap'[s] = stored
      /\ \A t \in Stream : t # s => snap'[t] = snap[t]
  <2>1. /\ stream' \in [Stream -> {"none", "cursor", "register", "live", "ending", "over"}] /\ stream'[s] = a
        /\ \A t \in Stream : t # s => stream'[t] = stream[t]
    BY <1>a, <1>3, <1>4, Zenon
  <2>2. /\ from' \in [Stream -> Nat] /\ from'[s] = n
        /\ \A t \in Stream : t # s => from'[t] = from[t]
    BY <1>2, <1>3, <1>4, Zenon
  <2>3. /\ snap' \in [Stream -> Nat] /\ snap'[s] = stored
        /\ \A t \in Stream : t # s => snap'[t] = snap[t]
    BY <1>2, <1>3, Zenon
  <2> QED
    BY <2>1, <2>2, <2>3, Zenon
<1>n. sent[s] = {} /\ again[s] = {}
  BY <1>0, <1>2, Zenon DEF StreamsKnown
<1>6. \A cb, r : OnItsWay(cb, r)' <=> OnItsWay(cb, r)
  BY <1>1, Zenon DEF OnItsWay
<1>7. StoredIsAnnounced'
  BY <1>0, <1>1, <1>6, Zenon DEF StoredIsAnnounced
<1>8. JobsKnown' /\ OneJob'
  <2>1. \A cb : Opened(cb) => Opened(cb)'
    BY <1>4, <1>5, Zenon DEF Opened
  <2>2. ASSUME NEW cb \in Callback, NEW q, NotSent(cb, q) PROVE NotSent(cb, q)'
    BY <1>1, <1>5, <1>n, <2>2, Zenon DEF NotSent
  <2> QED
    BY <1>1, <2>1, <2>2, NoNewJobs, Zenon
<1>9. GivenUp'
  BY <1>0, <1>1, Zenon DEF GivenUp, Jobs, Callback
<1>10. CBTypes'
  BY <1>0, <1>1, <1>5, Zenon DEF CBTypes, Jobs, Callback
<1>11. StreamsKnown'
  <2>1. \A t \in callbacks' : stream'[t] # "none"
    BY <1>0, <1>1, <1>4, <1>5, Zenon DEF StreamsKnown, CBTypes
  <2>2. ASSUME NEW t \in Stream
        PROVE  /\ sent'[t] \subseteq 1 .. stored' /\ snap'[t] <= stored'
               /\ stream'[t] = "none" => sent'[t] = {} /\ again'[t] = {} /\ ~broken'[t]
               /\ stream'[t] = "cursor" => from'[t] \in 1 .. snap'[t]
    <3>1. /\ sent[t] \subseteq 1 .. stored /\ snap[t] <= stored
          /\ stream[t] = "none" => sent[t] = {} /\ again[t] = {} /\ ~broken[t]
          /\ stream[t] = "cursor" => from[t] \in 1 .. snap[t]
      BY <1>0, Zenon DEF StreamsKnown
    <3>2. CASE t # s
      BY <1>1, <1>5, <3>1, <3>2, Zenon
    <3>3. CASE t = s
      <4>1. snap'[t] <= stored'
        BY <1>1, <1>3, <1>5, <3>3
      <4> QED
        BY <1>1, <1>4, <1>5, <1>a, <3>1, <3>3, <4>1, Zenon
    <3> QED
      BY <3>2, <3>3, Zenon
  <2> QED
    BY <2>1, <2>2, Zenon DEF StreamsKnown
<1>12. CursorFirst'
  <2> SUFFICES ASSUME NEW t \in Stream, stream'[t] = "register", from'[t] \in 1 .. snap'[t]
               PROVE  from'[t] .. snap'[t] \subseteq sent'[t]
    BY Zenon DEF CursorFirst
  <2>1. CASE t = s
    BY <1>4, <1>5, <2>1, Zenon
  <2>2. CASE t # s
    <3>1. /\ stream'[t] = stream[t] /\ from'[t] = from[t] /\ snap'[t] = snap[t]
          /\ sent'[t] = sent[t]
      BY <1>1, <1>5, <2>2, Zenon
    <3> QED
      BY <1>0, <3>1, Zenon DEF CursorFirst
  <2> QED
    BY <2>1, <2>2, Zenon
<1>13. TwiceAtHandover'
  <2> SUFFICES ASSUME NEW t \in Stream PROVE again'[t] \subseteq 1 .. snap'[t]
    BY Zenon DEF TwiceAtHandover
  <2>1. CASE t = s
    BY <1>1, <1>n, <2>1, Zenon
  <2>2. CASE t # s
    BY <1>0, <1>1, <1>5, <2>2, Zenon DEF TwiceAtHandover
  <2> QED
    BY <2>1, <2>2, Zenon
<1>14. LiveStreamComplete'
  <2> SUFFICES ASSUME NEW t \in Stream PROVE Whole(t)'
    BY AllWhole, Zenon
  <2>1. CASE t # s
    <3>1. /\ stream'[t] = stream[t] /\ from'[t] = from[t] /\ snap'[t] = snap[t]
          /\ regAt'[t] = regAt[t] /\ sent'[t] = sent[t] /\ broken'[t] = broken[t]
      BY <1>1, <1>5, <2>1, Zenon
    <3>2. \A u \in Stream : stream'[u] = "none" => stream[u] = "none"
      BY <1>4, <1>5, Zenon
    <3>3. t \in callbacks => t \in callbacks' \/ (AddrOf(t) = AddrOf(s) /\ stream'[s] # "none")
      BY <1>1, Zenon
    <3>4. stored' = stored
      BY <1>1, Zenon
    <3> QED
      BY <1>6, <2>1, <3>1, <3>2, <3>3, <3>4, OthersWhole, Zenon
  <2>2. CASE t = s
    BY <1>4, <1>5, <2>2, Zenon DEF Whole, Live
  <2> QED
    BY <2>1, <2>2, Zenon
<1> QED
  BY <1>7, <1>8, <1>9, <1>10, <1>11, <1>12, <1>13, <1>14, Zenon DEF CBInv

\* The cursor of a stream sends its part.
LEMMA StreamCursorKeeps ==
  ASSUME CBInv, NEW s \in Stream, StreamCursor(s)
  PROVE  CBInv'
<1>0. /\ CBTypes /\ JobsKnown /\ StreamsKnown /\ GivenUp /\ CursorFirst /\ OneJob
      /\ StoredIsAnnounced /\ LiveStreamComplete /\ TwiceAtHandover
  BY Zenon DEF CBInv
<1>1. /\ stored' = stored /\ put' = put /\ putRound' = putRound /\ todo' = todo
      /\ callbacks' = callbacks /\ jobs' = jobs /\ work' = work /\ job' = job /\ told' = told
      /\ from' = from /\ snap' = snap /\ regAt' = regAt /\ again' = again /\ broken' = broken
  BY Zenon DEF StreamCursor, putVars, workVars, streamVars, sendVars
<1>2. stream[s] = "cursor"
  BY Zenon DEF StreamCursor
<1>a. PICK a \in {"register", "over"} : stream' = [stream EXCEPT ![s] = a]
  BY Zenon DEF StreamCursor
<1>b. PICK b \in {from[s] .. snap[s], sent[s]} :
        sent' = [sent EXCEPT ![s] = b] /\ (a = "register" => b = from[s] .. snap[s])
  <2>1. sent \in [Stream -> SUBSET Nat] /\ stream \in [Stream -> {"none", "cursor", "register", "live", "ending", "over"}]
    BY <1>0, Zenon DEF CBTypes
  <2>2. stream'[s] = a /\ "register" # "over"
    BY <1>a, <2>1
  <2>3. CASE sent' = [sent EXCEPT ![s] = from[s] .. snap[s]]
    BY <2>3, Zenon
  <2>4. CASE stream' = [stream EXCEPT ![s] = "over"] /\ sent' = sent
    <3>1. stream'[s] = "over" /\ sent' = [sent EXCEPT ![s] = sent[s]]
      BY <2>1, <2>4, Zenon
    <3> QED
      BY <2>2, <3>1, Zenon
  <2> QED
    BY <2>3, <2>4, Zenon DEF StreamCursor
<1>3. /\ stream \in [Stream -> {"none", "cursor", "register", "live", "ending", "over"}]
      /\ from \in [Stream -> Nat] /\ snap \in [Stream -> Nat] /\ stored \in Nat
      /\ sent \in [Stream -> SUBSET Nat]
  BY <1>0, Zenon DEF CBTypes
<1>4. /\ a # "none" /\ a # "live" /\ a # "cursor" /\ a \in {"none", "cursor", "register", "live", "ending", "over"}
      /\ stream[s] # "none"
  BY <1>2, <1>a
<1>n. /\ b \in SUBSET Nat /\ b \subseteq 1 .. stored
      /\ \A r \in b : r \in sent[s] \/ r <= snap[s]
  <2>1. /\ from[s] \in Nat /\ snap[s] \in Nat /\ stored \in Nat /\ snap[s] <= stored
        /\ from[s] \in 1 .. snap[s] /\ sent[s] \subseteq 1 .. stored /\ sent[s] \in SUBSET Nat
    BY <1>0, <1>2, <1>3, Zenon DEF StreamsKnown
  <2>2. \A r \in from[s] .. snap[s] : r \in Nat /\ r \in 1 .. stored /\ r <= snap[s]
    BY <2>1
  <2> QED
    BY <2>1, <2>2, Zenon
<1>5. /\ stream' \in [Stream -> {"none", "cursor", "register", "live", "ending", "over"}] /\ stream'[s] = a
      /\ \A t \in Stream : t # s => stream'[t] = stream[t]
      /\ sent' \in [Stream -> SUBSET Nat] /\ sent'[s] = b
      /\ \A t \in Stream : t # s => sent'[t] = sent[t]
  <2>1. /\ stream' \in [Stream -> {"none", "cursor", "register", "live", "ending", "over"}] /\ stream'[s] = a
        /\ \A t \in Stream : t # s => stream'[t] = stream[t]
    BY <1>a, <1>3, <1>4, Zenon
  <2>2. /\ sent' \in [Stream -> SUBSET Nat] /\ sent'[s] = b
        /\ \A t \in Stream : t # s => sent'[t] = sent[t]
    BY <1>b, <1>3, <1>n, Zenon
  <2> QED
    BY <2>1, <2>2, Zenon
<1>6. \A cb, r : OnItsWay(cb, r)' <=> OnItsWay(cb, r)
  BY <1>1, Zenon DEF OnItsWay
<1>7. StoredIsAnnounced'
  BY <1>0, <1>1, <1>6, Zenon DEF StoredIsAnnounced
<1>8. JobsKnown' /\ OneJob'
  <2>1. \A cb : Opened(cb) => Opened(cb)'
    BY <1>4, <1>5, Zenon DEF Opened
  <2>2. ASSUME NEW cb \in Callback, NEW q, NotSent(cb, q) PROVE NotSent(cb, q)'
    BY <1>1, <1>5, <1>n, <2>2, Zenon DEF NotSent
  <2> QED
    BY <1>1, <2>1, <2>2, NoNewJobs, Zenon
<1>9. GivenUp'
  BY <1>0, <1>1, Zenon DEF GivenUp, Jobs, Callback
<1>10. CBTypes'
  BY <1>0, <1>1, <1>5, Zenon DEF CBTypes, Jobs, Callback
<1>11. StreamsKnown'
  <2>1. \A t \in callbacks' : stream'[t] # "none"
    BY <1>0, <1>1, <1>4, <1>5, Zenon DEF StreamsKnown, CBTypes
  <2>2. ASSUME NEW t \in Stream
        PROVE  /\ sent'[t] \subseteq 1 .. stored' /\ snap'[t] <= stored'
               /\ stream'[t] = "none" => sent'[t] = {} /\ again'[t] = {} /\ ~broken'[t]
               /\ stream'[t] = "cursor" => from'[t] \in 1 .. snap'[t]
    <3>1. /\ sent[t] \subseteq 1 .. stored /\ snap[t] <= stored
          /\ stream[t] = "none" => sent[t] = {} /\ again[t] = {} /\ ~broken[t]
          /\ stream[t] = "cursor" => from[t] \in 1 .. snap[t]
      BY <1>0, Zenon DEF StreamsKnown
    <3>2. CASE t # s
      BY <1>1, <1>5, <3>1, <3>2, Zenon
    <3>3. CASE t = s
      BY <1>1, <1>4, <1>5, <1>n, <3>1, <3>3, Zenon
    <3> QED
      BY <3>2, <3>3, Zenon
  <2> QED
    BY <2>1, <2>2, Zenon DEF StreamsKnown
<1>12. CursorFirst'
  <2> SUFFICES ASSUME NEW t \in Stream, stream'[t] = "register", from'[t] \in 1 .. snap'[t]
               PROVE  from'[t] .. snap'[t] \subseteq sent'[t]
    BY Zenon DEF CursorFirst
  <2>1. CASE t = s
    BY <1>1, <1>b, <1>5, <2>1, Zenon
  <2>2. CASE t # s
    <3>1. /\ stream'[t] = stream[t] /\ from'[t] = from[t] /\ snap'[t] = snap[t]
          /\ sent'[t] = sent[t]
      BY <1>1, <1>5, <2>2, Zenon
    <3> QED
      BY <1>0, <3>1, Zenon DEF CursorFirst
  <2> QED
    BY <2>1, <2>2, Zenon
<1>13. TwiceAtHandover'
  BY <1>0, <1>1, Zenon DEF TwiceAtHandover
<1>14. LiveStreamComplete'
  <2> SUFFICES ASSUME NEW t \in Stream PROVE Whole(t)'
    BY AllWhole, Zenon
  <2>1. CASE t # s
    <3>1. /\ stream'[t] = stream[t] /\ from'[t] = from[t] /\ snap'[t] = snap[t]
          /\ regAt'[t] = regAt[t] /\ sent'[t] = sent[t] /\ broken'[t] = broken[t]
      BY <1>1, <1>5, <2>1, Zenon
    <3>2. \A u \in Stream : stream'[u] = "none" => stream[u] = "none"
      BY <1>4, <1>5, Zenon
    <3>3. t \in callbacks => t \in callbacks' \/ (AddrOf(t) = AddrOf(s) /\ stream'[s] # "none")
      BY <1>1, Zenon
    <3>4. stored' = stored
      BY <1>1, Zenon
    <3> QED
      BY <1>6, <2>1, <3>1, <3>2, <3>3, <3>4, OthersWhole, Zenon
  <2>2. CASE t = s
    BY <1>4, <1>5, <2>2, Zenon DEF Whole, Live
  <2> QED
    BY <2>1, <2>2, Zenon
<1> QED
  BY <1>7, <1>8, <1>9, <1>10, <1>11, <1>12, <1>13, <1>14, Zenon DEF CBInv

\* Closing the store, and a step that changes nothing.
LEMMA NothingMoves ==
  ASSUME CBInv, CloseStore \/ UNCHANGED cbVars
  PROVE  CBInv'
<1>0. /\ CBTypes /\ JobsKnown /\ StreamsKnown /\ GivenUp /\ CursorFirst /\ OneJob
      /\ StoredIsAnnounced /\ LiveStreamComplete /\ TwiceAtHandover
  BY Zenon DEF CBInv
<1>1. /\ stored' = stored /\ put' = put /\ putRound' = putRound /\ todo' = todo
      /\ callbacks' = callbacks /\ jobs' = jobs /\ work' = work /\ job' = job /\ told' = told
      /\ stream' = stream /\ from' = from /\ snap' = snap /\ regAt' = regAt /\ sent' = sent
      /\ again' = again /\ broken' = broken
  BY Zenon DEF CloseStore, cbVars, putVars, workVars, streamVars, sendVars
<1>2. CBTypes'
  BY <1>0, <1>1, Zenon DEF CBTypes, Jobs, Callback
<1>3. GivenUp'
  BY <1>0, <1>1, Zenon DEF GivenUp, Jobs, Callback
<1>4. \A cb, r : OnItsWay(cb, r)' <=> OnItsWay(cb, r)
  BY <1>1, Zenon DEF OnItsWay
<1>5. StreamsKnown' /\ CursorFirst' /\ StoredIsAnnounced' /\ LiveStreamComplete' /\ TwiceAtHandover'
  BY <1>1, <1>4, MovingJobs, Zenon
<1>6. JobsKnown' /\ OneJob'
  <2>1. (\A cb : Opened(cb) => Opened(cb)') /\ \A cb, r : NotSent(cb, r) => NotSent(cb, r)'
    BY <1>1, Zenon DEF Opened, NotSent
  <2> QED
    BY <1>1, <2>1, NoNewJobs, Zenon
<1> QED
  BY <1>2, <1>3, <1>5, <1>6, Zenon DEF CBInv

\* Nothing is stored and no stream is open.
LEMMA CBInitInv == CBInit => CBInv
<1> SUFFICES ASSUME CBInit PROVE CBInv
  OBVIOUS
<1>1. CBTypes
  BY CBInitTypes, Zenon
<1>2. /\ stored = 1 /\ jobs = <<>> /\ callbacks = {} /\ told = {1}
      /\ \A q \in Putter : put[q] = "idle"
      /\ \A w \in Worker : work[w] = "idle"
  BY Zenon DEF CBInit
<1>3. \A s \in Stream : stream[s] = "none" /\ snap[s] = 0 /\ sent[s] = {} /\ again[s] = {} /\ ~broken[s]
  BY Zenon DEF CBInit
<1>4. /\ "idle" # "stored" /\ "idle" # "sending" /\ "idle" # "run"
      /\ "idle" \notin {"run", "remove", "done"} /\ "idle" \notin {"remove", "done"}
      /\ "none" # "cursor" /\ "none" # "register" /\ "none" # "live"
  OBVIOUS
<1>5. 1 .. Len(jobs) = {} /\ 0 <= stored /\ \A r \in 1 .. stored : r = 1
  BY <1>2
<1>6. \A x : ~Queued(x) /\ ~Running(x)
  BY <1>2, <1>4, <1>5, Zenon DEF Queued, Running
<1>7. \A q \in Putter : \A cb : ~Owes(q, cb)
  BY <1>2, <1>4, Zenon DEF Owes
<1>8. JobsKnown
  BY <1>2, <1>4, <1>6, Zenon DEF JobsKnown
<1>9. StreamsKnown
  BY <1>2, <1>3, <1>4, <1>5, Zenon DEF StreamsKnown
<1>10. GivenUp /\ CursorFirst
  BY <1>2, <1>3, <1>4, Zenon DEF GivenUp, CursorFirst
<1>11. OneJob
  BY <1>2, <1>4, <1>5, <1>6, <1>7, Zenon
     DEF OneJob, PuttersApart, QueueApart, WorkersApart, OwedOnce, TakenOnce
<1>12. StoredIsAnnounced
  BY <1>2, <1>5, Zenon DEF StoredIsAnnounced
<1>13. LiveStreamComplete /\ TwiceAtHandover
  BY <1>3, <1>4, Zenon DEF LiveStreamComplete, TwiceAtHandover
<1> QED
  BY <1>1, <1>8, <1>9, <1>10, <1>11, <1>12, <1>13, Zenon DEF CBInv

\* Every step keeps the invariant.
LEMMA CBStep == CBInv /\ [CBNext]_cbVars => CBInv'
<1> SUFFICES ASSUME CBInv, [CBNext]_cbVars PROVE CBInv'
  OBVIOUS
<1>1. ASSUME NEW p \in Putter,
             PutStore(p) \/ PutLock(p) \/ PutEnds(p) \/ \E cb \in Stream \cup {"chainstore"} : PutJob(p, cb)
      PROVE  CBInv'
  BY <1>1, PutStoreKeeps, PutLockKeeps, PutEndsKeeps, PutJobKeeps, Zenon DEF Callback
<1>2. ASSUME NEW w \in Worker, WorkerTake(w) \/ WorkerStop(w) \/ TellAggregator(w)
      PROVE  CBInv'
  BY <1>2, WorkerTakeKeeps, WorkerStopKeeps, TellAggregatorKeeps, Zenon
<1>3. ASSUME NEW w \in Worker, SendWorks(w) \/ SendFails(w) \/ WorkerRemove(w) \/ WorkerDone(w)
      PROVE  CBInv'
  BY <1>3, SendWorksKeeps, SendFailsKeeps, WorkerRemoveKeeps, WorkerDoneKeeps, Zenon
<1>4. ASSUME NEW s \in Stream,
             \/ \E r \in 0 .. LastRound : StreamStart(s, r)
             \/ StreamCursor(s) \/ StreamRegister(s) \/ PeerGone(s) \/ StreamEnds(s) \/ StreamRemove(s)
      PROVE  CBInv'
  BY <1>4, StreamStartKeeps, StreamCursorKeeps, StreamRegisterKeeps, PeerGoneKeeps, StreamEndsKeeps,
     StreamRemoveKeeps, Zenon
<1> QED
  BY <1>1, <1>2, <1>3, <1>4, NothingMoves, Zenon DEF CBNext

\* No round is lost between CallbackStore.Put and the callback of the chain store,
\* whatever the streams, their peers and the workers do: the aggregation loop has been
\* told of every stored round, or its job is with a putter, in the queue or with a worker.
THEOREM StoredAnnounced == CBSpec => []StoredIsAnnounced
<1>1. CBInv => StoredIsAnnounced
  BY Zenon DEF CBInv
<1> QED
  BY CBInitInv, CBStep, <1>1, PTL DEF CBSpec

\* SyncChain, PublicRandStream and the proxy send a live peer every round it is due, for
\* any number of putters, workers and streams: a stream whose address is its own stays
\* registered, misses only what was stored between its cursor and its registration, and
\* repeats only what its cursor had seen.
THEOREM StreamsWhole == CBSpec => []StreamsAreWhole
<1>1. CBInv => StreamsAreWhole
  BY Zenon DEF CBInv, StreamsAreWhole
<1> QED
  BY CBInitInv, CBStep, <1>1, PTL DEF CBSpec

\* A worker stops only when the store is closed.
StoppedByClose == \A w \in Worker : work[w] = "stopped" => storeClosed

\* Every step keeps that.
LEMMA StoppedStep == CBTypes /\ StoppedByClose /\ [CBNext]_cbVars => StoppedByClose'
<1> SUFFICES ASSUME CBTypes, StoppedByClose, [CBNext]_cbVars PROVE StoppedByClose'
  OBVIOUS
<1>1. work \in [Worker -> {"idle", "run", "remove", "done", "stopped"}]
  BY Zenon DEF CBTypes
<1>2. /\ "idle" # "stopped" /\ "run" # "stopped" /\ "remove" # "stopped" /\ "done" # "stopped"
  OBVIOUS
<1>3. ASSUME work' = work, storeClosed => storeClosed' PROVE StoppedByClose'
  BY <1>3, Zenon DEF StoppedByClose
<1>4. ASSUME NEW w \in Worker, NEW a, work' = [work EXCEPT ![w] = a], storeClosed' = storeClosed,
             a # "stopped" \/ storeClosed
      PROVE  StoppedByClose'
  <2>1. work'[w] = a /\ \A v \in Worker : v # w => work'[v] = work[v]
    BY <1>1, <1>4, Zenon
  <2> QED
    BY <1>4, <2>1, Zenon DEF StoppedByClose
<1>5. ASSUME NEW p \in Putter,
             PutStore(p) \/ PutLock(p) \/ PutEnds(p) \/ \E cb \in Stream \cup {"chainstore"} : PutJob(p, cb)
      PROVE  StoppedByClose'
  BY <1>3, <1>5, Zenon DEF PutStore, PutLock, PutEnds, PutJob, workVars
<1>6. ASSUME NEW w \in Worker, WorkerTake(w) \/ TellAggregator(w) \/ SendWorks(w) \/ WorkerRemove(w) \/ WorkerDone(w)
      PROVE  StoppedByClose'
  <2>1. storeClosed' = storeClosed
    BY <1>6, Zenon DEF WorkerTake, TellAggregator, SendWorks, WorkerRemove, WorkerDone
  <2>2. \E a : a # "stopped" /\ work' = [work EXCEPT ![w] = a]
    BY <1>2, <1>6, Zenon DEF WorkerTake, TellAggregator, SendWorks, WorkerRemove, WorkerDone
  <2> QED
    BY <1>4, <2>1, <2>2, Zenon
<1>7. ASSUME NEW w \in Worker, WorkerStop(w) PROVE StoppedByClose'
  BY <1>4, <1>7, Zenon DEF WorkerStop
<1>8. ASSUME NEW w \in Worker, SendFails(w) PROVE StoppedByClose'
  <2>1. PICK a : work' = [work EXCEPT ![w] = a] /\ a \in {"done", "remove"}
    BY <1>8, Zenon DEF SendFails
  <2>2. a # "stopped"
    BY <2>1
  <2> QED
    BY <1>4, <1>8, <2>1, <2>2, Zenon DEF SendFails
<1>9. ASSUME NEW s \in Stream,
             \/ \E r \in 0 .. LastRound : StreamStart(s, r)
             \/ StreamCursor(s) \/ StreamRegister(s) \/ PeerGone(s) \/ StreamEnds(s) \/ StreamRemove(s)
      PROVE  StoppedByClose'
  <2>1. CASE \E r \in 0 .. LastRound : StreamStart(s, r)
    <3>1. work' = work /\ storeClosed' = storeClosed
      BY <2>1, Zenon DEF StreamStart, workVars
    <3> QED
      BY <1>3, <3>1, Zenon
  <2>2. CASE StreamCursor(s)
    BY <1>3, <2>2, Zenon DEF StreamCursor, workVars
  <2>3. CASE StreamRegister(s) \/ PeerGone(s) \/ StreamEnds(s) \/ StreamRemove(s)
    BY <1>3, <2>3, Zenon DEF StreamRegister, PeerGone, StreamEnds, StreamRemove, workVars
  <2> QED
    BY <1>9, <2>1, <2>2, <2>3, Zenon
<1>10. ASSUME CloseStore \/ UNCHANGED cbVars PROVE StoppedByClose'
  <2>1. work' = work /\ (storeClosed' = storeClosed \/ storeClosed' = TRUE)
    BY <1>10, Zenon DEF CloseStore, cbVars, workVars
  <2>2. storeClosed => storeClosed'
    BY <2>1, Zenon
  <2> QED
    BY <1>3, <2>1, <2>2, Zenon
<1> QED
  BY <1>5, <1>6, <1>7, <1>8, <1>9, <1>10, Zenon DEF CBNext

\* While no peer has gone and the store is open, a Put that waits for room in the queue
\* with the mutex in its hands waits for a worker that is free or runs a callback: the
\* workers that wait for the mutex or for a stream's channel are those of lost peers.
THEOREM PutsGoOn == CBSpec => []PutNotStuck
<1>1. CBInit => StoppedByClose
  <2>1. "idle" # "stopped"
    OBVIOUS
  <2> QED
    BY <2>1, Zenon DEF CBInit, StoppedByClose
<1>2. CBInv => CBTypes
  BY Zenon DEF CBInv
<1>3. CBInv /\ StoppedByClose => PutNotStuck
  <2> SUFFICES ASSUME CBInv, StoppedByClose,
                      ~(\E w \in Worker : work[w] \in {"idle", "run"}), ~storeClosed
               PROVE  \E s \in Stream : broken[s]
    BY Zenon DEF PutNotStuck
  <2>1. PICK w \in Worker : TRUE
    BY CallbackAssumption, Zenon
  <2>2. work[w] \in {"idle", "run", "remove", "done", "stopped"}
    BY Zenon DEF CBInv, CBTypes
  <2>3. work[w] \notin {"idle", "run"} /\ work[w] # "stopped"
    BY Zenon DEF StoppedByClose
  <2>4. work[w] \in {"remove", "done"}
    BY <2>2, <2>3
  <2> QED
    BY <2>4, Zenon DEF CBInv, GivenUp
<1> QED
  BY CBInitInv, CBStep, StoppedStep, <1>1, <1>2, <1>3, PTL DEF CBSpec
===============================================================================
