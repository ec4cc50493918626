---------------------------- MODULE DaemonProofs -----------------------------
(***************************************************************************)
(* Proofs about a daemon. The clock arithmetic of chain/time.go that its   *)
(* ticks come from, for every period, genesis time and clock value. Its    *)
(* life cycle (module Daemon): the share and the group of a DKG end up     *)
(* together, in memory and on disk, and a follow that runs can be          *)
(* cancelled, for any commands, follows and number of DKGs and crashes.    *)
(***************************************************************************)
EXTENDS ChainTime, Daemon, TLAPS, WellFoundedInduction
-----------------------------------------------------------------------------
(* Follow requests. *)

Cancels == {"info", "open", "sync"}

FollowInv ==
  /\ follow \in [Follow -> {"off", "end"} \cup Cancels]
  /\ syncerCancel \in Follow \cup {None}
  /\ RunningFollowIsKnown

\* No follow runs yet.
LEMMA FollowInitInv == DaemonInit => FollowInv
BY DaemonAssumption, Zenon DEF DaemonInit, FollowInv, RunningFollowIsKnown, Cancels

\* Every step keeps the follows known.
LEMMA FollowKept == FollowInv /\ [DaemonNext]_daemonVars => FollowInv'
<1> SUFFICES ASSUME FollowInv, [DaemonNext]_daemonVars PROVE FollowInv'
    OBVIOUS
<1> USE DaemonAssumption DEF Cancels
<1> DEFINE Same == UNCHANGED followVars
<1>0. ASSUME Same PROVE FollowInv'
    BY <1>0 DEF FollowInv, RunningFollowIsKnown, followVars
<1>1. ASSUME Fresh PROVE FollowInv'
    BY <1>1 DEF FollowInv, RunningFollowIsKnown, Fresh
<1>2. ASSUME NEW f \in Follow, FollowMove(f) PROVE FollowInv'
  <2>1. CASE FollowStart(f)
    BY <2>1 DEF FollowStart, FollowInv, RunningFollowIsKnown
  <2>2. CASE FollowInfo(f)
    BY <2>2 DEF FollowInfo, FollowInv, RunningFollowIsKnown
  <2>3. CASE FollowOpens(f)
    BY <2>3 DEF FollowOpens, FollowInv, RunningFollowIsKnown
  <2>4. CASE FollowReturns(f)
    BY <2>4 DEF FollowReturns, FollowInv, RunningFollowIsKnown
  <2>5. CASE FollowQuits(f)
    BY <2>5 DEF FollowQuits, FollowInv, RunningFollowIsKnown
  <2>6. CASE FollowEnds(f)
    BY <2>6 DEF FollowEnds, FollowInv, RunningFollowIsKnown
  <2> QED
    BY <1>2, <2>1, <2>2, <2>3, <2>4, <2>5, <2>6, Zenon DEF FollowMove
<1>3. ASSUME NEW t \in Starter, BeaconStep(t) PROVE FollowInv'
  <2>1. CASE BeaconOpens(t)
    BY <2>1 DEF BeaconOpens, FollowInv, RunningFollowIsKnown
  <2>2. CASE NewBeacon(t) \/ BeaconStarts(t)
    BY <2>2, <1>0, Zenon DEF NewBeacon, BeaconStarts
  <2> QED
    BY <1>3, <2>1, <2>2, Zenon DEF BeaconStep
<1>4. ASSUME NEW t \in Task, TaskStep(t) PROVE FollowInv'
  <2>1. CASE \/ InitDKG(t) \/ InitReshare(t) \/ RunDKG(t) \/ WaitDKG(t)
             \/ DkgEnds(t) \/ SaveShareFails(t) \/ SaveShareWrite(t)
    BY <2>1, <1>0, Zenon DEF InitDKG, InitReshare, Begin, RunDKG, WaitDKG, DkgEnds,
       SaveShareFails, SaveShareWrite
  <2>2. CASE \/ SaveGroupOpen(t) \/ SaveGroupWrite(t) \/ SaveFails(t) \/ DkgFails(t)
             \/ DkgDone(t) \/ SetupFails(t) \/ ReshareCheck(t)
    BY <2>2, <1>0, Zenon DEF SaveGroupOpen, SaveGroupWrite, SaveFails, DkgFails,
       DkgDone, SetupFails, ReshareCheck, Goto
  <2>3. CASE SaveShareOpen(t)
    BY <2>3, <1>0, <1>1, Zenon DEF SaveShareOpen, Panics, Dies
  <2>4. CASE Transition(t)
    BY <2>4, <1>0, <1>1, Zenon DEF Transition, Panics, Dies, Goto
  <2> QED
    BY <1>4, <2>1, <2>2, <2>3, <2>4, Zenon DEF TaskStep
<1>5. CASE StartCmd \/ StopBeacon \/ Reset
    BY <1>5, <1>0, Zenon DEF StartCmd, StopBeacon, Reset
<1>6. CASE Crash \/ Stop
    BY <1>6, <1>1, Zenon DEF Crash, Stop, Dies
<1>7. CASE UNCHANGED daemonVars
    BY <1>7, <1>0, Zenon DEF daemonVars, followVars
<1> QED
    BY <1>2, <1>3, <1>4, <1>5, <1>6, <1>7, Zenon DEF DaemonNext

(***************************************************************************)
(* Whatever commands, follows and crashes overlap, a follow that runs and  *)
(* was not cancelled is the one whose cancel function d holds              *)
(* (StartFollowChain, newBeacon).                                          *)
(***************************************************************************)
THEOREM FollowsAreKnown == DaemonSpec => []RunningFollowIsKnown
<1>1. FollowInv => RunningFollowIsKnown
    BY Zenon DEF FollowInv
<1> QED
    BY <1>1, FollowInitInv, FollowKept, PTL DEF DaemonSpec

-----------------------------------------------------------------------------
(* The places of a command, and who holds the lock. *)

Place == {"idle", "setup", "checked", "wait", "dkg", "took", "err", "share", "shared",
          "group", "saved", "nb", "open", "start"}
Saving == {"share", "shared", "group"}

\* What the proofs need to know of the types.
DaemonTypes ==
  /\ DaemonTypeOK
  /\ pc \in [Starter -> Place]
  /\ target \in [Task -> 0..MaxEpoch] /\ on \in [Task -> 0..MaxEpoch]
  /\ epoch \in 0..MaxEpoch

\* A command that saves or opens the database holds d.state, and while it saves
\* there is a dkgInfo.
LockHeld == \A t \in Starter :
  /\ pc[t] \in Saving \cup {"open"} => lock = t /\ proc = "up"
  /\ pc[t] \in Saving => dkgInfo \in Task

PlaceInv == DaemonTypes /\ LockHeld

\* The daemon is off.
LEMMA PlaceInitInv == DaemonInit => PlaceInv
<1> USE DaemonAssumption
<1> SUFFICES ASSUME DaemonInit PROVE PlaceInv
    OBVIOUS
<1>1. DaemonTypeOK
    BY DEF DaemonInit, DaemonTypeOK, Torn
<1>2. pc \in [Starter -> Place] /\ LockHeld
    BY Zenon DEF DaemonInit, Place, LockHeld, Saving
<1>3. 0 \in 0..MaxEpoch
    OBVIOUS
<1> QED
    BY <1>1, <1>2, <1>3, Zenon DEF DaemonInit, PlaceInv, DaemonTypes

\* The process dies, and nothing is left in memory.
LEMMA DiesPlace == PlaceInv /\ Dies /\ UNCHANGED <<shareF, groupF, epoch>> => PlaceInv'
<1> USE DaemonAssumption
<1> SUFFICES ASSUME PlaceInv, Dies, UNCHANGED <<shareF, groupF, epoch>> PROVE PlaceInv'
    OBVIOUS
<1>1. DaemonTypeOK'
    BY DEF Dies, Fresh, PlaceInv, DaemonTypes, DaemonTypeOK, Torn
<1>2. pc' \in [Starter -> Place] /\ LockHeld'
    BY Zenon DEF Dies, Place, LockHeld, Saving
<1>3. 0 \in 0..MaxEpoch
    OBVIOUS
<1>4. target' \in [Task -> 0..MaxEpoch] /\ on' \in [Task -> 0..MaxEpoch]
    BY <1>3, Zenon DEF Dies, Fresh
<1> QED
    BY <1>1, <1>2, <1>4, Zenon DEF PlaceInv, DaemonTypes

\* A step of a command keeps types and lock.
LEMMA TaskPlace == ASSUME PlaceInv, NEW t \in Task, TaskStep(t) PROVE PlaceInv'
<1> USE DaemonAssumption
<1> t \in Starter
    BY Zenon DEF Starter
<1>0. /\ DaemonTypes /\ LockHeld /\ DaemonTypeOK
      /\ pc \in [Starter -> Place]
      /\ target \in [Task -> 0..MaxEpoch] /\ on \in [Task -> 0..MaxEpoch]
      /\ epoch \in 0..MaxEpoch
    BY Zenon DEF PlaceInv, DaemonTypes
<1>a. ASSUME NEW to \in Place, pc' = [pc EXCEPT ![t] = to] PROVE pc' \in [Starter -> Place]
    BY <1>0, <1>a, Zenon
<1>b. ASSUME NEW to \in Place \ (Saving \cup {"open"}), pc' = [pc EXCEPT ![t] = to],
             lock' = lock, dkgInfo' = dkgInfo \/ lock = None, proc' = proc
      PROVE LockHeld'
    BY <1>0, <1>b DEF LockHeld, Saving, Place
<1>c. ASSUME NEW to \in Place, pc' = [pc EXCEPT ![t] = to], lock = None, lock' = t,
             dkgInfo' \in Task, proc' = "up"
      PROVE LockHeld'
    BY <1>0, <1>c DEF LockHeld, Saving
<1>d. ASSUME NEW to \in Place \ (Saving \cup {"open"}), pc' = [pc EXCEPT ![t] = to],
             lock = t
      PROVE LockHeld'
    BY <1>0, <1>d DEF LockHeld, Saving
<1> DEFINE Kept == /\ target' = target /\ on' = on /\ epoch' = epoch
<1>1. CASE InitDKG(t) \/ InitReshare(t)
  <2>1. PICK k : Begin(t, k)
    BY <1>1, Zenon DEF InitDKG, InitReshare
  <2>2. pc' \in [Starter -> Place] /\ LockHeld'
    BY <2>1, <1>a, <1>b, Zenon DEF Begin, Place, Saving
  <2>3. DaemonTypeOK'
    BY <1>0, <2>1, Zenon DEF Begin, DaemonTypeOK, diskVars, followVars
  <2>4. epoch < MaxEpoch /\ epoch' = epoch + 1 /\ target' = [target EXCEPT ![t] = epoch + 1]
        /\ on' = on
    BY <2>1, Zenon DEF Begin
  <2>5. epoch' \in 0..MaxEpoch /\ target' \in [Task -> 0..MaxEpoch]
    BY <1>0, <2>4
  <2> QED
    BY <1>0, <2>2, <2>3, <2>4, <2>5, Zenon DEF PlaceInv, DaemonTypes
<1>2. CASE SetupFails(t) \/ ReshareCheck(t)
  <2>1. PICK to \in {"idle", "checked"} : Goto(t, to)
    BY <1>2, Zenon DEF SetupFails, ReshareCheck
  <2>2. pc' \in [Starter -> Place] /\ LockHeld'
    BY <2>1, <1>a, <1>b, Zenon DEF Goto, Place, Saving
  <2>3. DaemonTypeOK' /\ Kept
    BY <1>0, <2>1, Zenon DEF Goto, DaemonTypeOK, diskVars, followVars, counters
  <2> QED
    BY <1>0, <2>2, <2>3, Zenon DEF PlaceInv, DaemonTypes
<1>3. CASE RunDKG(t)
  <2>2. pc' \in [Starter -> Place] /\ LockHeld'
    BY <1>3, <1>a, <1>b, Zenon DEF RunDKG, Unlocked, Place, Saving
  <2>3. DaemonTypeOK'
    BY <1>0, <1>3 DEF RunDKG, DaemonTypeOK, diskVars, followVars
  <2>4. Kept
    BY <1>3, Zenon DEF RunDKG, counters
  <2> QED
    BY <1>0, <2>2, <2>3, <2>4, Zenon DEF PlaceInv, DaemonTypes
<1>4. CASE WaitDKG(t)
  <2>1. /\ pc' = [pc EXCEPT ![t] = IF dkgInfo = None THEN "err" ELSE "dkg"]
        /\ on' = [on EXCEPT ![t] = IF dkgInfo = None THEN 0 ELSE target[dkgInfo]]
        /\ lock' = lock /\ dkgInfo' = dkgInfo /\ target' = target /\ epoch' = epoch
        /\ proc' = proc
    BY <1>4, Zenon DEF WaitDKG, counters
  <2>2. pc' \in [Starter -> Place] /\ LockHeld'
    BY <2>1, <1>a, <1>b, Zenon DEF Place, Saving
  <2>3. DaemonTypeOK'
    BY <1>0, <1>4, Zenon DEF WaitDKG, DaemonTypeOK, diskVars, followVars
  <2>4. dkgInfo \in Task \cup {None}
    BY <1>0, Zenon DEF DaemonTypeOK
  <2>5. on' \in [Task -> 0..MaxEpoch]
    BY <1>0, <2>1, <2>4
  <2> QED
    BY <1>0, <2>1, <2>2, <2>3, <2>5, Zenon DEF PlaceInv, DaemonTypes
<1>5. CASE DkgEnds(t)
  <2>1. PICK to \in {"took", "err"} : pc' = [pc EXCEPT ![t] = to]
    BY <1>5, Zenon DEF DkgEnds
  <2>2. pc' \in [Starter -> Place] /\ LockHeld'
    BY <1>5, <2>1, <1>a, <1>b, Zenon DEF DkgEnds, Place, Saving
  <2>3. DaemonTypeOK' /\ Kept
    BY <1>0, <1>5, Zenon DEF DkgEnds, DaemonTypeOK, diskVars, followVars, counters
  <2> QED
    BY <1>0, <2>2, <2>3, Zenon DEF PlaceInv, DaemonTypes
<1>6. CASE SaveShareOpen(t)
  <2>1. CASE dkgInfo = None
    BY <1>6, <2>1, DiesPlace, Zenon DEF SaveShareOpen, Panics
  <2>2. CASE dkgInfo # None
    <3>1. /\ lock = None /\ lock' = t /\ pc' = [pc EXCEPT ![t] = "share"] /\ proc = "up"
          /\ share' = on[t] /\ shareF' = Torn
          /\ UNCHANGED <<proc, groupF, db, inGroup, dkgInfo, boards, beacon, syncerCancel>>
      BY <1>6, <2>2, Zenon DEF SaveShareOpen, Unlocked, followVars
    <3>2. Kept
      BY <1>6, <2>2, Zenon DEF SaveShareOpen, counters
    <3>0. dkgInfo' \in Task
      BY <1>0, <2>2, <3>1, Zenon DEF DaemonTypeOK
    <3>3. pc' \in [Starter -> Place] /\ LockHeld'
      BY <3>0, <3>1, <1>a, <1>c, Zenon DEF Place
    <3>4. DaemonTypeOK'
      BY <1>0, <3>1 DEF DaemonTypeOK, Torn, Starter
    <3> QED
      BY <1>0, <3>2, <3>3, <3>4, Zenon DEF PlaceInv, DaemonTypes
  <2> QED
    BY <2>1, <2>2, Zenon
<1>7. CASE SaveShareFails(t)
  <2>1. share' = on[t] /\ pc' = [pc EXCEPT ![t] = "err"]
        /\ UNCHANGED <<proc, shareF, groupF, db, lock, inGroup, dkgInfo, boards, beacon, syncerCancel>>
    BY <1>7, Zenon DEF SaveShareFails, diskVars, followVars
  <2>2. Kept
    BY <1>7, Zenon DEF SaveShareFails, counters
  <2>3. pc' \in [Starter -> Place] /\ LockHeld'
    BY <2>1, <1>a, <1>b, Zenon DEF Place, Saving
  <2>4. DaemonTypeOK'
    BY <1>0, <2>1 DEF DaemonTypeOK
  <2> QED
    BY <1>0, <2>2, <2>3, <2>4, Zenon DEF PlaceInv, DaemonTypes
<1>8. CASE SaveShareWrite(t)
  <2>1. /\ pc[t] = "share" /\ pc' = [pc EXCEPT ![t] = "shared"]
        /\ shareF' = IF shareF = 0 THEN 0 ELSE share
        /\ UNCHANGED <<proc, groupF, db, lock, share, inGroup, dkgInfo, boards, beacon, syncerCancel>>
    BY <1>8, Zenon DEF SaveShareWrite, At, followVars
  <2>2. Kept
    BY <1>8, Zenon DEF SaveShareWrite, counters
  <2>3. pc' \in [Starter -> Place]
    BY <2>1, <1>a, Zenon DEF Place
  <2>4. LockHeld'
    BY <1>0, <2>1 DEF LockHeld, Saving
  <2>5. share \in 0..MaxEpoch
    BY <1>0 DEF DaemonTypeOK
  <2>6. shareF' \in 0..Torn
    BY <2>1, <2>5 DEF Torn
  <2>7. DaemonTypeOK'
    BY <1>0, <2>1, <2>6 DEF DaemonTypeOK
  <2> QED
    BY <1>0, <2>2, <2>3, <2>4, <2>7, Zenon DEF PlaceInv, DaemonTypes
<1>9. CASE SaveGroupOpen(t)
  <2>1. /\ pc[t] = "shared" /\ pc' = [pc EXCEPT ![t] = "group"]
        /\ inGroup' = target[dkgInfo] /\ groupF' = Torn
        /\ UNCHANGED <<proc, shareF, db, lock, share, dkgInfo, boards, beacon, syncerCancel>>
    BY <1>9, Zenon DEF SaveGroupOpen, At, followVars
  <2>2. Kept
    BY <1>9, Zenon DEF SaveGroupOpen, counters
  <2>3. pc' \in [Starter -> Place]
    BY <2>1, <1>a, Zenon DEF Place
  <2>4. LockHeld'
    BY <1>0, <2>1 DEF LockHeld, Saving
  <2>5. dkgInfo \in Task
    BY <1>0, <2>1 DEF LockHeld, Saving
  <2>6. target[dkgInfo] \in 0..MaxEpoch
    BY <1>0, <2>5, Zenon
  <2>7. DaemonTypeOK'
    BY <1>0, <2>1, <2>6 DEF DaemonTypeOK, Torn
  <2> QED
    BY <1>0, <2>2, <2>3, <2>4, <2>7, Zenon DEF PlaceInv, DaemonTypes
<1>10. CASE SaveGroupWrite(t)
  <2>1. /\ pc[t] = "group" /\ pc' = [pc EXCEPT ![t] = "saved"]
        /\ groupF' = IF groupF = 0 THEN 0 ELSE inGroup
        /\ boards' = boards \ {dkgInfo} /\ dkgInfo' = None /\ lock' = None
        /\ UNCHANGED <<proc, shareF, db, share, inGroup, beacon, syncerCancel>>
    BY <1>10, Zenon DEF SaveGroupWrite, At, followVars
  <2>2. Kept
    BY <1>10, Zenon DEF SaveGroupWrite, counters
  <2>3. lock = t
    BY <1>0, <2>1 DEF LockHeld, Saving
  <2>4. pc' \in [Starter -> Place] /\ LockHeld'
    BY <2>1, <2>3, <1>a, <1>d, Zenon DEF Place, Saving
  <2>5. inGroup \in 0..MaxEpoch
    BY <1>0 DEF DaemonTypeOK
  <2>6. groupF' \in 0..Torn
    BY <2>1, <2>5 DEF Torn
  <2>7. DaemonTypeOK'
    BY <1>0, <2>1, <2>6 DEF DaemonTypeOK
  <2> QED
    BY <1>0, <2>2, <2>4, <2>7, Zenon DEF PlaceInv, DaemonTypes
<1>11. CASE SaveFails(t)
  <2>1. /\ pc[t] \in Saving /\ pc' = [pc EXCEPT ![t] = "err"] /\ lock' = None
        /\ inGroup' = inGroup \/ inGroup' = target[dkgInfo]
        /\ UNCHANGED <<proc, shareF, groupF, db, share, dkgInfo, boards, beacon, syncerCancel>>
    BY <1>11, Zenon DEF SaveFails, At, followVars, Saving
  <2>2. Kept
    BY <1>11, Zenon DEF SaveFails, counters
  <2>3. lock = t /\ dkgInfo \in Task
    BY <1>0, <2>1, Zenon DEF LockHeld
  <2>4. pc' \in [Starter -> Place] /\ LockHeld'
    BY <2>1, <2>3, <1>a, <1>d, Zenon DEF Place, Saving
  <2>5. target[dkgInfo] \in 0..MaxEpoch
    BY <1>0, <2>3, Zenon
  <2>6. DaemonTypeOK'
    BY <1>0, <2>1, <2>5 DEF DaemonTypeOK
  <2> QED
    BY <1>0, <2>2, <2>4, <2>6, Zenon DEF PlaceInv, DaemonTypes
<1>12. CASE DkgFails(t) \/ DkgDone(t)
  <2>1. PICK to \in {"idle", "nb"} : pc' = [pc EXCEPT ![t] = to]
    BY <1>12, Zenon DEF DkgFails, DkgDone
  <2>2. /\ lock = None /\ dkgInfo' \in {dkgInfo, None} /\ boards' \in {boards, boards \ {dkgInfo}}
        /\ UNCHANGED <<proc, shareF, groupF, db, lock, share, inGroup, beacon, syncerCancel>>
    BY <1>12, Zenon DEF DkgFails, DkgDone, CleanupDKG, Unlocked, diskVars, followVars
  <2>3. Kept
    BY <1>12, Zenon DEF DkgFails, DkgDone, counters
  <2>4. pc' \in [Starter -> Place] /\ LockHeld'
    BY <2>1, <2>2, <1>a, <1>b, Zenon DEF Place, Saving
  <2>5. DaemonTypeOK'
    BY <1>0, <2>2 DEF DaemonTypeOK
  <2> QED
    BY <1>0, <2>3, <2>4, <2>5, Zenon DEF PlaceInv, DaemonTypes
<1>13. CASE Transition(t)
  <2>1. CASE Panics("beacon")
    BY <2>1, DiesPlace, Zenon DEF Panics
  <2>2. CASE \E to \in {"idle", "nb"} : Goto(t, to)
    <3>1. PICK to \in {"idle", "nb"} : Goto(t, to)
      BY <2>2, Zenon
    <3>2. pc' \in [Starter -> Place] /\ LockHeld'
      BY <3>1, <1>a, <1>b, Zenon DEF Goto, Place, Saving
    <3>3. DaemonTypeOK' /\ Kept
      BY <1>0, <3>1, Zenon DEF Goto, DaemonTypeOK, diskVars, followVars, counters
    <3> QED
      BY <1>0, <3>2, <3>3, Zenon DEF PlaceInv, DaemonTypes
  <2> QED
    BY <1>13, <2>1, <2>2, Zenon DEF Transition
<1> QED
  BY <1>1, <1>2, <1>3, <1>4, <1>5, <1>6, <1>7, <1>8, <1>9, <1>10, <1>11, <1>12, <1>13,
     Zenon DEF TaskStep

\* A step of the daemon, of the disk or of a follow does.
LEMMA OtherPlace ==
  ASSUME PlaceInv,
         \/ StartCmd \/ Crash \/ StopBeacon \/ Stop \/ Reset
         \/ \E t \in Starter : BeaconStep(t)
         \/ \E f \in Follow : FollowMove(f)
  PROVE  PlaceInv'
<1> USE DaemonAssumption
<1>0. /\ DaemonTypes /\ LockHeld /\ DaemonTypeOK
      /\ pc \in [Starter -> Place]
      /\ target \in [Task -> 0..MaxEpoch] /\ on \in [Task -> 0..MaxEpoch]
      /\ epoch \in 0..MaxEpoch
    BY Zenon DEF PlaceInv, DaemonTypes
<1> DEFINE Kept == target' = target /\ on' = on /\ epoch' = epoch
           Locks == pc' = pc /\ lock' = lock /\ dkgInfo' = dkgInfo /\ proc' = proc
<1>a. ASSUME Locks PROVE pc' \in [Starter -> Place] /\ LockHeld'
    BY <1>a, <1>0, Zenon DEF LockHeld
<1>1. CASE StartCmd
  <2>1. /\ proc' = "up" /\ lock' = lock /\ dkgInfo' = dkgInfo
        /\ pc' \in {pc, [pc EXCEPT ![Boot] = "nb"]}
        /\ \/ Loads(groupF) /\ Loads(shareF) /\ inGroup' = groupF /\ share' = shareF
           \/ inGroup' = inGroup /\ share' = share
        /\ UNCHANGED <<shareF, groupF, db, boards, beacon, syncerCancel>>
    BY <1>1, Zenon DEF StartCmd, followVars
  <2>2. Kept
    BY <1>1, Zenon DEF StartCmd
  <2>3. pc' \in [Starter -> Place]
    BY <1>0, <2>1 DEF Place
  <2>4. LockHeld'
    BY <1>0, <2>1 DEF LockHeld, Saving
  <2>5. {share', inGroup'} \subseteq 0..MaxEpoch
    BY <1>0, <2>1 DEF DaemonTypeOK, Loads
  <2>6. DaemonTypeOK'
    BY <1>0, <2>1, <2>5, Zenon DEF DaemonTypeOK
  <2> QED
    BY <1>0, <2>2, <2>3, <2>4, <2>6, Zenon DEF PlaceInv, DaemonTypes
<1>2. CASE Crash \/ Stop
    BY <1>2, DiesPlace, Zenon DEF Crash, Stop, counters
<1>3. CASE StopBeacon
  <2>1. DaemonTypeOK'
    BY <1>0, <1>3 DEF StopBeacon, DaemonTypeOK, diskVars, followVars
  <2>2. Kept /\ Locks
    BY <1>3, Zenon DEF StopBeacon, taskVars, counters
  <2> QED
    BY <1>0, <2>1, <2>2, <1>a, Zenon DEF PlaceInv, DaemonTypes
<1>4. CASE Reset
  <2>1. DaemonTypeOK'
    BY <1>0, <1>4 DEF Reset, DaemonTypeOK, Torn, followVars
  <2>2. Kept /\ Locks
    BY <1>4, Zenon DEF Reset, taskVars
  <2> QED
    BY <1>0, <2>1, <2>2, <1>a, Zenon DEF PlaceInv, DaemonTypes
<1>5. ASSUME NEW t \in Starter, BeaconStep(t) PROVE PlaceInv'
  <2>1. CASE NewBeacon(t)
    <3>1. DaemonTypeOK' /\ Kept
      BY <1>0, <2>1, Zenon DEF NewBeacon, DaemonTypeOK, diskVars, followVars, counters
    <3>2. /\ lock = None /\ lock' = t /\ pc' = [pc EXCEPT ![t] = "open"] /\ dkgInfo' = dkgInfo
          /\ proc = "up" /\ proc' = proc
      BY <2>1, Zenon DEF NewBeacon, Unlocked
    <3>3. pc' \in [Starter -> Place] /\ LockHeld'
      BY <1>0, <3>2 DEF Place, LockHeld, Saving
    <3> QED
      BY <1>0, <3>1, <3>3, Zenon DEF PlaceInv, DaemonTypes
  <2>2. CASE BeaconOpens(t)
    <3>1. DaemonTypeOK'
      BY <1>0, <2>2 DEF BeaconOpens, DaemonTypeOK, diskVars
    <3>2. Kept
      BY <2>2, Zenon DEF BeaconOpens, counters
    <3>3. /\ pc[t] = "open" /\ lock' = None /\ pc' = [pc EXCEPT ![t] = "start"]
      BY <2>2, Zenon DEF BeaconOpens, At
    <3>4. pc' \in [Starter -> Place] /\ LockHeld'
      BY <1>0, <3>3 DEF Place, LockHeld, Saving
    <3> QED
      BY <1>0, <3>1, <3>2, <3>4, Zenon DEF PlaceInv, DaemonTypes
  <2>3. CASE BeaconStarts(t)
    <3>1. DaemonTypeOK' /\ Kept
      BY <1>0, <2>3, Zenon DEF BeaconStarts, DaemonTypeOK, diskVars, followVars, counters
    <3>2. /\ lock' = lock /\ pc' = [pc EXCEPT ![t] = "idle"] /\ dkgInfo' = dkgInfo /\ proc' = proc
      BY <2>3, Zenon DEF BeaconStarts
    <3>3. pc' \in [Starter -> Place] /\ LockHeld'
      BY <1>0, <3>2 DEF Place, LockHeld, Saving
    <3> QED
      BY <1>0, <3>1, <3>3, Zenon DEF PlaceInv, DaemonTypes
  <2> QED
    BY <1>5, <2>1, <2>2, <2>3, Zenon DEF BeaconStep
<1>6. ASSUME NEW f \in Follow, FollowMove(f) PROVE PlaceInv'
  <2>1. FollowStep
    BY <1>6, Zenon DEF FollowMove, FollowStart, FollowInfo, FollowOpens, FollowReturns,
       FollowQuits, FollowEnds
  <2>2. db' \in {db, f, None} /\ syncerCancel' \in {syncerCancel, f, None}
    BY <1>6, Zenon DEF FollowMove, FollowStart, FollowInfo, FollowOpens, FollowReturns,
       FollowQuits, FollowEnds
  <2>3. Kept /\ Locks
    BY <2>1, Zenon DEF FollowStep, taskVars, counters
  <2>4. DaemonTypeOK'
    BY <1>0, <2>1, <2>2 DEF FollowStep, DaemonTypeOK, diskVars
  <2> QED
    BY <1>0, <2>3, <2>4, <1>a, Zenon DEF PlaceInv, DaemonTypes
<1> QED
  BY <1>1, <1>2, <1>3, <1>4, <1>5, <1>6, Zenon

\* Every step keeps types and lock.
LEMMA PlaceKept == PlaceInv /\ [DaemonNext]_daemonVars => PlaceInv'
<1>1. ASSUME PlaceInv, UNCHANGED daemonVars PROVE PlaceInv'
    BY <1>1, Zenon DEF daemonVars, PlaceInv, DaemonTypes, DaemonTypeOK, LockHeld
<1> QED
    BY <1>1, TaskPlace, OtherPlace, Zenon DEF DaemonNext

-----------------------------------------------------------------------------
(* A command alone finds its own dkgInfo. *)

Before == {"wait", "dkg", "took"} \cup Saving

\* A command whose DKG ran alongside no other one has its dkgInfo in d.
OwnInfo == \A t \in Task : pc[t] \in Before /\ t \notin overlap => dkgInfo = t

\* Commands that run a DKG together know it.
TogetherOverlap ==
  \A t, u \in Task : t # u /\ pc[t] \in Before \cup {"saved"} /\ pc[u] \in Before \cup {"saved"}
                       => t \in overlap

AloneInv == OwnInfo /\ TogetherOverlap /\ AloneFindsDkgInfo

\* No command runs yet.
LEMMA AloneInitInv == DaemonInit => AloneInv
BY DaemonAssumption DEF DaemonInit, AloneInv, OwnInfo, TogetherOverlap, AloneFindsDkgInfo, Before, Saving,
   Starter, None

\* The process dies.
LEMMA DiesAlone ==
  ASSUME Dies, panicked' # "alone" PROVE AloneInv'
<1>1. \A t \in Task : pc'[t] = "idle"
    BY DEF Dies, Starter
<1> QED
    BY <1>1 DEF AloneInv, OwnInfo, TogetherOverlap, AloneFindsDkgInfo, Before, Saving

\* A step that brings no command into a DKG and takes no dkgInfo away.
LEMMA QuietAlone ==
  ASSUME AloneInv, panicked' = panicked, dkgInfo' = dkgInfo, overlap' = overlap,
         \A t \in Task : /\ pc'[t] \in Before => pc[t] \in Before
                         /\ pc'[t] = "saved" => pc[t] \in Before \cup {"saved"}
  PROVE  AloneInv'
BY DEF AloneInv, OwnInfo, TogetherOverlap, AloneFindsDkgInfo

\* A step of a command.
LEMMA TaskAlone == ASSUME PlaceInv, AloneInv, NEW t \in Task, TaskStep(t) PROVE AloneInv'
<1> USE DaemonAssumption
<1> t \in Starter
    BY Zenon DEF Starter
<1>0. /\ LockHeld /\ pc \in [Starter -> Place] /\ dkgInfo \in Task \cup {None}
      /\ OwnInfo /\ TogetherOverlap /\ AloneFindsDkgInfo
    BY Zenon DEF PlaceInv, DaemonTypes, DaemonTypeOK, AloneInv
<1>a. ASSUME NEW to, pc' = [pc EXCEPT ![t] = to] PROVE \A u \in Task : pc'[u] = IF u = t THEN to ELSE pc[u]
    BY <1>0, <1>a DEF Starter
<1>b. ASSUME NEW to, pc' = [pc EXCEPT ![t] = to],
             to \in Before => pc[t] \in Before,
             to = "saved" => pc[t] \in Before \cup {"saved"},
             panicked' = panicked, dkgInfo' = dkgInfo, overlap' = overlap
      PROVE AloneInv'
    BY <1>a, <1>b, QuietAlone, Zenon
<1>1. CASE InitDKG(t) \/ InitReshare(t)
  <2>1. /\ pc' = [pc EXCEPT ![t] = "setup"] /\ overlap' = overlap \ {t}
        /\ panicked' = panicked /\ dkgInfo' = dkgInfo
    BY <1>1, Zenon DEF InitDKG, InitReshare, Begin
  <2>2. \A u \in Task : pc'[u] = IF u = t THEN "setup" ELSE pc[u]
    BY <2>1, <1>a, Zenon
  <2> QED
    BY <1>0, <2>1, <2>2 DEF AloneInv, OwnInfo, TogetherOverlap, AloneFindsDkgInfo, Before, Saving
<1>2. CASE SetupFails(t) \/ ReshareCheck(t)
  <2>1. PICK to \in {"idle", "checked"} : Goto(t, to)
    BY <1>2, Zenon DEF SetupFails, ReshareCheck
  <2>2. pc' = [pc EXCEPT ![t] = to] /\ panicked' = panicked /\ dkgInfo' = dkgInfo /\ overlap' = overlap
    BY <2>1, Zenon DEF Goto, counters
  <2>3. to \notin Before /\ to # "saved"
    BY DEF Before, Saving
  <2> QED
    BY <2>2, <2>3, <1>b, Zenon
<1>3. CASE RunDKG(t)
  <2>1. /\ pc' = [pc EXCEPT ![t] = "wait"] /\ dkgInfo' = t /\ panicked' = panicked
        /\ overlap' = IF Inside = {} THEN overlap ELSE overlap \cup Inside \cup {t}
        /\ pc[t] \in {"setup", "checked"}
    BY <1>3, Zenon DEF RunDKG, counters
  <2>2. \A u \in Task : pc'[u] = IF u = t THEN "wait" ELSE pc[u]
    BY <2>1, <1>a, Zenon
  <2>3. \A u \in Task : u \in Inside <=> pc[u] \in Before \cup {"saved"}
    BY DEF Inside, Before, Saving
  <2>4. OwnInfo'
    BY <2>1, <2>2, <2>3 DEF OwnInfo
  <2>5. TogetherOverlap'
    BY <1>0, <2>1, <2>2, <2>3 DEF TogetherOverlap
  <2> QED
    BY <1>0, <2>1, <2>4, <2>5, Zenon DEF AloneInv, AloneFindsDkgInfo
<1>4. CASE WaitDKG(t) \/ DkgEnds(t) \/ SaveShareFails(t)
  <2>1. PICK to \in {"err", "dkg", "took"} : pc' = [pc EXCEPT ![t] = to]
    BY <1>4, Zenon DEF WaitDKG, DkgEnds, SaveShareFails
  <2>2. pc[t] \in Before
    BY <1>4 DEF WaitDKG, DkgEnds, SaveShareFails, At, Before
  <2>3. panicked' = panicked /\ dkgInfo' = dkgInfo /\ overlap' = overlap
    BY <1>4, Zenon DEF WaitDKG, DkgEnds, SaveShareFails, counters
  <2> QED
    BY <2>1, <2>2, <2>3, <1>b, Zenon
<1>5. CASE SaveShareWrite(t) \/ SaveGroupOpen(t) \/ SaveFails(t)
  <2>1. PICK to \in {"err", "shared", "group"} : pc' = [pc EXCEPT ![t] = to]
    BY <1>5, Zenon DEF SaveShareWrite, SaveGroupOpen, SaveFails
  <2>2. pc[t] \in Before
    BY <1>5 DEF SaveShareWrite, SaveGroupOpen, SaveFails, At, Before, Saving
  <2>3. panicked' = panicked /\ dkgInfo' = dkgInfo /\ overlap' = overlap
    BY <1>5, Zenon DEF SaveShareWrite, SaveGroupOpen, SaveFails, counters
  <2> QED
    BY <2>1, <2>2, <2>3, <1>b, Zenon
<1>6. CASE SaveShareOpen(t)
  <2>0. pc[t] = "took"
    BY <1>6, Zenon DEF SaveShareOpen
  <2>1. CASE dkgInfo = None
    <3>1. t \in overlap
      BY <1>0, <2>0, <2>1 DEF OwnInfo, Before, Starter
    <3>2. Dies /\ panicked' = "overlap"
      BY <1>6, <2>1, <3>1, Zenon DEF SaveShareOpen, Panics
    <3> QED
      BY <3>2, DiesAlone
  <2>2. CASE dkgInfo # None
    <3>1. pc' = [pc EXCEPT ![t] = "share"] /\ panicked' = panicked /\ dkgInfo' = dkgInfo /\ overlap' = overlap
      BY <1>6, <2>2, Zenon DEF SaveShareOpen, counters
    <3>2. pc[t] \in Before
      BY <2>0 DEF Before
    <3> QED
      BY <3>1, <3>2, <1>b, Zenon
  <2> QED
    BY <2>1, <2>2, Zenon
<1>7. CASE SaveGroupWrite(t) \/ DkgDone(t)
  <2>1. /\ pc[t] \in Before \cup {"saved"} /\ dkgInfo' = None
        /\ panicked' = panicked /\ overlap' = overlap
    BY <1>7 DEF SaveGroupWrite, DkgDone, CleanupDKG, At, counters, Before, Saving
  <2>2. PICK to \in {"saved", "nb"} : pc' = [pc EXCEPT ![t] = to]
    BY <1>7, Zenon DEF SaveGroupWrite, DkgDone
  <2>3. \A u \in Task : pc'[u] = IF u = t THEN to ELSE pc[u]
    BY <2>2, <1>a, Zenon
  <2>4. to \notin Before
    BY DEF Before, Saving
  <2>5. OwnInfo'
    BY <1>0, <2>1, <2>3, <2>4 DEF OwnInfo, TogetherOverlap
  <2>6. TogetherOverlap'
    BY <1>0, <2>1, <2>3 DEF TogetherOverlap
  <2> QED
    BY <1>0, <2>1, <2>5, <2>6, Zenon DEF AloneInv, AloneFindsDkgInfo
<1>8. CASE DkgFails(t)
  <2>1. /\ pc' = [pc EXCEPT ![t] = "idle"] /\ pc[t] = "err"
        /\ dkgInfo' = dkgInfo \/ dkgInfo = t
        /\ panicked' = panicked /\ overlap' = overlap
    BY <1>8, Zenon DEF DkgFails, counters
  <2>2. \A u \in Task : pc'[u] = IF u = t THEN "idle" ELSE pc[u]
    BY <2>1, <1>a, Zenon
  <2> QED
    BY <1>0, <2>1, <2>2 DEF AloneInv, OwnInfo, TogetherOverlap, AloneFindsDkgInfo, Before, Saving
<1>9. CASE Transition(t)
  <2>1. CASE Panics("beacon")
    BY <2>1, DiesAlone DEF Panics
  <2>2. CASE \E to \in {"idle", "nb"} : Goto(t, to)
    <3>1. PICK to \in {"idle", "nb"} : Goto(t, to)
      BY <2>2, Zenon
    <3>2. pc' = [pc EXCEPT ![t] = to] /\ panicked' = panicked /\ dkgInfo' = dkgInfo /\ overlap' = overlap
      BY <3>1, Zenon DEF Goto, counters
    <3>3. to \notin Before /\ to # "saved"
      BY DEF Before, Saving
    <3> QED
      BY <3>2, <3>3, <1>b, Zenon
  <2> QED
    BY <1>9, <2>1, <2>2, Zenon DEF Transition
<1> QED
  BY <1>1, <1>2, <1>3, <1>4, <1>5, <1>6, <1>7, <1>8, <1>9, Zenon DEF TaskStep

\* Every step keeps what dkgInfo says of the commands in a DKG.
LEMMA AloneKept == PlaceInv /\ AloneInv /\ [DaemonNext]_daemonVars => AloneInv'
<1> SUFFICES ASSUME PlaceInv, AloneInv, [DaemonNext]_daemonVars PROVE AloneInv'
    OBVIOUS
<1> USE DaemonAssumption
<1>0. pc \in [Starter -> Place] /\ AloneFindsDkgInfo
    BY Zenon DEF PlaceInv, DaemonTypes, AloneInv
<1>a. ASSUME NEW t \in Starter, NEW to \in {"nb", "open", "start", "idle"}, pc' = [pc EXCEPT ![t] = to]
      PROVE \A u \in Task : /\ pc'[u] \in Before => pc[u] \in Before
                            /\ pc'[u] = "saved" => pc[u] \in Before \cup {"saved"}
    BY <1>0, <1>a DEF Starter, Before, Saving
<1>1. CASE StartCmd
  <2>1. pc' = pc \/ pc' = [pc EXCEPT ![Boot] = "nb"]
    BY <1>1, Zenon DEF StartCmd
  <2>2. \A u \in Task : /\ pc'[u] \in Before => pc[u] \in Before
                        /\ pc'[u] = "saved" => pc[u] \in Before \cup {"saved"}
    BY <2>1, <1>a DEF Starter
  <2> QED
    BY <1>1, <2>2, QuietAlone, Zenon DEF StartCmd
<1>2. CASE Crash \/ Stop
  <2>1. Dies /\ panicked' = panicked
    BY <1>2, Zenon DEF Crash, Stop, counters
  <2> QED
    BY <1>0, <2>1, DiesAlone, Zenon DEF AloneFindsDkgInfo
<1>3. CASE StopBeacon \/ Reset
    BY <1>3, QuietAlone, Zenon DEF StopBeacon, Reset, taskVars, counters
<1>4. ASSUME NEW t \in Starter, BeaconStep(t) PROVE AloneInv'
  <2>1. PICK to \in {"nb", "open", "start", "idle"} : pc' = [pc EXCEPT ![t] = to]
    BY <1>4, Zenon DEF BeaconStep, NewBeacon, BeaconOpens, BeaconStarts
  <2>2. panicked' = panicked /\ dkgInfo' = dkgInfo /\ overlap' = overlap
    BY <1>4, Zenon DEF BeaconStep, NewBeacon, BeaconOpens, BeaconStarts, counters
  <2> QED
    BY <2>1, <2>2, <1>a, QuietAlone, Zenon
<1>5. ASSUME NEW f \in Follow, FollowMove(f) PROVE AloneInv'
  <2>1. FollowStep
    BY <1>5, Zenon DEF FollowMove, FollowStart, FollowInfo, FollowOpens, FollowReturns,
       FollowQuits, FollowEnds
  <2> QED
    BY <2>1, QuietAlone, Zenon DEF FollowStep, taskVars, counters
<1>6. CASE UNCHANGED daemonVars
    BY <1>6, QuietAlone, Zenon DEF daemonVars
<1> QED
    BY <1>1, <1>2, <1>3, <1>4, <1>5, <1>6, TaskAlone, Zenon DEF DaemonNext

-----------------------------------------------------------------------------
(* The share and the group of a DKG end up together. *)

Taken == {"took"} \cup Saving

\* No epoch is used before its DKG or resharing is started.
EpochsStarted ==
  /\ share <= epoch /\ (shareF <= epoch \/ shareF = Torn)
  /\ \A t \in Task : target[t] <= epoch /\ on[t] <= epoch

\* A result is taken by one command, which has it until its group is saved.
OneTakes ==
  /\ \A t \in Task : pc[t] \in Taken => on[t] \in ended
  /\ \A t, u \in Task : t # u /\ pc[t] \in Taken /\ pc[u] \in Taken => on[t] # on[u]

\* The share file holds the share of no protocol that is still to end.
FileIsOfEnded ==
  \A t \in Task : shareF # 0 /\ shareF \in {target[t], on[t]} => shareF \in ended

\* Nor that of a result not saved yet.
FileIsOld == \A t \in Task : pc[t] = "took" /\ shareF # 0 => shareF # on[t]

\* What a command that saves has set so far.
SavesOwn ==
  \A t \in Task :
    /\ pc[t] \in Saving => share = on[t]
    /\ pc[t] = "group" => inGroup = target[dkgInfo]
    /\ pc[t] = "share" => shareF \in {0, Torn}
    /\ pc[t] \in {"shared", "group"} => shareF \in {0, share}

\* Two files that load are of one epoch, unless mixed says why not.
DiskTogether ==
  (\A t \in Task : pc[t] # "shared") /\ mixed = None /\ Loads(shareF) /\ Loads(groupF)
    => shareF = groupF

\* So are share and group in memory, whenever no command is saving.
MemoryTogether ==
  (\A t \in Task : pc[t] \notin Saving) /\ share # 0 /\ inGroup # 0 /\ share # inGroup
    => mixed # None \/ shareF # share

SavedInv ==
  /\ EpochsStarted /\ OneTakes /\ FileIsOfEnded /\ FileIsOld /\ SavesOwn
  /\ DiskTogether /\ MemoryTogether

\* Nothing is saved yet.
LEMMA SavedInitInv == DaemonInit => SavedInv
<1> SUFFICES ASSUME DaemonInit PROVE SavedInv
    OBVIOUS
<1>1. /\ shareF = 0 /\ groupF = 0 /\ share = 0 /\ epoch = 0 /\ inGroup = 0
      /\ \A t \in Task : pc[t] = "idle" /\ target[t] = 0 /\ on[t] = 0
    BY DEF DaemonInit, Starter
<1>2. EpochsStarted
    BY <1>1 DEF EpochsStarted
<1>3. OneTakes /\ FileIsOfEnded /\ FileIsOld /\ SavesOwn
    BY <1>1 DEF OneTakes, FileIsOfEnded, FileIsOld, SavesOwn, Taken, Saving
<1>4. DiskTogether /\ MemoryTogether
    BY <1>1 DEF DiskTogether, MemoryTogether
<1> QED
    BY <1>2, <1>3, <1>4, Zenon DEF SavedInv

\* A step without effect on what is saved.
LEMMA QuietSaved ==
  ASSUME SavedInv,
         UNCHANGED <<shareF, groupF, mixed, share, inGroup, ended, epoch, target, on>>,
         \A t \in Task : pc'[t] = pc[t] \/ (pc'[t] \notin Taken /\ pc[t] \notin Taken),
         dkgInfo' = dkgInfo \/ \A t \in Task : pc[t] \notin Saving
  PROVE  SavedInv'
<1>1. EpochsStarted'
    BY Zenon DEF SavedInv, EpochsStarted
<1>2. OneTakes'
    BY Zenon DEF SavedInv, OneTakes
<1>3. FileIsOfEnded'
    BY Zenon DEF SavedInv, FileIsOfEnded
<1>4. FileIsOld'
    BY DEF SavedInv, FileIsOld, Taken
<1>5. SavesOwn'
    BY DEF SavedInv, SavesOwn, Taken, Saving
<1>6. DiskTogether'
    BY DEF SavedInv, DiskTogether, Taken, Saving, Loads
<1>7. MemoryTogether'
    BY DEF SavedInv, MemoryTogether, Taken, Saving
<1> QED
    BY <1>1, <1>2, <1>3, <1>4, <1>5, <1>6, <1>7, Zenon DEF SavedInv

\* The process dies when no command is between its two saves, or mixed tells.
LEMMA DiesSaved ==
  ASSUME PlaceInv, SavedInv, Dies, UNCHANGED <<shareF, groupF, epoch>>,
         mixed' # None \/ (mixed' = mixed /\ \A t \in Task : pc[t] # "shared")
  PROVE  SavedInv'
<1> USE DaemonAssumption
<1>0. epoch \in 0..MaxEpoch /\ shareF \in 0..Torn
    BY DEF PlaceInv, DaemonTypes, DaemonTypeOK
<1>1. /\ share' = 0 /\ inGroup' = 0
      /\ \A t \in Task : pc'[t] = "idle" /\ target'[t] = 0 /\ on'[t] = 0
    BY DEF Dies, Fresh, Starter
<1>2. EpochsStarted'
    BY <1>0, <1>1 DEF SavedInv, EpochsStarted, Torn
<1>3. OneTakes' /\ FileIsOfEnded' /\ FileIsOld' /\ SavesOwn'
    BY <1>1 DEF OneTakes, FileIsOfEnded, FileIsOld, SavesOwn, Taken, Saving
<1>4. DiskTogether'
    BY DEF SavedInv, DiskTogether, Loads
<1>5. MemoryTogether'
    BY <1>1 DEF MemoryTogether
<1> QED
    BY <1>2, <1>3, <1>4, <1>5, Zenon DEF SavedInv

\* A step of a command.
LEMMA TaskSaved == ASSUME PlaceInv, SavedInv, NEW t \in Task, TaskStep(t) PROVE SavedInv'
<1> USE DaemonAssumption
<1> t \in Starter
    BY Zenon DEF Starter
<1>0. /\ LockHeld /\ DaemonTypeOK /\ pc \in [Starter -> Place]
      /\ target \in [Task -> 0..MaxEpoch] /\ on \in [Task -> 0..MaxEpoch]
      /\ epoch \in 0..MaxEpoch
    BY Zenon DEF PlaceInv, DaemonTypes
<1>i. /\ EpochsStarted /\ OneTakes /\ FileIsOfEnded /\ FileIsOld /\ SavesOwn
      /\ DiskTogether /\ MemoryTogether
    BY Zenon DEF SavedInv
<1>n. /\ share \in 0..MaxEpoch /\ inGroup \in 0..MaxEpoch
      /\ shareF \in 0..MaxEpoch+1 /\ groupF \in 0..MaxEpoch+1
    BY <1>0 DEF DaemonTypeOK, Torn
<1>a. ASSUME NEW to, pc' = [pc EXCEPT ![t] = to] PROVE \A u \in Task : pc'[u] = IF u = t THEN to ELSE pc[u]
    BY <1>0, <1>a DEF Starter
<1>b. ASSUME NEW to, pc' = [pc EXCEPT ![t] = to], to \notin Taken, pc[t] \notin Taken,
             dkgInfo' = dkgInfo \/ lock = None,
             UNCHANGED <<shareF, groupF, mixed, share, inGroup, ended, epoch, target, on>>
      PROVE SavedInv'
  <2>1. lock = None => \A u \in Task : pc[u] \notin Saving
    BY <1>0 DEF LockHeld, Starter
  <2> QED
    BY <1>a, <1>b, <2>1, QuietSaved, Zenon
\* While t holds the lock no other command saves.
<1>c. ASSUME pc[t] \in Saving PROVE \A u \in Task : u # t => pc[u] \notin Saving
    BY <1>0, <1>c DEF LockHeld, Starter
<1>d. ASSUME lock = None PROVE \A u \in Task : pc[u] \notin Saving
    BY <1>0, <1>d DEF LockHeld, Starter
<1>1. CASE InitDKG(t) \/ InitReshare(t)
  <2>1. /\ pc' = [pc EXCEPT ![t] = "setup"] /\ pc[t] = "idle"
        /\ epoch < MaxEpoch /\ epoch' = epoch + 1 /\ target' = [target EXCEPT ![t] = epoch + 1]
        /\ UNCHANGED <<shareF, groupF, mixed, share, inGroup, ended, on, dkgInfo, lock>>
        /\ lock = None
    BY <1>1, Zenon DEF InitDKG, InitReshare, Begin, Unlocked, diskVars
  <2>2. \A u \in Task : pc'[u] = IF u = t THEN "setup" ELSE pc[u]
    BY <2>1, <1>a, Zenon
  <2>3. \A u \in Task : target'[u] = IF u = t THEN epoch + 1 ELSE target[u]
    BY <2>1, <1>0
  <2>4. EpochsStarted'
    BY <1>0, <1>i, <1>n, <2>1, <2>3 DEF EpochsStarted
  <2>5. OneTakes'
    BY <1>i, <2>1, <2>2 DEF OneTakes, Taken, Saving
  <2>6. shareF # epoch + 1
    BY <1>0, <1>i, <1>n, <2>1 DEF EpochsStarted, Torn
  <2>7. FileIsOfEnded'
    BY <1>i, <2>1, <2>3, <2>6 DEF FileIsOfEnded
  <2>8. FileIsOld' /\ DiskTogether' /\ MemoryTogether'
    BY <1>i, <2>1, <2>2 DEF FileIsOld, DiskTogether, MemoryTogether, Loads, Saving
  <2>9. SavesOwn'
    BY <1>d, <2>1, <2>2 DEF SavesOwn, Saving
  <2> QED
    BY <2>4, <2>5, <2>7, <2>8, <2>9, Zenon DEF SavedInv
<1>2. CASE SetupFails(t) \/ ReshareCheck(t)
  <2>1. PICK to \in {"idle", "checked"} : Goto(t, to)
    BY <1>2, Zenon DEF SetupFails, ReshareCheck
  <2>2. pc[t] = "setup" /\ pc' = [pc EXCEPT ![t] = to] /\ dkgInfo' = dkgInfo
        /\ UNCHANGED <<shareF, groupF, mixed, share, inGroup, ended, epoch, target, on>>
    BY <1>2, <2>1, Zenon DEF SetupFails, ReshareCheck, At, Goto, diskVars, counters
  <2>3. to \notin Taken /\ pc[t] \notin Taken
    BY <2>2 DEF Taken, Saving
  <2> QED
    BY <2>2, <2>3, <1>b, Zenon
<1>3. CASE RunDKG(t) \/ DkgFails(t) \/ DkgDone(t)
  <2>1. PICK to \in {"wait", "idle", "nb"} : pc' = [pc EXCEPT ![t] = to]
    BY <1>3, Zenon DEF RunDKG, DkgFails, DkgDone
  <2>2. pc[t] \in {"setup", "checked", "err", "saved"} /\ lock = None
        /\ UNCHANGED <<shareF, groupF, mixed, share, inGroup, ended, epoch, target, on>>
    BY <1>3, Zenon DEF RunDKG, DkgFails, DkgDone, Unlocked, diskVars, counters
  <2>3. to \notin Taken /\ pc[t] \notin Taken
    BY <2>2 DEF Taken, Saving
  <2> QED
    BY <2>1, <2>2, <2>3, <1>b, Zenon
<1>4. CASE WaitDKG(t)
  <2>1. /\ pc' = [pc EXCEPT ![t] = IF dkgInfo = None THEN "err" ELSE "dkg"] /\ pc[t] = "wait"
        /\ on' = [on EXCEPT ![t] = IF dkgInfo = None THEN 0 ELSE target[dkgInfo]]
        /\ UNCHANGED <<shareF, groupF, mixed, share, inGroup, ended, epoch, target, dkgInfo>>
    BY <1>4, Zenon DEF WaitDKG, diskVars, counters
  <2>2. \A u \in Task : u # t => pc'[u] = pc[u] /\ on'[u] = on[u]
    BY <1>0, <2>1 DEF Starter
  <2>3. pc'[t] \in {"err", "dkg"} /\ on'[t] = IF dkgInfo = None THEN 0 ELSE target[dkgInfo]
    BY <1>0, <2>1
  <2>4. dkgInfo = None \/ dkgInfo \in Task
    BY <1>0, Zenon DEF DaemonTypeOK
  <2>5. EpochsStarted'
    BY <1>0, <1>i, <2>1, <2>2, <2>3, <2>4 DEF EpochsStarted
  <2>6. OneTakes'
    BY <1>i, <2>1, <2>2, <2>3 DEF OneTakes, Taken, Saving
  <2>7. FileIsOfEnded'
    BY <1>i, <2>1, <2>2, <2>3, <2>4 DEF FileIsOfEnded
  <2>8. FileIsOld' /\ DiskTogether' /\ MemoryTogether'
    BY <1>i, <2>1, <2>2, <2>3 DEF FileIsOld, DiskTogether, MemoryTogether, Loads, Saving
  <2>9. SavesOwn'
    BY <1>i, <2>1, <2>2, <2>3 DEF SavesOwn, Saving
  <2> QED
    BY <2>5, <2>6, <2>7, <2>8, <2>9, Zenon DEF SavedInv
<1>5. CASE DkgEnds(t)
  <2>0. PICK to \in {"took", "err"} : pc' = [pc EXCEPT ![t] = to]
    BY <1>5, Zenon DEF DkgEnds
  <2>1. /\ pc[t] = "dkg" /\ on[t] \notin ended /\ ended' = ended \cup {on[t]}
        /\ UNCHANGED <<shareF, groupF, mixed, share, inGroup, epoch, target, on, dkgInfo>>
    BY <1>5, Zenon DEF DkgEnds, At, diskVars, counters
  <2>2. \A u \in Task : pc'[u] = IF u = t THEN to ELSE pc[u]
    BY <2>0, <1>a, Zenon
  <2>5. EpochsStarted'
    BY <1>i, <2>1, Zenon DEF EpochsStarted
  <2>6. OneTakes'
    BY <1>i, <2>1, <2>2 DEF OneTakes, Taken, Saving
  <2>7. FileIsOfEnded'
    BY <1>i, <2>1 DEF FileIsOfEnded
  <2>8. FileIsOld'
    BY <1>i, <2>1, <2>2 DEF FileIsOld, FileIsOfEnded
  <2>9. SavesOwn' /\ DiskTogether' /\ MemoryTogether'
    BY <1>i, <2>1, <2>2 DEF SavesOwn, Saving, DiskTogether, MemoryTogether, Loads
  <2> QED
    BY <2>5, <2>6, <2>7, <2>8, <2>9, Zenon DEF SavedInv
<1>6. CASE SaveShareOpen(t)
  <2>0. lock = None /\ pc[t] = "took"
    BY <1>6, Zenon DEF SaveShareOpen, Unlocked
  <2>1. CASE dkgInfo = None
    <3>1. \A u \in Task : pc[u] # "shared"
      BY <1>d, <2>0 DEF Saving
    <3> QED
      BY <1>6, <2>1, <3>1, DiesSaved, Zenon DEF SaveShareOpen, Panics
  <2>2. CASE dkgInfo # None
    <3>1. /\ pc' = [pc EXCEPT ![t] = "share"] /\ share' = on[t] /\ shareF' = Torn
          /\ UNCHANGED <<groupF, mixed, inGroup, ended, epoch, target, on, dkgInfo>>
      BY <1>6, <2>2, Zenon DEF SaveShareOpen, counters
    <3>2. \A u \in Task : pc'[u] = IF u = t THEN "share" ELSE pc[u]
      BY <3>1, <1>a, Zenon
    <3>3. \A u \in Task : on[u] \in 0..MaxEpoch /\ target[u] \in 0..MaxEpoch
      BY <1>0, Zenon
    <3>5. EpochsStarted'
      BY <1>i, <3>1 DEF EpochsStarted
    <3>6. OneTakes'
      BY <1>i, <2>0, <3>1, <3>2 DEF OneTakes, Taken, Saving
    <3>7. FileIsOfEnded' /\ FileIsOld'
      BY <3>1, <3>3 DEF FileIsOfEnded, FileIsOld, Torn
    <3>8. SavesOwn'
      BY <1>d, <2>0, <3>1, <3>2 DEF SavesOwn, Saving
    <3>9. DiskTogether' /\ MemoryTogether'
      BY <3>1, <3>2 DEF DiskTogether, MemoryTogether, Loads, Torn, Saving
    <3> QED
      BY <3>5, <3>6, <3>7, <3>8, <3>9, Zenon DEF SavedInv
  <2> QED
    BY <2>1, <2>2, Zenon
<1>7. CASE SaveShareFails(t)
  <2>1. /\ pc[t] = "took" /\ lock = None /\ share' = on[t] /\ pc' = [pc EXCEPT ![t] = "err"]
        /\ UNCHANGED <<shareF, groupF, mixed, inGroup, ended, epoch, target, on, dkgInfo>>
    BY <1>7, Zenon DEF SaveShareFails, Unlocked, diskVars, counters
  <2>2. \A u \in Task : pc'[u] = IF u = t THEN "err" ELSE pc[u]
    BY <2>1, <1>a, Zenon
  <2>5. EpochsStarted' /\ FileIsOfEnded'
    BY <1>i, <2>1 DEF EpochsStarted, FileIsOfEnded
  <2>6. OneTakes' /\ FileIsOld'
    BY <1>i, <2>1, <2>2 DEF OneTakes, Taken, Saving, FileIsOld
  <2>7. SavesOwn'
    BY <1>d, <2>1, <2>2 DEF SavesOwn, Saving
  <2>8. DiskTogether'
    BY <1>i, <2>1, <2>2 DEF DiskTogether, Loads
  <2>9. MemoryTogether'
    BY <1>i, <2>1 DEF MemoryTogether, FileIsOld
  <2> QED
    BY <2>5, <2>6, <2>7, <2>8, <2>9, Zenon DEF SavedInv
<1>8. CASE SaveShareWrite(t)
  <2>1. /\ pc[t] = "share" /\ shareF' = IF shareF = 0 THEN 0 ELSE share
        /\ pc' = [pc EXCEPT ![t] = "shared"]
        /\ UNCHANGED <<groupF, mixed, share, inGroup, ended, epoch, target, on, dkgInfo>>
    BY <1>8, Zenon DEF SaveShareWrite, At, counters
  <2>2. \A u \in Task : pc'[u] = IF u = t THEN "shared" ELSE pc[u]
    BY <2>1, <1>a, Zenon
  <2>3. share = on[t] /\ on[t] \in ended
    BY <1>i, <2>1 DEF SavesOwn, OneTakes, Saving, Taken
  <2>4. \A u \in Task : u # t => pc[u] \notin Saving
    BY <1>c, <2>1 DEF Saving
  <2>5. EpochsStarted'
    BY <1>0, <1>i, <2>1, <2>3 DEF EpochsStarted
  <2>6. OneTakes'
    BY <1>i, <2>1, <2>2 DEF OneTakes, Taken, Saving
  <2>7. FileIsOfEnded'
    BY <2>1, <2>3 DEF FileIsOfEnded
  <2>8. FileIsOld'
    BY <1>i, <2>1, <2>2, <2>3 DEF FileIsOld, OneTakes, Taken, Saving
  <2>9. SavesOwn'
    BY <2>1, <2>2, <2>3, <2>4 DEF SavesOwn, Saving
  <2>10. DiskTogether' /\ MemoryTogether'
    BY <2>2 DEF DiskTogether, MemoryTogether, Saving
  <2> QED
    BY <2>5, <2>6, <2>7, <2>8, <2>9, <2>10, Zenon DEF SavedInv
<1>9. CASE SaveGroupOpen(t)
  <2>1. /\ pc[t] = "shared" /\ inGroup' = target[dkgInfo] /\ groupF' = Torn
        /\ pc' = [pc EXCEPT ![t] = "group"]
        /\ UNCHANGED <<shareF, mixed, share, ended, epoch, target, on, dkgInfo>>
    BY <1>9, Zenon DEF SaveGroupOpen, At, counters
  <2>2. \A u \in Task : pc'[u] = IF u = t THEN "group" ELSE pc[u]
    BY <2>1, <1>a, Zenon
  <2>4. \A u \in Task : u # t => pc[u] \notin Saving
    BY <1>c, <2>1 DEF Saving
  <2>5. EpochsStarted' /\ FileIsOfEnded'
    BY <1>i, <2>1, Zenon DEF EpochsStarted, FileIsOfEnded
  <2>6. OneTakes'
    BY <1>i, <2>1, <2>2 DEF OneTakes, Taken, Saving
  <2>7. FileIsOld'
    BY <1>i, <2>1, <2>2 DEF FileIsOld
  <2>8. SavesOwn'
    BY <1>i, <2>1, <2>2, <2>4 DEF SavesOwn, Saving
  <2>9. DiskTogether' /\ MemoryTogether'
    BY <2>1, <2>2 DEF DiskTogether, MemoryTogether, Saving, Loads, Torn
  <2> QED
    BY <2>5, <2>6, <2>7, <2>8, <2>9, Zenon DEF SavedInv
<1>10. CASE SaveGroupWrite(t)
  <2>1. /\ pc[t] = "group" /\ groupF' = IF groupF = 0 THEN 0 ELSE inGroup
        /\ mixed' = IF target[dkgInfo] = on[t] THEN None ELSE "overlap"
        /\ pc' = [pc EXCEPT ![t] = "saved"]
        /\ UNCHANGED <<shareF, share, inGroup, ended, epoch, target, on>>
    BY <1>10, Zenon DEF SaveGroupWrite, At, counters
  <2>2. \A u \in Task : pc'[u] = IF u = t THEN "saved" ELSE pc[u]
    BY <2>1, <1>a, Zenon
  <2>3. share = on[t] /\ inGroup = target[dkgInfo] /\ shareF \in {0, share}
    BY <1>i, <2>1 DEF SavesOwn, Saving
  <2>4. \A u \in Task : u # t => pc[u] \notin Saving
    BY <1>c, <2>1 DEF Saving
  <2>5. EpochsStarted' /\ FileIsOfEnded'
    BY <1>i, <2>1, Zenon DEF EpochsStarted, FileIsOfEnded
  <2>6. OneTakes'
    BY <1>i, <2>1, <2>2 DEF OneTakes, Taken, Saving
  <2>7. FileIsOld' /\ SavesOwn'
    BY <1>i, <2>1, <2>2, <2>4 DEF FileIsOld, SavesOwn, Saving
  <2>8. mixed' = None => share = inGroup
    BY <2>1, <2>3 DEF None
  <2>9. DiskTogether'
    BY <2>1, <2>3, <2>8 DEF DiskTogether, Loads
  <2>10. MemoryTogether'
    BY <2>1, <2>8 DEF MemoryTogether
  <2> QED
    BY <2>5, <2>6, <2>7, <2>9, <2>10, Zenon DEF SavedInv
<1>11. CASE SaveFails(t)
  <2>1. /\ pc' = [pc EXCEPT ![t] = "err"]
        /\ UNCHANGED <<shareF, groupF, share, ended, epoch, target, on, dkgInfo>>
        /\ \/ pc[t] = "share" /\ inGroup' = inGroup /\ mixed' = mixed
           \/ pc[t] \in {"shared", "group"} /\ mixed' = "failed"
    BY <1>11, Zenon DEF SaveFails, At, counters
  <2>2. \A u \in Task : pc'[u] = IF u = t THEN "err" ELSE pc[u]
    BY <2>1, <1>a, Zenon
  <2>3. pc[t] \in Saving
    BY <2>1 DEF Saving
  <2>4. \A u \in Task : u # t => pc[u] \notin Saving
    BY <1>c, <2>3, Zenon
  <2>5. EpochsStarted' /\ FileIsOfEnded'
    BY <1>i, <2>1, Zenon DEF EpochsStarted, FileIsOfEnded
  <2>6. OneTakes'
    BY <1>i, <2>1, <2>2 DEF OneTakes, Taken, Saving
  <2>7. FileIsOld' /\ SavesOwn'
    BY <1>i, <2>1, <2>2, <2>4 DEF FileIsOld, SavesOwn, Saving
  <2>8. mixed' = None => shareF \in {0, Torn}
    BY <1>i, <2>1 DEF None, SavesOwn
  <2>9. DiskTogether'
    BY <2>1, <2>8 DEF DiskTogether, Loads, Torn
  <2>10. MemoryTogether'
    BY <1>n, <2>1, <2>8 DEF MemoryTogether, Torn
  <2> QED
    BY <2>5, <2>6, <2>7, <2>9, <2>10, Zenon DEF SavedInv
<1>12. CASE Transition(t)
  <2>0. lock = None /\ pc[t] = "saved"
    BY <1>12, Zenon DEF Transition, Unlocked
  <2>1. CASE Panics("beacon")
    <3>1. \A u \in Task : pc[u] # "shared"
      BY <1>d, <2>0 DEF Saving
    <3> QED
      BY <2>1, <3>1, DiesSaved, Zenon DEF Panics
  <2>2. CASE \E to \in {"idle", "nb"} : Goto(t, to)
    <3>1. PICK to \in {"idle", "nb"} : Goto(t, to)
      BY <2>2, Zenon
    <3>2. pc' = [pc EXCEPT ![t] = to] /\ dkgInfo' = dkgInfo
          /\ UNCHANGED <<shareF, groupF, mixed, share, inGroup, ended, epoch, target, on>>
      BY <3>1, Zenon DEF Goto, diskVars, counters
    <3>3. to \notin Taken /\ pc[t] \notin Taken
      BY <2>0 DEF Taken, Saving
    <3> QED
      BY <3>2, <3>3, <1>b, Zenon
  <2> QED
    BY <1>12, <2>1, <2>2, Zenon DEF Transition
<1> QED
  BY <1>1, <1>2, <1>3, <1>4, <1>5, <1>6, <1>7, <1>8, <1>9, <1>10, <1>11, <1>12,
     Zenon DEF TaskStep

\* Every step keeps shares and groups together.
LEMMA SavedKept == PlaceInv /\ SavedInv /\ [DaemonNext]_daemonVars => SavedInv'
<1> SUFFICES ASSUME PlaceInv, SavedInv, [DaemonNext]_daemonVars PROVE SavedInv'
    OBVIOUS
<1> USE DaemonAssumption
<1>0. pc \in [Starter -> Place] /\ LockHeld
    BY Zenon DEF PlaceInv, DaemonTypes
<1>i. /\ EpochsStarted /\ OneTakes /\ FileIsOfEnded /\ FileIsOld /\ SavesOwn
      /\ DiskTogether /\ MemoryTogether
    BY Zenon DEF SavedInv
<1>n. /\ share \in 0..MaxEpoch /\ shareF \in 0..Torn /\ groupF \in 0..Torn /\ epoch \in 0..MaxEpoch
    BY DEF PlaceInv, DaemonTypes, DaemonTypeOK
<1>1. CASE StartCmd
  <2>1. /\ pc' = pc \/ pc' = [pc EXCEPT ![Boot] = "nb"]
        /\ \/ Loads(groupF) /\ Loads(shareF) /\ inGroup' = groupF /\ share' = shareF
           \/ inGroup' = inGroup /\ share' = share
        /\ UNCHANGED <<shareF, groupF, mixed, ended, epoch, target, on, dkgInfo>>
    BY <1>1, Zenon DEF StartCmd
  <2>2. \A t \in Task : pc'[t] = pc[t]
    BY <1>0, <2>1 DEF Starter
  <2>3. CASE inGroup' = inGroup /\ share' = share
    BY <2>1, <2>2, <2>3, QuietSaved, Zenon
  <2>4. CASE Loads(groupF) /\ Loads(shareF) /\ inGroup' = groupF /\ share' = shareF
    <3>1. EpochsStarted'
      BY <1>i, <1>n, <2>1, <2>4 DEF EpochsStarted, Loads, Torn
    <3>2. OneTakes' /\ FileIsOfEnded' /\ FileIsOld'
      BY <1>i, <2>1, <2>2, Zenon DEF OneTakes, FileIsOfEnded, FileIsOld
    <3>3. SavesOwn'
      BY <1>0, <1>1, <2>2 DEF StartCmd, LockHeld, SavesOwn, Saving, Starter
    <3>4. DiskTogether' /\ MemoryTogether'
      BY <1>i, <2>1, <2>2, <2>4 DEF DiskTogether, MemoryTogether, Loads, Saving
    <3> QED
      BY <3>1, <3>2, <3>3, <3>4, Zenon DEF SavedInv
  <2> QED
    BY <2>1, <2>3, <2>4, Zenon
<1>2. CASE Crash
  <2>1. mixed' # None \/ (mixed' = mixed /\ \A t \in Task : pc[t] # "shared")
    BY <1>2 DEF Crash, None
  <2> QED
    BY <1>2, <2>1, DiesSaved, Zenon DEF Crash
<1>3. CASE Stop
  <2>1. lock = None
    BY <1>3, Zenon DEF Stop, Unlocked
  <2>2. \A t \in Task : pc[t] # "shared"
    BY <1>0, <2>1 DEF LockHeld, Saving, Starter
  <2> QED
    BY <1>3, <2>2, DiesSaved, Zenon DEF Stop, counters
<1>4. CASE StopBeacon
    BY <1>4, QuietSaved, Zenon DEF StopBeacon, taskVars, counters, diskVars
<1>5. CASE Reset
  <2>1. /\ shareF' = 0 /\ groupF' = 0 /\ pc' = pc
        /\ UNCHANGED <<share, inGroup, ended, epoch, target, on, dkgInfo>>
    BY <1>5, Zenon DEF Reset, taskVars
  <2>0. 0 <= epoch
    BY <1>n
  <2>2. EpochsStarted'
    BY <1>i, <2>0, <2>1, Zenon DEF EpochsStarted
  <2>3. OneTakes' /\ FileIsOfEnded' /\ FileIsOld'
    BY <1>i, <2>1 DEF OneTakes, FileIsOfEnded, FileIsOld
  <2>4. SavesOwn'
    BY <1>i, <2>1 DEF SavesOwn
  <2>5. DiskTogether' /\ MemoryTogether'
    BY <2>1 DEF DiskTogether, MemoryTogether, Loads
  <2> QED
    BY <2>2, <2>3, <2>4, <2>5, Zenon DEF SavedInv
<1>6. ASSUME NEW t \in Starter, BeaconStep(t) PROVE SavedInv'
  <2>1. PICK to \in {"open", "start", "idle"} : pc' = [pc EXCEPT ![t] = to]
    BY <1>6, Zenon DEF BeaconStep, NewBeacon, BeaconOpens, BeaconStarts
  <2>2. /\ pc[t] \in {"nb", "open", "start"} /\ dkgInfo' = dkgInfo
        /\ UNCHANGED <<shareF, groupF, mixed, share, inGroup, ended, epoch, target, on>>
    BY <1>6, Zenon DEF BeaconStep, NewBeacon, BeaconOpens, BeaconStarts, At, counters, diskVars
  <2>3. \A u \in Task : pc'[u] = pc[u] \/ (pc'[u] \notin Taken /\ pc[u] \notin Taken)
    BY <1>0, <2>1, <2>2 DEF Starter, Taken, Saving
  <2> QED
    BY <2>2, <2>3, QuietSaved, Zenon
<1>7. ASSUME NEW f \in Follow, FollowMove(f) PROVE SavedInv'
  <2>1. FollowStep
    BY <1>7, Zenon DEF FollowMove, FollowStart, FollowInfo, FollowOpens, FollowReturns,
       FollowQuits, FollowEnds
  <2> QED
    BY <2>1, QuietSaved, Zenon DEF FollowStep, taskVars, counters, diskVars
<1>8. CASE UNCHANGED daemonVars
    BY <1>8, QuietSaved, Zenon DEF daemonVars
<1> QED
    BY <1>1, <1>2, <1>3, <1>4, <1>5, <1>6, <1>7, <1>8, TaskSaved, Zenon DEF DaemonNext

(***************************************************************************)
(* However commands, follows, resets and crashes overlap: whenever d.state *)
(* is free the share and the group of a daemon come from one DKG or        *)
(* resharing but in the cases the property names, and a command alone      *)
(* finds its own dkgInfo when WaitDKG takes the lock again (WaitDKG,       *)
(* LoadDrand, runDKG, runResharing).                                       *)
(***************************************************************************)
THEOREM DKGResultsKept == DaemonSpec => []DKGEndsRight
<1> DEFINE Inv == PlaceInv /\ AloneInv /\ SavedInv
<1>1. Inv => DKGEndsRight
  <2> SUFFICES ASSUME Inv PROVE DKGEndsRight
    OBVIOUS
  <2>1. DaemonTypeOK /\ LockHeld /\ AloneFindsDkgInfo /\ MemoryTogether
    BY Zenon DEF PlaceInv, DaemonTypes, AloneInv, SavedInv
  <2>2. SavedTogether
    BY <2>1, DaemonAssumption DEF SavedTogether, MemoryTogether, LockHeld, Unlocked, Starter
  <2> QED
    BY <2>1, <2>2, Zenon DEF DKGEndsRight
<1>2. DaemonInit => Inv
    BY PlaceInitInv, AloneInitInv, SavedInitInv, Zenon
<1>3. Inv /\ [DaemonNext]_daemonVars => Inv'
    BY PlaceKept, AloneKept, SavedKept, Zenon
<1> QED
    BY <1>1, <1>2, <1>3, PTL DEF DaemonSpec
-----------------------------------------------------------------------------
(* The clock (module ChainTime).                                           *)

(* Integer division, by the two inequalities that define the quotient.     *)
LEMMA DivisionBounds ==
    ASSUME NEW x \in Nat, NEW p \in Nat \ {0}
    PROVE  /\ x \div p \in Nat
           /\ p * (x \div p) <= x
           /\ x < p * (x \div p) + p
  OBVIOUS

(* Adding whole periods to a time adds as many to the quotient.            *)
LEMMA DivisionOfMultiple ==
    ASSUME NEW n \in Nat, NEW p \in Nat \ {0}
    PROVE  (n * p) \div p = n
  OBVIOUS

(* NextRound before and after the genesis.                                 *)
LEMMA NextRoundType ==
    ASSUME NEW t \in Nat, NEW p \in Nat \ {0}, NEW g \in Nat
    PROVE  /\ NextRound(t, p, g).round \in Nat \ {0}
           /\ NextRound(t, p, g).time \in Nat
           /\ NextRound(t, p, g).time = g + (NextRound(t, p, g).round - 1) * p
<1>1. CASE t < g
  BY <1>1 DEF NextRound
<1>2. CASE ~(t < g)
  <2> DEFINE n == (t - g) \div p + 1
  <2>1. t - g \in Nat
    BY <1>2
  <2>2. n \in Nat \ {0}
    BY <2>1, DivisionBounds
  <2>3. NextRound(t, p, g) = [round |-> n + 1, time |-> g + n * p]
    BY <1>2 DEF NextRound
  <2> HIDE DEF n
  <2>4. n * p \in Nat
    BY <2>2
  <2> QED
    BY <2>2, <2>3, <2>4
<1> QED
  BY <1>1, <1>2

(* A round that starts at g + r * p is the active one at that time: the    *)
(* conversions between rounds and times are inverse of each other.         *)
LEMMA RoundOfItsTime ==
    ASSUME NEW r \in Nat, NEW p \in Nat \ {0}, NEW g \in Nat
    PROVE  CurrentRound(g + r * p, p, g) = r + 1
<1>1. r * p \in Nat
  OBVIOUS
<1>2. ~(g + r * p < g) /\ (g + r * p) - g = r * p
  BY <1>1
<1>3. (r * p) \div p = r
  BY DivisionOfMultiple
<1>4. NextRound(g + r * p, p, g).round = r + 2
  BY <1>2, <1>3 DEF NextRound
<1> QED
  BY <1>4 DEF CurrentRound

(* For every period, genesis and round, mapping a round to its time and    *)
(* back gives the same round (Transition and TransitionNewGroup rely on    *)
(* it).                                                                    *)
THEOREM RoundTrip ==
    ASSUME NEW round \in Nat \ {0}, NEW p \in Nat \ {0}, NEW g \in Nat
    PROVE  CurrentRound(RoundTime(p, g, round), p, g) = round
<1>1. round - 1 \in Nat /\ (round - 1) + 1 = round
  OBVIOUS
<1>2. CurrentRound(g + (round - 1) * p, p, g) = (round - 1) + 1
  BY <1>1, RoundOfItsTime, Zenon
<1> QED
  BY <1>1, <1>2 DEF RoundTime

(* The active round is never 0.                                            *)
LEMMA CurrentRoundType ==
    ASSUME NEW t \in Nat, NEW p \in Nat \ {0}, NEW g \in Nat
    PROVE  CurrentRound(t, p, g) \in Nat \ {0}
<1> DEFINE next == NextRound(t, p, g).round
<1>1. next \in Nat \ {0}
  BY NextRoundType
<1>2. CurrentRound(t, p, g) = IF next <= 1 THEN next ELSE next - 1
  BY DEF CurrentRound
<1> HIDE DEF next
<1> QED
  BY <1>1, <1>2

(* The state of the clock keeps its type, and CurrentRound returns a round *)
(* from 1 on at every time, also before the genesis.                       *)
THEOREM TypeCorrect == Spec => []TypeOK
<1>1. Init => TypeOK
  <2> SUFFICES ASSUME Init PROVE TypeOK
    OBVIOUS
  <2>1. now \in Nat /\ period \in Nat \ {0} /\ genesis \in Nat
    BY ClockAssumption DEF Init
  <2> QED
    BY <2>1, CurrentRoundType DEF Init, TypeOK
<1>2. TypeOK /\ [Next]_vars => TypeOK'
  <2> SUFFICES ASSUME TypeOK, [Next]_vars PROVE TypeOK'
    OBVIOUS
  <2>1. /\ now' \in Nat
        /\ period' = period /\ genesis' = genesis
    BY DEF TypeOK, Next, Second, vars
  <2>2. period' \in Nat \ {0} /\ genesis' \in Nat
    BY <2>1, ClockAssumption DEF TypeOK
  <2>3. CurrentRound(now', period', genesis') \in Nat \ {0}
    BY <2>1, <2>2, CurrentRoundType
  <2> QED
    BY <2>1, <2>3 DEF TypeOK
<1> QED
  BY <1>1, <1>2, PTL DEF Spec

(* At every moment the tick that ticker.Start sleeps until is the tick of  *)
(* the round NextRound announced.                                          *)
THEOREM TicksAreAnnounced == Spec => []TickIsAnnouncedRound
<1>1. TypeOK => TickIsAnnouncedRound
  <2> SUFFICES ASSUME TypeOK PROVE TickIsAnnouncedRound
    OBVIOUS
  <2>1. now \in Nat /\ period \in Nat \ {0} /\ genesis \in Nat
    BY ClockAssumption DEF TypeOK
  <2> DEFINE next == NextRound(now, period, genesis)
  <2>2. /\ next.round - 1 \in Nat
        /\ next.time = genesis + (next.round - 1) * period
    BY <2>1, NextRoundType
  <2>3. CurrentRound(next.time, period, genesis) = (next.round - 1) + 1
    BY <2>1, <2>2, RoundOfItsTime
  <2> QED
    BY <2>1, <2>3, NextRoundType DEF TickIsAnnouncedRound
<1> QED
  BY <1>1, TypeCorrect, PTL

(* The next round always lies ahead, and after the genesis at most one     *)
(* period ahead.                                                           *)
THEOREM NextRoundAhead == Spec => []NextRoundIsAhead
<1>1. TypeOK => NextRoundIsAhead
  <2> SUFFICES ASSUME TypeOK PROVE NextRoundIsAhead
    OBVIOUS
  <2>1. now \in Nat /\ period \in Nat \ {0} /\ genesis \in Nat
    BY ClockAssumption DEF TypeOK
  <2>2. CASE now < genesis
    BY <2>1, <2>2 DEF NextRoundIsAhead, NextRound
  <2>3. CASE ~(now < genesis)
    <3> DEFINE q == (now - genesis) \div period
    <3>1. NextRound(now, period, genesis).time = genesis + (q + 1) * period
      BY <2>3 DEF NextRound
    <3>2. /\ q \in Nat
          /\ period * q <= now - genesis
          /\ now - genesis < period * q + period
      BY <2>1, <2>3, DivisionBounds, now - genesis \in Nat
    <3> HIDE DEF q
    <3>3. (q + 1) * period = period * q + period
      BY <2>1, <3>2
    <3>4. period * q \in Nat
      BY <2>1, <3>2
    <3> QED
      BY <2>1, <3>1, <3>2, <3>3, <3>4 DEF NextRoundIsAhead
  <2> QED
    BY <2>2, <2>3
<1> QED
  BY <1>1, TypeCorrect, PTL

(* One second later the quotient is the same or one more.                  *)
LEMMA DivisionOfNext ==
    ASSUME NEW x \in Nat, NEW p \in Nat \ {0}
    PROVE  (x + 1) \div p \in {x \div p, x \div p + 1}
<1> DEFINE q == x \div p
           r == (x + 1) \div p
<1>1. q \in Nat /\ p * q <= x /\ x < p * q + p
  BY DivisionBounds
<1>2. x + 1 \in Nat
  OBVIOUS
<1>3. r \in Nat /\ p * r <= x + 1 /\ x + 1 < p * r + p
  BY <1>2, DivisionBounds
<1> HIDE DEF q, r
<1>4. ~(r < q)
  <2> SUFFICES ASSUME r + 1 <= q PROVE FALSE
    BY <1>1, <1>3
  <2>1. p * (r + 1) <= p * q
    BY <1>1, <1>3
  <2>2. p * (r + 1) = p * r + p
    BY <1>3
  <2> QED
    BY <1>1, <1>3, <2>1, <2>2
<1>5. ~(r > q + 1)
  <2> SUFFICES ASSUME q + 2 <= r PROVE FALSE
    BY <1>1, <1>3
  <2>1. p * (q + 2) <= p * r
    BY <1>1, <1>3
  <2>2. p * (q + 2) = p * q + p + p
    BY <1>1
  <2> QED
    BY <1>1, <1>3, <2>1, <2>2
<1>6. r = q \/ r = q + 1
  BY <1>1, <1>3, <1>4, <1>5
<1> QED
  BY <1>6 DEF q, r

(* From one second to the next the active round stays or moves by one.     *)
LEMMA RoundOfNextSecond ==
    ASSUME NEW t \in Nat, NEW p \in Nat \ {0}, NEW g \in Nat
    PROVE  CurrentRound(t + 1, p, g) - CurrentRound(t, p, g) \in {0, 1}
<1>1. CASE t + 1 < g
  <2>1. t < g
    BY <1>1
  <2>2. CurrentRound(t, p, g) = 1 /\ CurrentRound(t + 1, p, g) = 1
    BY <1>1, <2>1 DEF CurrentRound, NextRound
  <2> QED
    BY <2>2
<1>2. CASE t + 1 = g
  <2>1. t < g /\ (t + 1) - g = 0 * p /\ ~(t + 1 < g)
    BY <1>2
  <2>2. (0 * p) \div p = 0
    BY DivisionOfMultiple
  <2>3. NextRound(t + 1, p, g).round = 2
    BY <2>1, <2>2 DEF NextRound
  <2>4. CurrentRound(t, p, g) = 1
    BY <2>1 DEF CurrentRound, NextRound
  <2>5. CurrentRound(t + 1, p, g) = 1
    BY <2>3 DEF CurrentRound
  <2> QED
    BY <2>4, <2>5
<1>3. CASE t >= g
  <2> DEFINE q == (t - g) \div p
             r == ((t - g) + 1) \div p
  <2>1. t - g \in Nat /\ (t + 1) - g = (t - g) + 1 /\ ~(t < g) /\ ~(t + 1 < g)
    BY <1>3
  <2>2. q \in Nat /\ r \in {q, q + 1}
    BY <2>1, DivisionBounds, DivisionOfNext
  <2>3. NextRound(t, p, g).round = q + 2
    BY <2>1, <2>2 DEF NextRound
  <2>4. NextRound(t + 1, p, g).round = r + 2
    BY <2>1, <2>2 DEF NextRound
  <2> HIDE DEF q, r
  <2>5. CurrentRound(t, p, g) = q + 1
    BY <2>2, <2>3 DEF CurrentRound
  <2>6. CurrentRound(t + 1, p, g) = r + 1
    BY <2>2, <2>4 DEF CurrentRound
  <2> QED
    BY <2>2, <2>5, <2>6
<1> QED
  BY <1>1, <1>2, <1>3

(* No round is skipped and the active round never goes back, whatever the  *)
(* period and the genesis time.                                            *)
THEOREM RoundsInOrder == Spec => NoRoundSkipped
<1>1. TypeOK /\ [Next]_vars =>
         [CurrentRound(now, period, genesis)' - CurrentRound(now, period, genesis)
            \in {0, 1}]_vars
  <2> SUFFICES ASSUME TypeOK, Next
               PROVE  CurrentRound(now, period, genesis)' - CurrentRound(now, period, genesis)
                        \in {0, 1}
    OBVIOUS
  <2>1. now \in Nat /\ period \in Nat \ {0} /\ genesis \in Nat
    BY ClockAssumption DEF TypeOK
  <2>2. now' = now + 1 /\ period' = period /\ genesis' = genesis
    BY DEF Next, Second
  <2>3. CurrentRound(now, period, genesis)' = CurrentRound(now + 1, period, genesis)
    BY <2>2 DEF CurrentRound, NextRound
  <2> QED
    BY <2>1, <2>3, RoundOfNextSecond
<1> QED
  BY <1>1, TypeCorrect, PTL DEF Spec, NoRoundSkipped
-----------------------------------------------------------------------------
(***************************************************************************)
(* TimeOfRound in machine words.                                           *)
(***************************************************************************)

(* A set of natural numbers that is not empty has a least element.         *)
LEMMA LeastNumber ==
    ASSUME NEW T, T \subseteq Nat, T # {}
    PROVE  \E x \in T : \A y \in T : x <= y
<1>1. IsWellFoundedOn(OpToRel(<, Nat), Nat)
  BY NatLessThanWellFounded, Zenon
<1>2. PICK x \in T : \A y \in T : ~(<<y, x>> \in OpToRel(<, Nat))
  BY <1>1, WFMin, Zenon
<1>3. ASSUME NEW y \in T PROVE x <= y
  <2>1. x \in Nat /\ y \in Nat
    OBVIOUS
  <2>2. ~(<<y, x>> \in OpToRel(<, Nat))
    BY <1>2, Zenon
  <2>3. ~(y < x)
    BY <2>1, <2>2 DEF OpToRel
  <2> QED
    BY <2>1, <2>3
<1> QED
  BY <1>3

(* A number below the modulus is its own remainder.                        *)
LEMMA RemainderOfSmall ==
    ASSUME NEW x \in Nat, NEW m \in Nat \ {0}, x < m
    PROVE  x % m = x
  OBVIOUS

(* A number below a quotient.                                              *)
LEMMA BelowQuotient ==
    ASSUME NEW x \in Nat, NEW m \in Nat \ {0}, NEW s \in Nat
    PROVE  s < x \div m <=> m * (s + 1) <= x
<1> DEFINE q == x \div m
<1>1. q \in Nat /\ m * q <= x /\ x < m * q + m
  BY DivisionBounds
<1> HIDE DEF q
<1>2. ASSUME s < q PROVE m * (s + 1) <= x
  <2>1. s + 1 <= q
    BY <1>1, <1>2
  <2>2. m * (s + 1) <= m * q
    BY <1>1, <2>1
  <2>3. m * (s + 1) \in Nat /\ m * q \in Nat
    BY <1>1
  <2> QED
    BY <1>1, <2>2, <2>3
<1>3. ASSUME ~(s < q) PROVE x < m * (s + 1)
  <2>1. q <= s
    BY <1>1, <1>3
  <2>2. m * q <= m * s
    BY <1>1, <2>1
  <2>3. m * (s + 1) = m * s + m /\ m * s \in Nat /\ m * q \in Nat
    BY <1>1
  <2> QED
    BY <1>1, <2>2, <2>3
<1>4. m * (s + 1) \in Nat
  OBVIOUS
<1>5. s < q <=> m * (s + 1) <= x
  BY <1>2, <1>3, <1>4
<1> QED
  BY <1>5 DEF q

(* The words, and the power of two of every width they have.               *)
LEMMA WordFacts ==
    /\ WordBits \in Nat \ {0}
    /\ \A k \in 0 .. WordBits + 1 : 2^k \in Nat \ {0}
    /\ MaxInt \in Nat
    /\ MaxUint = 2 * MaxInt + 1
    /\ 2^WordBits = MaxUint + 1
    /\ TimeOfRoundErrorValue \in Int
    /\ TimeOfRoundErrorValue <= MaxInt
<1>1. WordBits \in Nat \ {0} /\ BufferBits \in 0 .. WordBits - 1
  BY ClockAssumption
<1>2. /\ 2^0 = 1
      /\ \A k \in 0 .. WordBits : 2^k \in Nat /\ 2^(k + 1) = 2 * 2^k
  BY WordAssumption
<1>3. \A k \in 0 .. WordBits : 2^k # 0
  <2> DEFINE T == {k \in 0 .. WordBits : 2^k = 0}
  <2> SUFFICES ASSUME T # {} PROVE FALSE
    OBVIOUS
  <2>1. T \subseteq Nat
    BY <1>1
  <2>2. PICK x \in T : \A y \in T : x <= y
    BY <2>1, LeastNumber, Zenon
  <2>3. x # 0
    <3> SUFFICES ASSUME x = 0 PROVE FALSE
      OBVIOUS
    <3>1. 2^0 = 0
      BY Zenon
    <3> QED
      BY <1>2, <3>1
  <2>4. x - 1 \in 0 .. WordBits /\ (x - 1) + 1 = x
    BY <1>1, <2>3
  <2>5. 2^x = 2 * 2^(x - 1) /\ 2^(x - 1) \in Nat
    BY <1>2, <2>4
  <2>6. 2^(x - 1) = 0
    BY <2>5
  <2>7. x - 1 \in T
    BY <2>4, <2>6
  <2> QED
    BY <2>1, <2>2, <2>7
<1>4. 2^(WordBits + 1) \in Nat \ {0}
  <2>1. WordBits \in 0 .. WordBits
    BY <1>1
  <2> QED
    BY <1>2, <1>3, <2>1
<1>5. \A k \in 0 .. WordBits + 1 : 2^k \in Nat \ {0}
  <2> SUFFICES ASSUME NEW k \in 0 .. WordBits + 1 PROVE 2^k \in Nat \ {0}
    OBVIOUS
  <2>1. k = WordBits + 1 \/ k \in 0 .. WordBits
    BY <1>1
  <2> QED
    BY <1>2, <1>3, <1>4, <2>1
<1>6. 2^WordBits = 2 * 2^(WordBits - 1) /\ 2^(WordBits - 1) \in Nat \ {0}
  <2>1. WordBits - 1 \in 0 .. WordBits /\ (WordBits - 1) + 1 = WordBits
    BY <1>1
  <2> QED
    BY <1>2, <1>3, <2>1
<1>7. 2^BufferBits \in Nat
  BY <1>1, <1>2
<1> QED
  BY <1>1, <1>5, <1>6, <1>7 DEF MaxInt, MaxUint, TimeOfRoundErrorValue

(* The value of Log2: the position of the highest bit.                     *)
LEMMA Log2Value ==
    ASSUME NEW x \in Nat \ {0}, x <= MaxUint
    PROVE  /\ Log2(x) \in 0 .. WordBits - 1
           /\ 2^Log2(x) <= x
           /\ x < 2 * 2^Log2(x)
<1> DEFINE T == {k \in 0 .. WordBits - 1 : x < 2^(k + 1)}
<1>1. /\ WordBits \in Nat \ {0} /\ MaxUint \in Nat
      /\ 2^WordBits = MaxUint + 1
  BY WordFacts
<1>2. /\ 2^0 = 1
      /\ \A k \in 0 .. WordBits : 2^k \in Nat /\ 2^(k + 1) = 2 * 2^k
  BY WordAssumption
<1>3. WordBits - 1 \in T
  <2>1. WordBits - 1 \in 0 .. WordBits - 1 /\ (WordBits - 1) + 1 = WordBits
    BY <1>1
  <2>2. x < 2^WordBits
    BY <1>1
  <2> QED
    BY <2>1, <2>2
<1>4. T \subseteq Nat
  BY <1>1
<1>5. PICK b \in T : \A y \in T : b <= y
  BY <1>3, <1>4, LeastNumber, Zenon
<1>6. b \in 0 .. WordBits - 1 /\ x < 2^(b + 1)
  OBVIOUS
<1>7. 2^b <= x
  <2>1. CASE b = 0
    BY <1>2, <2>1
  <2>2. CASE b # 0
    <3>1. b - 1 \in 0 .. WordBits - 1 /\ (b - 1) + 1 = b /\ ~(b <= b - 1)
      BY <1>1, <1>6, <2>2
    <3>2. b - 1 \notin T
      BY <1>5, <3>1
    <3>3. ~(x < 2^b)
      BY <3>1, <3>2
    <3>4. 2^b \in Nat
      BY <1>1, <1>2, <1>6
    <3> QED
      BY <3>3, <3>4
  <2> QED
    BY <2>1, <2>2
<1> HIDE DEF T
<1>8. Log2(x) \in 0 .. WordBits /\ 2^Log2(x) <= x /\ x < 2^(Log2(x) + 1)
  <2>1. b \in 0 .. WordBits
    BY <1>1, <1>6
  <2>2. \E c \in 0 .. WordBits : 2^c <= x /\ x < 2^(c + 1)
    BY <1>6, <1>7, <2>1
  <2> QED
    BY <2>2, Zenon DEF Log2
<1>9. x < 2 * 2^Log2(x)
  BY <1>2, <1>8
<1>10. Log2(x) # WordBits
  BY <1>1, <1>8
<1> QED
  BY <1>1, <1>8, <1>9, <1>10

(* The guard of TimeOfRound leaves room: the product and the sum fit in a  *)
(* signed word.  B is the highest bit of p + 1, M the largest signed word. *)
LEMMA RoomForProduct ==
    ASSUME NEW p \in Nat \ {0}, NEW g \in Nat, NEW s \in Nat \ {0, 1},
           NEW B \in Nat \ {0}, NEW M \in Nat,
           B <= p + 1, p + 1 < 2 * B, (p + 1) * g <= M,
           (4 * B) * s <= 2 * M + 1
    PROVE  g + (s - 2) * p <= M
<1> DEFINE u == B * s
           d == (s - 2) * p
<1>1. u \in Nat /\ (4 * B) * s = 4 * u
  OBVIOUS
<1>2. 2 * u <= M
  BY <1>1
<1>3. B # 1 /\ B >= 2
  OBVIOUS
<1>4. d \in Nat
  OBVIOUS
<1>5. d <= 2 * u - 2 * s - 4 * B + 4
  <2>1. s - 2 \in Nat /\ p <= 2 * B - 2 /\ 2 * B - 2 \in Nat
    OBVIOUS
  <2>2. (s - 2) * p <= (s - 2) * (2 * B - 2)
    BY <2>1
  <2>3. (s - 2) * (2 * B - 2) = 2 * (B * s) - 2 * s - 4 * B + 4
    OBVIOUS
  <2> QED
    BY <2>2, <2>3
<1>6. B * g <= M
  <2>1. B * g <= (p + 1) * g
    OBVIOUS
  <2>2. B * g \in Nat /\ (p + 1) * g \in Nat
    OBVIOUS
  <2> QED
    BY <2>1, <2>2
<1>7. CASE g <= 2 * s
  <2> HIDE DEF u, d
  <2> QED
    BY <1>1, <1>2, <1>3, <1>4, <1>5, <1>7 DEF d
<1>8. CASE g > 2 * s
  <2>1. (B - 1) * (g - 2 * s) >= 0
    <3>1. B - 1 \in Nat /\ g - 2 * s \in Nat
      BY <1>8
    <3> QED
      BY <3>1
  <2>2. (B - 1) * (g - 2 * s) = B * g - 2 * u - g + 2 * s
    OBVIOUS
  <2>3. B * g \in Nat
    OBVIOUS
  <2>4. g <= M - 2 * u + 2 * s
    <3> HIDE DEF u
    <3> QED
      BY <1>1, <1>6, <2>1, <2>2, <2>3
  <2> HIDE DEF u
  <2>5. d <= 2 * u - 2 * s
    BY <1>1, <1>3, <1>4, <1>5
  <2>6. g + d <= M
    <3> HIDE DEF d
    <3> QED
      BY <1>1, <1>4, <2>4, <2>5
  <2> QED
    BY <2>6
<1> QED
  BY <1>7, <1>8

(* The shift of the guard: two bits more than the highest bit of p + 1.    *)
LEMMA PeriodBits ==
    ASSUME NEW p \in Periods, NEW g \in Geneses
    PROVE  /\ 2^Log2(p + 1) \in Nat \ {0}
           /\ 2^(Log2(p + 1) + 2) \in Nat \ {0}
           /\ 2^(Log2(p + 1) + 2) = 4 * 2^Log2(p + 1)
           /\ 2^Log2(p + 1) <= p + 1
           /\ p + 1 < 2 * 2^Log2(p + 1)
<1> DEFINE l == Log2(p + 1)
<1>1. p + 1 \in Nat \ {0} /\ p + 1 <= MaxUint
  <2>1. p \in Nat \ {0} /\ MaxNow \in Nat
    BY ClockAssumption
  <2>2. 8 * (MaxNow + 3 * p) <= MaxUint
    BY WordAssumption
  <2>3. MaxUint \in Nat
    BY WordFacts
  <2> QED
    BY <2>1, <2>2, <2>3
<1>2. l \in 0 .. WordBits - 1 /\ 2^l <= p + 1 /\ p + 1 < 2 * 2^l
  BY <1>1, Log2Value
<1>3. WordBits \in Nat /\ \A k \in 0 .. WordBits + 1 : 2^k \in Nat \ {0}
  BY WordFacts
<1>4. \A k \in 0 .. WordBits : 2^(k + 1) = 2 * 2^k
  BY WordAssumption
<1> HIDE DEF l
<1>5. l \in 0 .. WordBits /\ l + 1 \in 0 .. WordBits /\ (l + 1) + 1 = l + 2
  BY <1>2, <1>3
<1>6. 2^l \in Nat \ {0} /\ 2^(l + 1) = 2 * 2^l /\ 2^(l + 2) = 2 * 2^(l + 1)
  BY <1>3, <1>4, <1>5
<1>7. 2^l \in Nat \ {0} /\ 2^(l + 2) = 4 * 2^l /\ 2^(l + 2) \in Nat \ {0}
  BY <1>6
<1> QED
  BY <1>2, <1>7 DEF l

(* What the guard lets through is computed without a wrap-around.          *)
LEMMA TimeWithoutWrap ==
    ASSUME NEW p \in Periods, NEW g \in Geneses, NEW round \in Nat \ {0},
           round < MaxUint \div 2^(Log2(p + 1) + 2)
    PROVE  ToInt(g + ToInt(((round - 1) * p) % 2^WordBits)) = RoundTime(p, g, round)
<1> DEFINE B == 2^Log2(p + 1)
           m == 2^(Log2(p + 1) + 2)
           d == (round - 1) * p
<1>1. p \in Nat \ {0} /\ g \in Nat
  BY ClockAssumption
<1>2. /\ MaxInt \in Nat /\ MaxUint \in Nat /\ MaxUint = 2 * MaxInt + 1
      /\ 2^WordBits = MaxUint + 1
  BY WordFacts
<1>3. (p + 1) * g <= MaxInt
  BY WordAssumption
<1>4. /\ B \in Nat \ {0} /\ m \in Nat \ {0} /\ m = 4 * B
      /\ B <= p + 1 /\ p + 1 < 2 * B
  BY PeriodBits
<1>5. m * (round + 1) <= MaxUint
  BY <1>2, <1>4, BelowQuotient
<1>6. d \in Nat
  BY <1>1
<1>7. g + d <= MaxInt
  <2>1. round + 1 \in Nat \ {0, 1} /\ (round + 1) - 2 = round - 1
    OBVIOUS
  <2>2. (4 * B) * (round + 1) <= 2 * MaxInt + 1
    BY <1>2, <1>4, <1>5
  <2> HIDE DEF B, m
  <2>3. g + ((round + 1) - 2) * p <= MaxInt
    BY <1>1, <1>2, <1>3, <1>4, <2>1, <2>2, RoomForProduct
  <2> QED
    BY <2>1, <2>3
<1> HIDE DEF d, B, m
<1>8. ASSUME NEW y \in Nat, y <= MaxInt PROVE y % 2^WordBits = y /\ ToInt(y) = y
  <2>1. 2^WordBits \in Nat \ {0} /\ y < 2^WordBits
    BY <1>2, <1>8
  <2>2. y % 2^WordBits = y
    BY <2>1, RemainderOfSmall
  <2> QED
    BY <1>2, <1>8, <2>2 DEF ToInt
<1>9. d <= MaxInt /\ g + d \in Nat
  BY <1>1, <1>2, <1>6, <1>7
<1>10. d % 2^WordBits = d /\ ToInt(d) = d
  BY <1>6, <1>8, <1>9
<1>11. ToInt(g + d) = g + d
  BY <1>7, <1>8, <1>9
<1>12. ToInt(g + ToInt(d % 2^WordBits)) = g + d
  BY <1>10, <1>11
<1> QED
  BY <1>12 DEF d, RoundTime

(* TimeOfRound returns the exact time or the error value, for every round  *)
(* that fits in a word, period and genesis: the guard on the round rules   *)
(* out every wrap-around of the product, of the conversion and of the sum. *)
THEOREM TimesAreExact == Spec => []TimeOfRoundExact
<1>1. TypeOK => TimeOfRoundExact
  <2> SUFFICES ASSUME TypeOK, NEW round \in 0 .. MaxUint
               PROVE  LET t == TimeOfRound(period, genesis, round)
                      IN  /\ t \in {RoundTime(period, genesis, round), TimeOfRoundErrorValue}
                          /\ t <= TimeOfRoundErrorValue
    BY DEF TimeOfRoundExact
  <2> DEFINE val == ToInt(genesis + ToInt(((round - 1) * period) % 2^WordBits))
  <2>1. /\ period \in Periods /\ genesis \in Geneses
        /\ period \in Nat \ {0} /\ genesis \in Nat /\ MaxNow \in Nat
    BY ClockAssumption DEF TypeOK
  <2>2. /\ TimeOfRoundErrorValue \in Int
        /\ MaxUint \in Nat
    BY WordFacts
  <2>3. genesis <= TimeOfRoundErrorValue
    BY <2>1, <2>2, WordAssumption
  <2>4. CASE round = 0
    BY <2>3, <2>4 DEF TimeOfRound, RoundTime
  <2>5. CASE round # 0 /\ round >= MaxUint \div 2^(Log2(period + 1) + 2)
    BY <2>2, <2>5 DEF TimeOfRound
  <2>6. CASE round # 0 /\ ~(round >= MaxUint \div 2^(Log2(period + 1) + 2))
    <3>1. round \in Nat \ {0}
      BY <2>2, <2>6
    <3>2. round < MaxUint \div 2^(Log2(period + 1) + 2)
      <4>1. 2^(Log2(period + 1) + 2) \in Nat \ {0}
        BY <2>1, PeriodBits
      <4>2. MaxUint \div 2^(Log2(period + 1) + 2) \in Nat
        BY <2>2, <4>1, DivisionBounds
      <4> QED
        BY <2>6, <3>1, <4>2
    <3>3. val = RoundTime(period, genesis, round)
      BY <2>1, <3>1, <3>2, TimeWithoutWrap
    <3>4. RoundTime(period, genesis, round) \in Int
      BY <2>1, <3>1 DEF RoundTime
    <3>5. TimeOfRound(period, genesis, round)
            = IF val > TimeOfRoundErrorValue THEN TimeOfRoundErrorValue ELSE val
      BY <2>1, <2>6 DEF TimeOfRound
    <3> HIDE DEF val
    <3> QED
      BY <2>2, <3>3, <3>4, <3>5
  <2> QED
    BY <2>4, <2>5, <2>6
<1> QED
  BY <1>1, TypeCorrect, PTL

(* The clock never passes its bound.                                       *)
LEMMA ClockBound == Spec => [](now <= MaxNow)
<1>1. Init => now <= MaxNow
  BY ClockAssumption DEF Init
<1>2. TypeOK /\ now <= MaxNow /\ [Next]_vars => (now <= MaxNow)'
  BY ClockAssumption DEF TypeOK, Next, Second, vars
<1> QED
  BY <1>1, <1>2, TypeCorrect, PTL DEF Spec

(* The time NextRound announces: not far ahead, and reached by the guard   *)
(* of TimeOfRound.                                                         *)
LEMMA AnnouncedTime ==
    ASSUME NEW t \in Nat, NEW p \in Nat \ {0}, NEW g \in Nat
    PROVE  /\ NextRound(t, p, g).time <= g + t + p
           /\ p * (NextRound(t, p, g).round + 1) <= t + 3 * p
<1>1. CASE t < g
  <2>1. NextRound(t, p, g) = [round |-> 1, time |-> g]
    BY <1>1 DEF NextRound
  <2>2. p * (1 + 1) = 2 * p
    OBVIOUS
  <2> QED
    BY <2>1, <2>2
<1>2. CASE ~(t < g)
  <2> DEFINE q == (t - g) \div p
  <2>1. t - g \in Nat
    BY <1>2
  <2>2. q \in Nat /\ p * q <= t - g
    BY <2>1, DivisionBounds
  <2>3. /\ NextRound(t, p, g).round = (q + 1) + 1
        /\ NextRound(t, p, g).time = g + (q + 1) * p
    BY <1>2 DEF NextRound
  <2> HIDE DEF q
  <2>4. p * q \in Nat /\ (q + 1) * p = p * q + p
    BY <2>2
  <2>5. p * (((q + 1) + 1) + 1) = p * q + 3 * p
    BY <2>2
  <2>6. NextRound(t, p, g).time <= g + t + p
    BY <2>1, <2>2, <2>3, <2>4
  <2>7. p * (NextRound(t, p, g).round + 1) = p * q + 3 * p
    BY <2>3, <2>5
  <2>8. p * q + 3 * p <= t + 3 * p
    BY <2>1, <2>2, <2>4
  <2> QED
    BY <2>6, <2>7, <2>8
<1> QED
  BY <1>1, <1>2

(* A transition time is the time of a round, for every period, genesis     *)
(* and moment of the setup: the sanity check of Transition and             *)
(* TransitionNewGroup never stops the program.                             *)
THEOREM TransitionsAreRounds == Spec => []TransitionTimeIsARound
<1>1. TypeOK /\ now <= MaxNow => TransitionTimeIsARound
  <2> SUFFICES ASSUME TypeOK, now <= MaxNow PROVE TransitionTimeIsARound
    OBVIOUS
  <2> DEFINE next  == NextRound(now, period, genesis)
             round == next.round
             m     == 2^(Log2(period + 1) + 2)
             B     == 2^Log2(period + 1)
             val   == ToInt(genesis + ToInt(((round - 1) * period) % 2^WordBits))
  <2>1. /\ now \in Nat /\ period \in Periods /\ genesis \in Geneses
        /\ period \in Nat \ {0} /\ genesis \in Nat /\ MaxNow \in Nat
    BY ClockAssumption DEF TypeOK
  <2>2. /\ round \in Nat \ {0}
        /\ next.time = genesis + (round - 1) * period
        /\ next.time \in Nat
    BY <2>1, NextRoundType
  <2>3. CurrentRound(next.time, period, genesis) = round
    <3>1. round - 1 \in Nat /\ (round - 1) + 1 = round
      BY <2>2
    <3>2. CurrentRound(genesis + (round - 1) * period, period, genesis) = (round - 1) + 1
      BY <2>1, <3>1, RoundOfItsTime
    <3> QED
      BY <2>2, <3>1, <3>2
  <2>4. /\ next.time <= genesis + now + period
        /\ period * (round + 1) <= now + 3 * period
    BY <2>1, AnnouncedTime, Zenon
  <2>5. /\ B \in Nat \ {0} /\ m \in Nat \ {0} /\ m = 4 * B
        /\ B <= period + 1
    BY <2>1, PeriodBits
  <2>6. /\ MaxUint \in Nat /\ TimeOfRoundErrorValue \in Int
        /\ 8 * (MaxNow + 3 * period) <= MaxUint
        /\ genesis + period + MaxNow <= TimeOfRoundErrorValue
    BY <2>1, WordFacts, WordAssumption
  <2>7. round < MaxUint \div m
    <3> HIDE DEF next, round, m, B
    <3>1. m <= 8 * period
      BY <2>1, <2>5
    <3>2. m * (round + 1) <= (8 * period) * (round + 1)
      BY <2>1, <2>2, <2>5, <3>1
    <3>3. (8 * period) * (round + 1) = 8 * (period * (round + 1))
      BY <2>1, <2>2
    <3>4. period * (round + 1) \in Nat /\ m * (round + 1) \in Nat
      BY <2>1, <2>2, <2>5
    <3>5. m * (round + 1) <= MaxUint
      BY <2>1, <2>4, <2>6, <3>2, <3>3, <3>4
    <3>6. round \in Nat
      BY <2>2
    <3> QED
      BY <2>5, <2>6, <3>5, <3>6, BelowQuotient
  <2>8. val = RoundTime(period, genesis, round)
    BY <2>1, <2>2, <2>7, TimeWithoutWrap
  <2>9. MaxUint \div m \in Nat
    BY <2>5, <2>6, DivisionBounds
  <2>10. TimeOfRound(period, genesis, round)
           = IF val > TimeOfRoundErrorValue THEN TimeOfRoundErrorValue ELSE val
    <3>1. round # 0 /\ ~(period < 0) /\ ~(round >= MaxUint \div m)
      <4> HIDE DEF next, round, m
      <4> QED
        BY <2>1, <2>2, <2>7, <2>9
    <3> QED
      BY <3>1 DEF TimeOfRound
  <2>11. val = next.time
    BY <2>2, <2>8 DEF RoundTime
  <2>12. ~(next.time > TimeOfRoundErrorValue)
    <3> HIDE DEF next
    <3> QED
      BY <2>1, <2>2, <2>4, <2>6
  <2>13. TimeOfRound(period, genesis, round) = next.time
    BY <2>10, <2>11, <2>12
  <2> QED
    BY <2>3, <2>13 DEF TransitionTimeIsARound
<1> QED
  BY <1>1, TypeCorrect, ClockBound, PTL
=============================================================================
