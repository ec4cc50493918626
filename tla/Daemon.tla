------------------------------- MODULE Daemon -------------------------------
(***************************************************************************)
(* The life of one drand daemon (core/drand.go, core/drand_control.go) over *)
(* the files of its folder (key/store.go) and its database: starting fresh  *)
(* or from disk, running a DKG or a resharing, creating the beacon,         *)
(* following a chain, stopping, crashing and being reset.                   *)
(*                                                                         *)
(* Every command runs in a goroutine of its own; the steps between two      *)
(* acquisitions of d.state are one action.  Only newBeacon and the saving   *)
(* part of WaitDKG hold the lock over several steps.  A key is known by its *)
(* epoch: the number of the DKG or resharing that made it.                  *)
(***************************************************************************)
EXTENDS Naturals, FiniteSets

CONSTANTS Task,        \* control commands that may be in flight together
          Follow,      \* follow requests that may be in flight together
          Endless,     \* those of them that follow forever (UpTo is 0)
          MaxEpoch,    \* bound on DKGs and resharings started
          MaxCrashes   \* bound on crashes and resets

None == "none"
Torn == MaxEpoch + 1
Boot == "boot"      \* the StartBeacon of startCmd
Starter == Task \cup {Boot}

ASSUME DaemonAssumption ==
  /\ MaxEpoch \in Nat
  /\ None \notin Starter /\ Boot \notin Task /\ None \notin Follow

VARIABLES proc,      \* "up" or "down"
          shareF,    \* dist_key.private: an epoch, 0 when there is none, Torn
          groupF,    \* drand_group.toml
          db,        \* holder of the lock on the database file
          lock,      \* holder of d.state over several steps
          share,     \* d.share, 0 when nil
          inGroup,   \* d.group, 0 when nil
          dkgDone,   \* d.dkgDone
          dkgInfo,   \* the command whose dkgInfo is in d.dkgInfo, or None
          boards,    \* commands whose broadcast board runs
          beacon,    \* d.beacon: None, or "made", "runs"
          pc,        \* where each command is
          kind,      \* "dkg", "join" (resharing as a new node) or "stay"
          target,    \* epoch a command aims at
          on,        \* epoch of the protocol a command waits on
          ended,     \* protocols whose only result was received
          syncerCancel, \* the follow whose cancel function is in d
          follow,    \* where each follow request is
          cancelled, \* follows whose context is done
          epoch,     \* DKGs and resharings started so far
          crashes,   \* crashes and resets so far
          mixed,     \* why the two files may be of different epochs
          overlap,   \* commands whose DKG ran alongside another one's
          panicked   \* why the process hit a nil pointer, None if it did not

daemonVars == <<proc, shareF, groupF, db, lock, share, inGroup, dkgDone, dkgInfo,
                boards, beacon, pc, kind, target, on, ended, syncerCancel,
                follow, cancelled, epoch, crashes, mixed, overlap, panicked>>
diskVars == <<shareF, groupF, mixed>>
followVars == <<syncerCancel, follow, cancelled>>
taskVars == <<pc, kind, target, on, ended, overlap>>
counters == <<epoch, crashes, panicked>>

Unlocked == proc = "up" /\ lock = None
At(t, where) == proc = "up" /\ pc[t] = where

\* The memory of a process that has just started without any key.
Fresh ==
  /\ lock' = None /\ share' = 0 /\ inGroup' = 0 /\ dkgDone' = FALSE
  /\ dkgInfo' = None /\ boards' = {} /\ beacon' = None
  /\ kind' = [t \in Task |-> "dkg"] /\ target' = [t \in Task |-> 0]
  /\ on' = [t \in Task |-> 0] /\ ended' = {} /\ overlap' = {}
  /\ syncerCancel' = None /\ follow' = [f \in Follow |-> "off"] /\ cancelled' = {}

DaemonInit ==
  /\ proc = "down" /\ shareF = 0 /\ groupF = 0 /\ db = None
  /\ lock = None /\ share = 0 /\ inGroup = 0 /\ dkgDone = FALSE
  /\ dkgInfo = None /\ boards = {} /\ beacon = None
  /\ pc = [t \in Starter |-> "idle"] /\ kind = [t \in Task |-> "dkg"]
  /\ target = [t \in Task |-> 0] /\ on = [t \in Task |-> 0] /\ ended = {}
  /\ overlap = {}
  /\ syncerCancel = None /\ follow = [f \in Follow |-> "off"] /\ cancelled = {}
  /\ epoch = 0 /\ crashes = 0 /\ mixed = None /\ panicked = None

-----------------------------------------------------------------------------
(* Starting, stopping and dying. *)

\* key.Load: a file that is absent or was left empty cannot be decoded.
Loads(file) == file \in 1..MaxEpoch

\* startCmd: a node whose group and share both load starts its beacon, any
\* other waits for a DKG.
StartCmd ==
  /\ proc = "down" /\ panicked = None
  /\ proc' = "up"
  /\ IF Loads(groupF) /\ Loads(shareF)
     THEN /\ inGroup' = groupF /\ share' = shareF /\ dkgDone' = TRUE
          /\ pc' = [pc EXCEPT ![Boot] = "nb"]
     ELSE UNCHANGED <<inGroup, share, dkgDone, pc>>
  /\ UNCHANGED <<shareF, groupF, db, lock, dkgInfo, boards, beacon, kind, target,
                 on, ended, overlap, followVars, epoch, crashes, mixed, panicked>>

\* The process ends, by whatever cause: its memory and its file lock go.
Dies ==
  /\ proc' = "down" /\ db' = None /\ Fresh
  /\ pc' = [t \in Starter |-> "idle"]

Crash ==
  /\ proc = "up" /\ crashes < MaxCrashes
  /\ Dies /\ crashes' = crashes + 1
  /\ mixed' = IF \E t \in Task : pc[t] = "shared" THEN "crash" ELSE mixed
  /\ UNCHANGED <<shareF, groupF, epoch, panicked>>

\* A nil pointer in a goroutine nothing recovers ends the process.
Panics(why) ==
  /\ Dies /\ panicked' = why
  /\ UNCHANGED <<shareF, groupF, mixed, epoch, crashes>>

\* StopBeacon, the first half of Stop.
StopBeacon ==
  /\ Unlocked /\ beacon # None
  /\ beacon' = None
  /\ db' = IF db = "beacon" THEN None ELSE db
  /\ UNCHANGED <<proc, diskVars, lock, share, inGroup, dkgDone, dkgInfo, boards,
                 taskVars, followVars, counters>>

\* The rest of Stop, which takes d.state again: the listeners and the control
\* port close, startCmd returns.
Stop ==
  /\ Unlocked
  /\ Dies
  /\ UNCHANGED <<shareF, groupF, mixed, counters>>

\* resetCmd, an offline command: share, group, then the whole database
\* folder, whose lock file is unlinked with it.
Reset ==
  /\ crashes < MaxCrashes /\ shareF + groupF > 0
  /\ shareF' = 0 /\ groupF' = 0 /\ mixed' = None
  /\ db' = None /\ crashes' = crashes + 1
  /\ UNCHANGED <<proc, lock, share, inGroup, dkgDone, dkgInfo, boards, beacon,
                 taskVars, followVars, epoch, panicked>>

-----------------------------------------------------------------------------
(* InitDKG and InitReshare, from the command to the saved share. *)

Begin(t, k) ==
  /\ pc[t] = "idle" /\ epoch < MaxEpoch
  /\ pc' = [pc EXCEPT ![t] = "setup"]
  /\ kind' = [kind EXCEPT ![t] = k]
  /\ epoch' = epoch + 1
  /\ target' = [target EXCEPT ![t] = epoch + 1]
  /\ overlap' = overlap \ {t}
  /\ UNCHANGED <<proc, diskVars, db, lock, share, inGroup, dkgDone, dkgInfo, boards,
                 beacon, on, ended, followVars, crashes, panicked>>

InitDKG(t) == Unlocked /\ ~dkgDone /\ Begin(t, "dkg")

\* A node without a group in memory reshares from a group file it is given.
InitReshare(t) == Unlocked /\ Begin(t, IF inGroup = 0 THEN "join" ELSE "stay")

\* Only pc changes.
Goto(t, where) ==
  /\ pc' = [pc EXCEPT ![t] = where]
  /\ UNCHANGED <<proc, diskVars, db, lock, share, inGroup, dkgDone, dkgInfo, boards,
                 beacon, kind, target, on, ended, overlap, followVars, counters>>

SetupFails(t) == At(t, "setup") /\ Goto(t, "idle")

\* The first critical section of runResharing: an old node needs its share,
\* and no DKG in progress.
ReshareCheck(t) ==
  /\ At(t, "setup") /\ lock = None /\ kind[t] # "dkg"
  /\ Goto(t, IF kind[t] = "stay" /\ (dkgInfo # None \/ share = 0)
             THEN "idle" ELSE "checked")

\* Commands between the two.
Inside == {t \in Task : pc[t] \in {"wait", "dkg", "took", "share", "shared", "group", "saved"}}

RunDKG(t) ==
  /\ Unlocked /\ pc[t] = (IF kind[t] = "dkg" THEN "setup" ELSE "checked")
  /\ dkgInfo' = t /\ boards' = boards \cup {t}
  /\ pc' = [pc EXCEPT ![t] = "wait"]
  /\ overlap' = IF Inside = {} THEN overlap ELSE overlap \cup Inside \cup {t}
  /\ UNCHANGED <<proc, diskVars, db, lock, share, inGroup, dkgDone, beacon, kind,
                 target, on, ended, followVars, counters>>

\* WaitDKG takes the channel of whatever DKG d.dkgInfo holds by then.
WaitDKG(t) ==
  /\ Unlocked /\ pc[t] = "wait"
  /\ pc' = [pc EXCEPT ![t] = IF dkgInfo = None THEN "err" ELSE "dkg"]
  /\ on' = [on EXCEPT ![t] = IF dkgInfo = None THEN 0 ELSE target[dkgInfo]]
  /\ UNCHANGED <<proc, diskVars, db, lock, share, inGroup, dkgDone, dkgInfo, boards,
                 beacon, kind, target, ended, overlap, followVars, counters>>

\* The DKG library sends one result, success or error, on that channel.
DkgEnds(t) ==
  /\ At(t, "dkg") /\ on[t] \notin ended
  /\ ended' = ended \cup {on[t]}
  /\ \E to \in {"took", "err"} : pc' = [pc EXCEPT ![t] = to]
  /\ UNCHANGED <<proc, diskVars, db, lock, share, inGroup, dkgDone, dkgInfo, boards,
                 beacon, kind, target, on, overlap, followVars, counters>>

\* WaitDKG with its result, d.state held: the share is set in memory, then its
\* file is created (truncated) ...
SaveShareOpen(t) ==
  /\ Unlocked /\ pc[t] = "took"
  /\ IF dkgInfo = None THEN Panics(IF t \in overlap THEN "overlap" ELSE "alone")
     ELSE /\ share' = on[t] /\ shareF' = Torn /\ lock' = t
          /\ pc' = [pc EXCEPT ![t] = "share"]
          /\ UNCHANGED <<proc, groupF, mixed, db, inGroup, dkgDone, dkgInfo, boards,
                         beacon, kind, target, on, ended, overlap, followVars, counters>>

\* ... or cannot be created: the command fails, the share stays in memory.
SaveShareFails(t) ==
  /\ Unlocked /\ pc[t] = "took" /\ dkgInfo # None
  /\ share' = on[t]
  /\ pc' = [pc EXCEPT ![t] = "err"]
  /\ UNCHANGED <<proc, diskVars, db, lock, inGroup, dkgDone, dkgInfo, boards, beacon,
                 kind, target, on, ended, overlap, followVars, counters>>

\* ... and written, which is lost when a reset has removed the file meanwhile.
SaveShareWrite(t) ==
  /\ At(t, "share")
  /\ shareF' = IF shareF = 0 THEN 0 ELSE share
  /\ pc' = [pc EXCEPT ![t] = "shared"]
  /\ UNCHANGED <<proc, groupF, mixed, db, lock, share, inGroup, dkgDone, dkgInfo,
                 boards, beacon, kind, target, on, ended, overlap, followVars, counters>>

\* Mutant: WaitDKG leaves the old group in memory.
SaveGroupKeeps(t) ==
  /\ At(t, "shared")
  /\ inGroup' = IF inGroup = 0 THEN target[dkgInfo] ELSE inGroup
  /\ groupF' = Torn
  /\ pc' = [pc EXCEPT ![t] = "group"]
  /\ UNCHANGED <<proc, shareF, mixed, db, lock, share, dkgDone, dkgInfo, boards,
                 beacon, kind, target, on, ended, overlap, followVars, counters>>

\* The same two steps for the group, which is the target of d.dkgInfo.
SaveGroupOpen(t) ==
  /\ At(t, "shared")
  /\ inGroup' = target[dkgInfo] /\ groupF' = Torn
  /\ pc' = [pc EXCEPT ![t] = "group"]
  /\ UNCHANGED <<proc, shareF, mixed, db, lock, share, dkgDone, dkgInfo, boards,
                 beacon, kind, target, on, ended, overlap, followVars, counters>>

SaveGroupWrite(t) ==
  /\ At(t, "group")
  /\ groupF' = IF groupF = 0 THEN 0 ELSE inGroup
  /\ mixed' = IF target[dkgInfo] = on[t] THEN None ELSE "overlap"
  /\ boards' = boards \ {dkgInfo} /\ dkgInfo' = None
  /\ lock' = None
  /\ pc' = [pc EXCEPT ![t] = "saved"]
  /\ UNCHANGED <<proc, shareF, db, share, inGroup, dkgDone, beacon, kind, target, on,
                 ended, overlap, followVars, counters>>

\* Creating the group's file fails, or writing either: what was set in memory
\* and what is on disk stay.
SaveFails(t) ==
  /\ \/ At(t, "share") /\ UNCHANGED <<inGroup, mixed>>
     \/ At(t, "shared") /\ inGroup' = target[dkgInfo] /\ mixed' = "failed"
     \/ At(t, "group") /\ mixed' = "failed" /\ UNCHANGED inGroup
  /\ lock' = None
  /\ pc' = [pc EXCEPT ![t] = "err"]
  /\ UNCHANGED <<proc, shareF, groupF, db, share, dkgDone, dkgInfo, boards, beacon, kind,
                 target, on, ended, overlap, followVars, counters>>

\* cleanupDKG, whoever's dkgInfo it is.
CleanupDKG == boards' = boards \ {dkgInfo} /\ dkgInfo' = None

\* The error path of runDKG and runResharing cleans up its own dkgInfo only.
DkgFails(t) ==
  /\ Unlocked /\ pc[t] = "err"
  /\ IF dkgInfo = t THEN CleanupDKG ELSE UNCHANGED <<boards, dkgInfo>>
  /\ pc' = [pc EXCEPT ![t] = "idle"]
  /\ UNCHANGED <<proc, diskVars, db, lock, share, inGroup, dkgDone, beacon, kind,
                 target, on, ended, overlap, followVars, counters>>

\* The success path of runDKG cleans up any, and starts the beacon.
DkgDone(t) ==
  /\ Unlocked /\ pc[t] = "saved" /\ kind[t] = "dkg"
  /\ CleanupDKG
  /\ dkgDone' = TRUE
  /\ pc' = [pc EXCEPT ![t] = "nb"]
  /\ UNCHANGED <<proc, diskVars, db, lock, share, inGroup, beacon, kind, target, on,
                 ended, overlap, followVars, counters>>

\* transition, the success path of runResharing: a staying node tells its
\* beacon (TransitionNewGroup), a new one creates it.
Transition(t) ==
  /\ Unlocked /\ pc[t] = "saved" /\ kind[t] # "dkg"
  /\ IF kind[t] = "stay" /\ beacon = None THEN Panics("beacon")
     ELSE Goto(t, IF kind[t] = "stay" THEN "idle" ELSE "nb")

-----------------------------------------------------------------------------
(* newBeacon: the database is opened with d.state held, and bolt waits for  *)
(* the file lock without limit; a follow in progress is cancelled after.    *)

NewBeacon(t) ==
  /\ Unlocked /\ pc[t] = "nb"
  /\ lock' = t /\ pc' = [pc EXCEPT ![t] = "open"]
  /\ UNCHANGED <<proc, diskVars, db, share, inGroup, dkgDone, dkgInfo, boards, beacon,
                 kind, target, on, ended, overlap, followVars, counters>>

BeaconOpens(t) ==
  /\ At(t, "open") /\ db = None
  /\ db' = "beacon" /\ beacon' = "made" /\ lock' = None
  /\ cancelled' = cancelled \cup ({syncerCancel} \ {None})
  /\ syncerCancel' = None
  /\ pc' = [pc EXCEPT ![t] = "start"]
  /\ UNCHANGED <<proc, diskVars, share, inGroup, dkgDone, dkgInfo, boards, kind,
                 target, on, ended, overlap, follow, counters>>

\* Start refuses when the genesis time has passed; Catchup and Transition
\* always run.
BeaconStarts(t) ==
  /\ At(t, "start")
  /\ \/ beacon' = IF beacon = None THEN None ELSE "runs"
     \/ t # Boot /\ kind[t] = "dkg" /\ UNCHANGED beacon
  /\ pc' = [pc EXCEPT ![t] = "idle"]
  /\ UNCHANGED <<proc, diskVars, db, lock, share, inGroup, dkgDone, dkgInfo, boards,
                 kind, target, on, ended, overlap, followVars, counters>>

-----------------------------------------------------------------------------
(* StartFollowChain. *)

\* Changes to the follow requests alone.
FollowStep ==
  UNCHANGED <<proc, diskVars, lock, share, inGroup, dkgDone, dkgInfo, boards, beacon,
              taskVars, counters>>

\* Mutant: a second follow is let in.
FollowStartAgain(f) ==
  /\ Unlocked /\ follow[f] = "off"
  /\ syncerCancel' = f /\ cancelled' = cancelled \ {f}
  /\ follow' = [follow EXCEPT ![f] = "info"]
  /\ UNCHANGED db /\ FollowStep

FollowStart(f) ==
  /\ Unlocked /\ follow[f] = "off" /\ syncerCancel = None
  /\ syncerCancel' = f /\ cancelled' = cancelled \ {f}
  /\ follow' = [follow EXCEPT ![f] = "info"]
  /\ UNCHANGED db /\ FollowStep

\* chainInfoFromPeers and the check of the hash succeed or not.
FollowInfo(f) ==
  /\ proc = "up" /\ follow[f] = "info"
  /\ \E to \in {"open", "end"} : follow' = [follow EXCEPT ![f] = to]
  /\ UNCHANGED <<db, syncerCancel, cancelled>> /\ FollowStep

FollowOpens(f) ==
  /\ proc = "up" /\ follow[f] = "open" /\ db = None
  /\ db' = f
  /\ follow' = [follow EXCEPT ![f] = "sync"]
  /\ UNCHANGED <<syncerCancel, cancelled>> /\ FollowStep

\* Follow returns: cancelled, or done with a request that has an end.  The
\* deferred Close releases the database.
FollowReturns(f) ==
  /\ proc = "up" /\ follow[f] = "sync"
  /\ f \in cancelled \/ f \notin Endless
  /\ db' = IF db = f THEN None ELSE db
  /\ follow' = [follow EXCEPT ![f] = "end"]
  /\ UNCHANGED <<syncerCancel, cancelled>> /\ FollowStep

\* The client of a follow leaves: its stream context is done.
FollowQuits(f) ==
  /\ proc = "up" /\ follow[f] \in {"info", "open", "sync"} /\ f \notin cancelled
  /\ cancelled' = cancelled \cup {f}
  /\ UNCHANGED <<db, follow, syncerCancel>> /\ FollowStep

\* The deferred function: whichever cancel function is in d is called.
FollowEnds(f) ==
  /\ Unlocked /\ follow[f] = "end"
  /\ cancelled' = (cancelled \cup ({syncerCancel} \ {None})) \ {f}
  /\ syncerCancel' = None
  /\ follow' = [follow EXCEPT ![f] = "off"]
  /\ UNCHANGED db /\ FollowStep

-----------------------------------------------------------------------------
TaskStep(t) ==
  \/ InitDKG(t) \/ InitReshare(t) \/ SetupFails(t) \/ ReshareCheck(t)
  \/ RunDKG(t) \/ WaitDKG(t) \/ DkgEnds(t) \/ SaveShareOpen(t)
  \/ SaveShareFails(t) \/ SaveShareWrite(t) \/ SaveGroupOpen(t)
  \/ SaveGroupWrite(t) \/ SaveFails(t) \/ DkgFails(t) \/ DkgDone(t) \/ Transition(t)

BeaconStep(t) == NewBeacon(t) \/ BeaconOpens(t) \/ BeaconStarts(t)

FollowMove(f) ==
  \/ FollowStart(f) \/ FollowInfo(f) \/ FollowOpens(f) \/ FollowReturns(f)
  \/ FollowQuits(f) \/ FollowEnds(f)

DaemonNext ==
  \/ StartCmd \/ Crash \/ StopBeacon \/ Stop \/ Reset
  \/ \E t \in Task : TaskStep(t)
  \/ \E t \in Starter : BeaconStep(t)
  \/ \E f \in Follow : FollowMove(f)

\* The goroutine inside newBeacon runs when it can, and so does a Follow that
\* was cancelled or reached its last round.  Nothing makes a client quit, an
\* operator give a command or a process crash.
DaemonFairness ==
  /\ \A t \in Starter : SF_daemonVars(BeaconOpens(t))
  /\ \A f \in Follow : WF_daemonVars(FollowReturns(f))

DaemonSpec == DaemonInit /\ [][DaemonNext]_daemonVars /\ DaemonFairness

-----------------------------------------------------------------------------
(***************************************************************************)
(* The type of the state.                                                  *)
(***************************************************************************)
DaemonTypeOK ==
  /\ proc \in {"up", "down"} /\ {shareF, groupF} \subseteq 0..Torn
  /\ {share, inGroup} \subseteq 0..MaxEpoch
  /\ db \in Follow \cup {None, "beacon"} /\ lock \in Starter \cup {None}
  /\ dkgInfo \in Task \cup {None} /\ boards \subseteq Task
  /\ beacon \in {None, "made", "runs"} /\ syncerCancel \in Follow \cup {None}

\* Whenever d.state is free, the share and the group of a running daemon come
\* from the same DKG or resharing, unless one of these happened: the process
\* died between SaveShare and SaveGroup of WaitDKG; a second command replaced
\* d.dkgInfo while the first waited for its result; or SaveShare or SaveGroup
\* failed, which leaves the new share in memory or on disk.
\* A restart does not notice: startCmd loads whatever two files it finds.
SavedTogether ==
  (Unlocked /\ share # 0 /\ inGroup # 0 /\ share # inGroup)
    => mixed # None \/ shareF # share

\* WaitDKG dereferences d.dkgInfo after d.state was released while it waited
\* for the result.  A command whose DKG ran alongside no other one finds its
\* own dkgInfo there.
AloneFindsDkgInfo == panicked # "alone"

\* A follow that still runs is the one whose cancel function d holds, so that
\* the newBeacon of a node joining the network, which cancels only that one,
\* leaves no follow writing to the database.
RunningFollowIsKnown ==
  \A f \in Follow : (follow[f] \in {"info", "open", "sync"} /\ f \notin cancelled)
                      => syncerCancel = f

\* newBeacon waits for the database with d.state held.  When a follow has it
\* open, newBeacon gets it in the end: d.state is not held forever.
BeaconOutlastsFollow ==
  \A t \in Starter : (pc[t] = "open" /\ db \in Follow) ~> (pc[t] # "open")

(***************************************************************************)
(* A DKG ends with its own result, in memory and on disk (WaitDKG,         *)
(* LoadDrand).                                                             *)
(***************************************************************************)
DKGEndsRight ==
    /\ DaemonTypeOK
    /\ SavedTogether
    /\ AloneFindsDkgInfo
=============================================================================
