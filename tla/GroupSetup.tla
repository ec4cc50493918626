----------------------------- MODULE GroupSetup ------------------------------
(***************************************************************************)
(* The setup phase before a distributed key generation or a resharing      *)
(* (core/group_setup.go and its callers in drand_control.go and            *)
(* drand_public.go).  The operator of the leader starts a setup, whose     *)
(* manager collects the keys of the participants; the group is pushed to   *)
(* everyone, and the DKG starts when enough nodes have it.                 *)
(*                                                                         *)
(* A daemon has one lock for its state.  Three of its handlers send on a   *)
(* bounded channel while they hold it: ReceivedKey, the preemption of a    *)
(* running setup, and PushDKGInfo.  Such a handler that has to wait is     *)
(* kept in leaderLock or nodeLock.  The other handlers do their work under *)
(* the lock in one step.  A new command of an operator overtakes the one   *)
(* that still runs, so a daemon may have several at a time.                *)
(***************************************************************************)
EXTENDS Integers, Sequences, FiniteSets

CONSTANTS
    Leader,        \* the node that runs the setups
    Participant,   \* the nodes whose operators join them
    Key(_),        \* the public key of a node; its address is the node itself
    Threshold,     \* threshold of the new group
    Cases,         \* the values of <<old, wrongSecret, expected>> that are looked at
    OldThreshold,  \* threshold of the old group
    MaxSetups,     \* bound: commands given to the leader
    Commands(_),   \* bound: commands given to a participant
    MaxGiven,      \* bound: commands given to all nodes together
    MaxFaults      \* bound: lost calls and replies, and timeouts

Node == {Leader} \cup Participant
Setup == 1 .. MaxSetups
MinimumT(n) == (n \div 2) + 1
Free == <<>>

\* validInitPacket, for the setups that are started at all.
ASSUME SetupAssumption ==
    /\ OldThreshold \in Nat /\ MaxSetups \in Nat \ {0} /\ MaxFaults \in Nat /\ MaxGiven \in Nat
    /\ \A n \in Participant : Commands(n) \in Nat
    /\ Leader \notin Participant
    /\ Cases \subseteq (SUBSET Node) \X (SUBSET Participant) \X Nat
    /\ \A case \in Cases : Threshold \in MinimumT(case[3]) .. case[3]
    \* the nodes are finitely many, in the form that is used of it
    /\ \A S \in SUBSET Node : /\ Cardinality(S) \in Nat
                              /\ \A T \in SUBSET S : Cardinality(T) <= Cardinality(S)

VARIABLES
    old,         \* the nodes of the old group, {} for a fresh DKG
    wrongSecret, \* the participants that were given another secret
    expected,    \* number of nodes of the new group, the leader included
    \* the leader
    lead,        \* lead[c]: where the command that runs setup c is
    manager,     \* d.manager: the setup whose keys are taken, 0 for nil
    run,         \* run[c]: the goroutine of manager c
    inKeys,      \* inKeys[c]: the nodes whose keys manager c has
    pushKeyCh,   \* pushKeyCh[c]: keys that manager c has not looked at
    doneCh,      \* doneCh[c]: a signal waits in the channel of length one
    leaderLock,  \* what holds the leader's state lock and waits
    answer,      \* answer[c][n]: the reply of n to the push of group c
    counted,     \* counted[c]: the replies the leader has taken
    \* the participants, k counts the commands of a node
    cmd,         \* cmd[n][k]: where command k of n is
    receiver,    \* receiver[n]: d.receiver, 0 for nil
    recvCh,      \* recvCh[n][k]: group waiting in the receiver of k, 0 for none
    closed,      \* closed[n][k]: that receiver was stopped
    waitsOn,     \* waitsOn[n][k]: the receiver command k waits on
    group,       \* group[n][k]: the group command k runs the DKG with
    nodeLock,    \* nodeLock[n]: group whose push holds the lock of n, 0 for none
    crashed,     \* the daemons that stopped on a panic
    accepted,    \* accepted[c]: the nodes whose PushDKGInfo took group c
    faults       \* lost calls and replies, and timeouts, so far

leaderVars == <<lead, manager, run, inKeys, pushKeyCh, doneCh, leaderLock, counted>>
nodeVars == <<cmd, receiver, recvCh, closed, waitsOn, group, nodeLock, crashed, accepted>>
setupVars == <<old, wrongSecret, expected, leaderVars, nodeVars, answer, faults>>

Resharing == old # {}
Command(n) == 1 .. Commands(n)
\* nodeUnion(outgoing, incoming) without the leader.
PushTo(c) == (old \cup inKeys[c]) \ {Leader}
PerNode(v) == [n \in Participant |-> [k \in Command(n) |-> v]]

\* Another command may be given to some node.
MayCommand ==
    LET joined == {j \in Participant \X (1 .. MaxGiven) : j[2] \in Command(j[1]) /\ cmd[j[1]][j[2]] # "idle"}
    IN Cardinality({c \in Setup : lead[c] # "idle"}) + Cardinality(joined) < MaxGiven

SetupInit ==
    /\ \E case \in Cases : old = case[1] /\ wrongSecret = case[2] /\ expected = case[3]
    /\ lead = [c \in Setup |-> "idle"]
    /\ manager = 0
    /\ run = [c \in Setup |-> "idle"]
    /\ inKeys = [c \in Setup |-> {}]
    /\ pushKeyCh = [c \in Setup |-> <<>>]
    /\ doneCh = [c \in Setup |-> FALSE]
    /\ leaderLock = Free
    /\ answer = [c \in Setup |-> [n \in Participant |-> "none"]]
    /\ counted = [c \in Setup |-> {}]
    /\ cmd = PerNode("idle")
    /\ receiver = [n \in Participant |-> 0]
    /\ recvCh = PerNode(0)
    /\ closed = PerNode(FALSE)
    /\ waitsOn = PerNode(0)
    /\ group = PerNode(0)
    /\ nodeLock = [n \in Participant |-> 0]
    /\ crashed = {}
    /\ accepted = [c \in Setup |-> {}]
    /\ faults = 0

\* Something fails that the code only sees as an error.
Fault == faults < MaxFaults /\ faults' = faults + 1

------------------------------------------------------------------------------
(* The leader's command: InitDKG or InitReshare with leaderRunSetup.       *)

\* newDKGSetup or newReshareSetup, and the manager's goroutine.
NewSetup(c) ==
    \/ /\ manager' = c
       /\ run' = [run EXCEPT ![c] = "collecting"]
       /\ inKeys' = [inKeys EXCEPT ![c] = {Leader}]
       /\ lead' = [lead EXCEPT ![c] = "waiting"]
    \/ /\ lead' = [lead EXCEPT ![c] = "failed"]    \* invalid numbers
       /\ UNCHANGED <<manager, run, inKeys>>

\* A manager that is there is preempted.  Its StopPreemptively has to wait, with
\* the lock, while a signal is in doneCh.
LeadCommand(c) ==
    /\ leaderLock = Free /\ MayCommand
    /\ lead[c] = "idle" /\ \A d \in 1 .. c - 1 : lead[d] # "idle"
    /\ \/ /\ manager # 0 /\ doneCh[manager]
          /\ leaderLock' = <<"stop", c>>
          /\ lead' = [lead EXCEPT ![c] = "preempting"]
          /\ UNCHANGED <<manager, run, inKeys, doneCh>>
       \/ /\ manager = 0
          /\ NewSetup(c)
          /\ UNCHANGED <<doneCh, leaderLock>>
       \/ /\ manager # 0 /\ ~doneCh[manager]
          /\ doneCh' = [doneCh EXCEPT ![manager] = TRUE]
          /\ NewSetup(c)
          /\ UNCHANGED leaderLock
    /\ UNCHANGED <<old, wrongSecret, expected, faults, pushKeyCh, counted, nodeVars, answer>>

\* The preemption that waited: the old manager has taken the earlier signal.
Preempt(c) ==
    /\ leaderLock = <<"stop", c>>
    /\ ~doneCh[manager]
    /\ doneCh' = [doneCh EXCEPT ![manager] = TRUE]
    /\ leaderLock' = Free
    /\ NewSetup(c)
    /\ UNCHANGED <<old, wrongSecret, expected, faults, pushKeyCh, counted, nodeVars, answer>>

\* Mutant: a preempted command clears d.manager, too.
LeadGroupClears(c) ==
    /\ lead[c] = "waiting" /\ run[c] \in {"done", "preempted"}
    /\ lead' = [lead EXCEPT ![c] = IF run[c] = "done" THEN "created" ELSE "failed"]
    /\ manager' = IF run[c] = "done" THEN manager ELSE 0
    /\ UNCHANGED <<old, wrongSecret, expected, faults, run, inKeys, pushKeyCh, doneCh, leaderLock, counted, nodeVars, answer>>

\* The select of leaderRunSetup, up to its deferred function.
LeadGroup(c) ==
    /\ lead[c] = "waiting"
    /\ \/ run[c] = "done" /\ lead' = [lead EXCEPT ![c] = "created"]
       \/ run[c] = "preempted" /\ lead' = [lead EXCEPT ![c] = "failed"]
    /\ UNCHANGED <<old, wrongSecret, expected, faults, manager, run, inKeys, pushKeyCh, doneCh, leaderLock, counted, nodeVars, answer>>

LeadTimeout(c) ==
    /\ lead[c] = "waiting"
    /\ lead' = [lead EXCEPT ![c] = "expired"]
    /\ Fault
    /\ UNCHANGED <<old, wrongSecret, expected, manager, run, inKeys, pushKeyCh, doneCh, leaderLock, counted, nodeVars, answer>>

LeadStop(c) ==
    /\ lead[c] = "expired"
    /\ ~doneCh[c]
    /\ doneCh' = [doneCh EXCEPT ![c] = TRUE]
    /\ lead' = [lead EXCEPT ![c] = "stopped"]
    /\ UNCHANGED <<old, wrongSecret, expected, faults, manager, run, inKeys, pushKeyCh, leaderLock, counted, nodeVars, answer>>

\* The deferred function, and for a created group the checks of InitReshare,
\* which fail when the transition time has passed meanwhile.
LeadClear(c) ==
    /\ lead[c] \in {"created", "stopped"}
    /\ leaderLock = Free
    /\ manager' = 0
    /\ \/ lead[c] = "stopped" /\ lead' = [lead EXCEPT ![c] = "timedOut"]
       \/ lead[c] = "created" /\ lead' = [lead EXCEPT ![c] = "pushing"]
       \/ lead[c] = "created" /\ Resharing /\ lead' = [lead EXCEPT ![c] = "failed"]
    /\ UNCHANGED <<old, wrongSecret, expected, faults, run, inKeys, pushKeyCh, doneCh, leaderLock, counted, nodeVars, answer>>

------------------------------------------------------------------------------
(* The manager's goroutine.                                                *)

Duplicate(c, n) == n \in inKeys[c] \/ \E m \in inKeys[c] : Key(m) = Key(n)

\* One key: the last one needed makes the manager send itself a signal, which
\* waits for ever when one is there, and create the group.
CollectKey(c) ==
    LET n == Head(pushKeyCh[c])
        have == inKeys[c] \cup {n}
    IN /\ run[c] = "collecting"
       /\ pushKeyCh[c] # <<>>
       /\ pushKeyCh' = [pushKeyCh EXCEPT ![c] = Tail(@)]
       /\ \/ /\ Duplicate(c, n)
             /\ UNCHANGED <<run, inKeys, doneCh>>
          \/ /\ ~Duplicate(c, n)
             /\ inKeys' = [inKeys EXCEPT ![c] = have]
             /\ \/ /\ Cardinality(have) # expected
                   /\ UNCHANGED <<run, doneCh>>
                \/ /\ Cardinality(have) = expected
                   /\ doneCh' = [doneCh EXCEPT ![c] = TRUE]
                   /\ run' = [run EXCEPT ![c] = IF doneCh[c] THEN "blocked" ELSE "done"]
       /\ UNCHANGED <<old, wrongSecret, expected, faults, lead, manager, leaderLock, counted, nodeVars, answer>>

StopRun(c) ==
    /\ run[c] = "collecting" /\ doneCh[c]
    /\ run' = [run EXCEPT ![c] = "preempted"]
    /\ doneCh' = [doneCh EXCEPT ![c] = FALSE]
    /\ UNCHANGED <<old, wrongSecret, expected, faults, lead, manager, inKeys, pushKeyCh, leaderLock, counted, nodeVars, answer>>

------------------------------------------------------------------------------
(* A participant's command: setupAutomaticDKG or setupAutomaticResharing.  *)

Alive(n) == n \notin crashed
LockFree(n) == Alive(n) /\ nodeLock[n] = 0
Cmd(n, k, s) == cmd' = [cmd EXCEPT ![n][k] = s]

\* The receiver of the running command is stopped; newSetupReceiver asks the
\* leader for its identity and may fail.  A resharing needs --force for this,
\* and forgets the stopped receiver first.
JoinCommand(n, k) ==
    LET r == receiver[n]
        stop == IF r = 0 THEN closed ELSE [closed EXCEPT ![n][r] = TRUE]
    IN /\ LockFree(n) /\ MayCommand
       /\ cmd[n][k] = "idle" /\ \A j \in 1 .. k - 1 : cmd[n][j] # "idle"
       /\ \/ /\ r # 0 /\ Resharing
             /\ Cmd(n, k, "ended")
             /\ UNCHANGED <<receiver, closed, faults>>
          \/ /\ closed' = stop
             /\ receiver' = [receiver EXCEPT ![n] = k]
             /\ Cmd(n, k, "signal")
             /\ UNCHANGED faults
          \/ /\ closed' = stop
             /\ receiver' = [receiver EXCEPT ![n] = IF Resharing THEN 0 ELSE @]
             /\ Cmd(n, k, "ended")
             /\ Fault
       /\ UNCHANGED <<old, wrongSecret, expected, leaderVars, recvCh, waitsOn, group, nodeLock, crashed, accepted, answer>>

\* SignalDKGParticipant at the leader, with ReceivedKey.  The channel of the
\* keys has room for expected of them.
SignalDKGParticipant(n, k) ==
    /\ Alive(n) /\ cmd[n][k] = "signal"
    /\ leaderLock = Free
    /\ \/ /\ manager = 0 \/ n \in wrongSecret
          /\ Cmd(n, k, "ending")
          /\ UNCHANGED <<pushKeyCh, leaderLock>>
       \/ /\ manager # 0 /\ n \notin wrongSecret
          /\ \/ /\ Len(pushKeyCh[manager]) < expected
                /\ pushKeyCh' = [pushKeyCh EXCEPT ![manager] = Append(@, n)]
                /\ Cmd(n, k, "signalled")
                /\ UNCHANGED leaderLock
             \/ /\ Len(pushKeyCh[manager]) = expected
                /\ leaderLock' = <<"key", n, k>>
                /\ Cmd(n, k, "sending")
                /\ UNCHANGED pushKeyCh
    /\ UNCHANGED <<old, wrongSecret, expected, faults, lead, manager, run, inKeys, doneCh, counted, answer>>
    /\ UNCHANGED <<receiver, recvCh, closed, waitsOn, group, nodeLock, crashed, accepted>>

KeyTaken ==
    /\ leaderLock # Free /\ leaderLock[1] = "key"
    /\ LET n == leaderLock[2]
           k == leaderLock[3]
       IN /\ Len(pushKeyCh[manager]) < expected
          /\ pushKeyCh' = [pushKeyCh EXCEPT ![manager] = Append(@, n)]
          /\ cmd' = [cmd EXCEPT ![n][k] = IF @ = "sending" THEN "signalled" ELSE @]
    /\ leaderLock' = Free
    /\ UNCHANGED <<old, wrongSecret, expected, faults, lead, manager, run, inKeys, doneCh, counted, answer>>
    /\ UNCHANGED <<receiver, recvCh, closed, waitsOn, group, nodeLock, crashed, accepted>>

\* The call, or its reply, is lost or times out.
SignalFails(n, k) ==
    /\ Alive(n) /\ cmd[n][k] \in {"signal", "sending", "signalled"}
    /\ Cmd(n, k, "ending")
    /\ Fault
    /\ UNCHANGED <<old, wrongSecret, expected, leaderVars, receiver, recvCh, closed, waitsOn, group, nodeLock, crashed, accepted, answer>>

\* d.receiver is read again, without the lock, to call WaitDKGInfo: nil panics.
WaitDKGInfo(n, k) ==
    /\ Alive(n) /\ cmd[n][k] = "signalled"
    /\ \/ /\ receiver[n] = 0
          /\ crashed' = crashed \cup {n}
          /\ UNCHANGED <<cmd, waitsOn>>
       \/ /\ receiver[n] # 0
          /\ waitsOn' = [waitsOn EXCEPT ![n][k] = receiver[n]]
          /\ Cmd(n, k, "waiting")
          /\ UNCHANGED crashed
    /\ UNCHANGED <<old, wrongSecret, expected, faults, leaderVars, receiver, recvCh, closed, group, nodeLock, accepted, answer>>

\* The group arrives, or nil because the receiver was stopped.  The command
\* ends when the times of the group have passed or, in a DKG from scratch, when
\* the node is not in it.
ReceiveGroup(n, k) ==
    LET r == waitsOn[n][k]
        c == recvCh[n][r]
    IN /\ Alive(n) /\ cmd[n][k] = "waiting"
       /\ c # 0 \/ closed[n][r]
       /\ recvCh' = [recvCh EXCEPT ![n][r] = 0]
       /\ \/ /\ c # 0
             /\ ~Resharing => n \in inKeys[c]
             /\ group' = [group EXCEPT ![n][k] = c]
             /\ Cmd(n, k, "dkg")
             /\ UNCHANGED faults
          \/ /\ c # 0 => (~Resharing /\ n \notin inKeys[c])
             /\ Cmd(n, k, "ending")
             /\ UNCHANGED <<group, faults>>
          \/ /\ c # 0 /\ Fault          \* too late
             /\ Cmd(n, k, "ending")
             /\ UNCHANGED group
       /\ UNCHANGED <<old, wrongSecret, expected, leaderVars, receiver, closed, waitsOn, nodeLock, crashed, accepted, answer>>

\* The command times out, or its DKG is over.
CommandEnds(n, k) ==
    /\ Alive(n)
    /\ \/ cmd[n][k] = "waiting" /\ Fault
       \/ cmd[n][k] = "dkg" /\ UNCHANGED faults
    /\ Cmd(n, k, "ending")
    /\ UNCHANGED <<old, wrongSecret, expected, leaderVars, receiver, recvCh, closed, waitsOn, group, nodeLock, crashed, accepted, answer>>

\* The deferred function of the command.
ClearReceiver(n, k) ==
    /\ LockFree(n) /\ cmd[n][k] = "ending"
    /\ closed' = [closed EXCEPT ![n][k] = TRUE]
    /\ receiver' = [receiver EXCEPT ![n] = IF @ = k THEN 0 ELSE @]
    /\ Cmd(n, k, "ended")
    /\ UNCHANGED <<old, wrongSecret, expected, faults, leaderVars, recvCh, waitsOn, group, nodeLock, crashed, accepted, answer>>

------------------------------------------------------------------------------
(* The push of the group: pushDKGInfo at the leader, PushDKGInfo at a node. *)

Answer(c, n, a) == answer' = [answer EXCEPT ![c][n] = a]
\* The node took the group; its reply may be lost.
Reply(c, n) ==
    \/ Answer(c, n, "ok") /\ UNCHANGED faults
    \/ Answer(c, n, "error") /\ Fault

\* The handler of the node, which may be late.  A stopped receiver makes it
\* panic, a full one makes it wait with the lock.
PushDKGInfo(c, n) ==
    LET r == receiver[n] IN
    /\ lead[c] \in {"pushing", "dkg", "pushFailed"} /\ n \in PushTo(c) /\ answer[c][n] = "none"
    /\ LockFree(n)
    /\ \/ /\ r = 0 \/ n \in wrongSecret
          /\ Answer(c, n, "error")
          /\ UNCHANGED <<recvCh, nodeLock, crashed, accepted, faults>>
       \/ /\ r # 0 /\ n \notin wrongSecret
          /\ \/ /\ closed[n][r]
                /\ crashed' = crashed \cup {n}
                /\ Answer(c, n, "error")
                /\ UNCHANGED <<recvCh, nodeLock, accepted, faults>>
             \/ /\ ~closed[n][r] /\ recvCh[n][r] = 0
                /\ recvCh' = [recvCh EXCEPT ![n][r] = c]
                /\ accepted' = [accepted EXCEPT ![c] = @ \cup {n}]
                /\ Reply(c, n)
                /\ UNCHANGED <<nodeLock, crashed>>
             \/ /\ ~closed[n][r] /\ recvCh[n][r] # 0
                /\ nodeLock' = [nodeLock EXCEPT ![n] = c]
                /\ Answer(c, n, "pending")
                /\ UNCHANGED <<recvCh, crashed, accepted, faults>>
    /\ UNCHANGED <<old, wrongSecret, expected, leaderVars, cmd, receiver, closed, waitsOn, group>>

PushTaken(n) ==
    LET c == nodeLock[n]
        r == receiver[n]
    IN /\ Alive(n) /\ c # 0 /\ recvCh[n][r] = 0
       /\ recvCh' = [recvCh EXCEPT ![n][r] = c]
       /\ accepted' = [accepted EXCEPT ![c] = @ \cup {n}]
       /\ nodeLock' = [nodeLock EXCEPT ![n] = 0]
       /\ Reply(c, n)
       /\ UNCHANGED <<old, wrongSecret, expected, leaderVars, cmd, receiver, closed, waitsOn, group, crashed>>

\* The node cannot be reached, or answers too late.
PushFails(c, n) ==
    /\ lead[c] = "pushing" /\ n \in PushTo(c) /\ answer[c][n] = "none"
    /\ Answer(c, n, "error")
    /\ Fault
    /\ UNCHANGED <<old, wrongSecret, expected, leaderVars, nodeVars>>

\* The loop of pushDKGInfo takes a reply.
CountAnswer(c, n) ==
    /\ lead[c] = "pushing" /\ n \notin counted[c]
    /\ answer[c][n] \in {"ok", "error"}
    /\ counted' = [counted EXCEPT ![c] = @ \cup {n}]
    /\ UNCHANGED <<old, wrongSecret, expected, faults, lead, manager, run, inKeys, pushKeyCh, doneCh, leaderLock, nodeVars, answer>>

\* Mutant: every reply counts.
SucceededReplies(c) == {Leader} \cup counted[c]

\* previousThreshold and newThreshold, counted down.
Succeeded(c) == {Leader} \cup {n \in counted[c] : answer[c][n] = "ok"}
EnoughPushed(c) ==
    /\ Cardinality(Succeeded(c) \cap inKeys[c]) >= Threshold
    /\ Resharing => Cardinality(Succeeded(c) \cap old) >= OldThreshold

\* All replies are counted, or no reply came for a minute.
PushEnds(c) ==
    /\ lead[c] = "pushing"
    /\ IF counted[c] = PushTo(c) THEN UNCHANGED faults ELSE Fault
    /\ lead' = [lead EXCEPT ![c] = IF EnoughPushed(c) THEN "dkg" ELSE "pushFailed"]
    /\ UNCHANGED <<old, wrongSecret, expected, manager, run, inKeys, pushKeyCh, doneCh, leaderLock, counted, nodeVars, answer>>

------------------------------------------------------------------------------

LeaderStep(c) ==
    \/ Preempt(c) \/ LeadGroup(c) \/ LeadStop(c) \/ LeadClear(c)
    \/ CollectKey(c) \/ StopRun(c) \/ PushEnds(c)
    \/ \E n \in Participant : CountAnswer(c, n)

NodeStep(n) ==
    \/ PushTaken(n)
    \/ \E k \in Command(n) :
          \/ SignalDKGParticipant(n, k) \/ WaitDKGInfo(n, k) \/ ReceiveGroup(n, k)
          \/ CommandEnds(n, k) \/ ClearReceiver(n, k)
    \/ \E c \in Setup : PushDKGInfo(c, n)

SetupNext ==
    \/ \E c \in Setup : LeadCommand(c) \/ LeadTimeout(c) \/ LeaderStep(c)
    \/ KeyTaken
    \/ \E n \in Participant :
          \/ NodeStep(n)
          \/ \E k \in Command(n) : JoinCommand(n, k) \/ SignalFails(n, k)
          \/ \E c \in Setup : PushFails(c, n)

SetupSpec == SetupInit /\ [][SetupNext]_setupVars
------------------------------------------------------------------------------
(* Properties.                                                             *)

LeadState == {"idle", "preempting", "waiting", "created", "expired", "stopped", "timedOut",
              "failed", "pushing", "pushFailed", "dkg"}
CommandState == {"idle", "signal", "sending", "signalled", "waiting", "dkg", "ending", "ended"}

\* The type of the state.
SetupTypeOK ==
    /\ <<old, wrongSecret, expected>> \in Cases
    /\ lead \in [Setup -> LeadState]
    /\ manager \in 0 .. MaxSetups
    /\ run \in [Setup -> {"idle", "collecting", "done", "preempted", "blocked"}]
    /\ inKeys \in [Setup -> SUBSET Node]
    /\ \A c \in Setup : pushKeyCh[c] \in Seq(Participant) /\ Len(pushKeyCh[c]) <= expected
    /\ doneCh \in [Setup -> BOOLEAN]
    /\ answer \in [Setup -> [Participant -> {"none", "pending", "ok", "error"}]]
    /\ counted \in [Setup -> SUBSET Participant]
    /\ \A n \in Participant : \A k \in Command(n) :
          /\ cmd[n][k] \in CommandState
          /\ recvCh[n][k] \in 0 .. MaxSetups /\ group[n][k] \in 0 .. MaxSetups
          /\ waitsOn[n][k] \in 0 .. Commands(n) /\ closed[n][k] \in BOOLEAN
    /\ \A n \in Participant : receiver[n] \in 0 .. Commands(n) /\ nodeLock[n] \in 0 .. MaxSetups
    /\ crashed \subseteq Participant
    /\ accepted \in [Setup -> SUBSET Participant]

\* A group that a DKG is started with, at the leader or at a participant, has
\* exactly the expected nodes, the leader among them, no two with one key, and
\* all of them knew the secret (setupManager.run and ReceivedKey).
GroupIsSound ==
    \A c \in Setup :
        (lead[c] \in {"pushing", "pushFailed", "dkg"} \/ \E n \in Participant : \E k \in Command(n) : group[n][k] = c) =>
            /\ Cardinality(inKeys[c]) = expected
            /\ Leader \in inKeys[c]
            /\ \A m, n \in inKeys[c] : Key(m) = Key(n) => m = n
            /\ inKeys[c] \cap wrongSecret = {}

\* The leader runs a DKG only when, itself included, a threshold of the new
\* group and one of the old group really took the group (pushDKGInfo counts
\* replies, not nodes that have the group).
EnoughHaveGroup ==
    \A c \in Setup : lead[c] = "dkg" =>
        /\ Cardinality((accepted[c] \cup {Leader}) \cap inKeys[c]) >= Threshold
        /\ Resharing => Cardinality((accepted[c] \cup {Leader}) \cap old) >= OldThreshold

\* A setup that still collects keys and was not told to stop is the one d.manager
\* names, so the keys reach it; it is lost only when an older command of the
\* leader timed out (the deferred function clears d.manager whoever set it).
CollectingIsCurrent ==
    \A c \in Setup :
        run[c] = "collecting" /\ ~doneCh[c] /\ lead[c] = "waiting" =>
            manager = c \/ \E d \in 1 .. c - 1 : lead[d] = "timedOut"

\* While at most one command was given to a participant, its daemon does not
\* panic, no push waits with its lock unless two groups were pushed to it, and
\* the command waits on the receiver it made (d.receiver is read again without
\* the lock).
OneCommandIsSafe ==
    \A n \in Participant : (\A k \in Command(n) : k > 1 => cmd[n][k] = "idle") =>
        /\ n \notin crashed
        /\ nodeLock[n] # 0 => \E c \in Setup : c # nodeLock[n] /\ n \in accepted[c]
        /\ \A k \in Command(n) : waitsOn[n][k] \in {0, k}

\* A group is in a receiver, or is used for a DKG, only if its leader pushed it
\* and the participant took it: no group is made up or kept from a setup that
\* was preempted before its group was created.
GroupWasPushed ==
    \A n \in Participant : \A k \in Command(n) : \A c \in {recvCh[n][k], group[n][k]} \ {0} :
        /\ n \in accepted[c] /\ n \in PushTo(c)
        /\ run[c] = "done"

\* StopPreemptively is only called before the group is created (the comment at
\* its definition), so it never waits, here with the lock of the daemon, for a
\* manager that is done and will not take the signal.
StopBeforeGroup ==
    leaderLock # Free /\ leaderLock[1] = "stop" /\ doneCh[manager] => run[manager] = "collecting"

(***************************************************************************)
(* A DKG starts with the right group and with enough nodes that have it    *)
(* (setupManager.run, pushDKGInfo, setupAutomaticDKG).                     *)
(***************************************************************************)
DKGStartsRight ==
    /\ SetupTypeOK
    /\ GroupIsSound
    /\ EnoughHaveGroup
    /\ GroupWasPushed

(***************************************************************************)
(* Setups and commands that overtake each other do not take each other's   *)
(* keys, managers and receivers, but in the cases named here.              *)
(***************************************************************************)
SetupsKeepApart ==
    /\ CollectingIsCurrent
    /\ OneCommandIsSafe
==============================================================================
