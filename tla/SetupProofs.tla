----------------------------- MODULE SetupProofs ------------------------------
(***************************************************************************)
(* Proofs about the setup of a group (module GroupSetup), for any nodes,   *)
(* secrets, thresholds and number of setups and commands. A DKG starts     *)
(* with the right group and with enough nodes that have it. Setups and     *)
(* commands that overtake each other keep apart.                           *)
(***************************************************************************)
EXTENDS GroupSetup, TLAPS

(* The setup of a group.  The participants' state has two dimensions, with a *)
(* number of commands that depends on the participant.                       *)
Shaped(f, S) ==
    /\ f = [n \in Participant |-> [k \in Command(n) |-> f[n][k]]]
    /\ \A n \in Participant : \A k \in Command(n) : f[n][k] \in S

\* A value of a per-command function is of its type.
LEMMA ShapedAt ==
  ASSUME NEW S, NEW f, Shaped(f, S), NEW n \in Participant, NEW k \in Command(n)
  PROVE  f[n][k] \in S
BY Zenon DEF Shaped

\* The initial value of every per-command function.
LEMMA ShapedInit ==
  ASSUME NEW S, NEW v \in S
  PROVE  /\ Shaped(PerNode(v), S)
         /\ \A n \in Participant : \A k \in Command(n) : PerNode(v)[n][k] = v
<1>1. \A n \in Participant : PerNode(v)[n] = [k \in Command(n) |-> v]
    BY Zenon DEF PerNode
<1>2. \A n \in Participant : \A k \in Command(n) : PerNode(v)[n][k] = v
    BY <1>1, Zenon
<1>3. \A n \in Participant : [k \in Command(n) |-> v] = [k \in Command(n) |-> PerNode(v)[n][k]]
    BY <1>2, Zenon
<1>4. PerNode(v) = [n \in Participant |-> [k \in Command(n) |-> PerNode(v)[n][k]]]
    BY <1>3, Zenon DEF PerNode
<1> QED
    BY <1>2, <1>4, Zenon DEF Shaped

(* h is f but for command k of n.                                            *)
Placed(h, f, n, k, v, S) ==
    /\ Shaped(h, S)
    /\ h[n][k] = v
    /\ \A m \in Participant : \A j \in Command(m) : (m # n \/ j # k) => h[m][j] = f[m][j]

\* One command changes one value, and nothing else.
LEMMA ShapedExcept ==
  ASSUME NEW S, NEW f, Shaped(f, S), NEW n \in Participant, NEW k \in Command(n), NEW v \in S
  PROVE  Placed([f EXCEPT ![n][k] = v], f, n, k, v, S)
<1> DEFINE g == [f EXCEPT ![n][k] = v]
<1>1. f = [m \in Participant |-> [j \in Command(m) |-> f[m][j]]]
    BY Zenon DEF Shaped
<1> DEFINE row(m) == [j \in Command(m) |-> f[m][j]]
<1>2. f = [m \in Participant |-> row(m)]
    BY <1>1, Zenon
<1>3. \A m \in Participant : f[m] = row(m)
    BY <1>2, Zenon
<1>4. g = [m \in Participant |-> IF m = n THEN [f[n] EXCEPT ![k] = v] ELSE f[m]]
    BY <1>2, Zenon
<1>5. \A m \in Participant : g[m] = IF m = n THEN [f[n] EXCEPT ![k] = v] ELSE f[m]
    BY <1>4
<1>e. [f[n] EXCEPT ![k] = v] = [j \in Command(n) |-> IF j = k THEN v ELSE f[n][j]]
    BY <1>3, Zenon
<1>f. g[n] = [j \in Command(n) |-> IF j = k THEN v ELSE f[n][j]]
    BY <1>5, <1>e, Zenon
<1>g. \A m \in Participant : m # n => g[m] = [j \in Command(m) |-> f[m][j]]
  <2> SUFFICES ASSUME NEW m \in Participant, m # n PROVE g[m] = row(m)
      BY Zenon
  <2> QED
      BY <1>3, <1>5
<1> HIDE DEF g
<1>h. g[n][k] = v
    BY <1>f, Zenon
<1>i. ASSUME NEW m \in Participant, NEW j \in Command(m), m # n \/ j # k PROVE g[m][j] = f[m][j]
  <2>1. CASE m = n
    <3>1. j \in Command(n) /\ j # k
        BY <2>1, <1>i
    <3> QED
        BY <2>1, <3>1, <1>f, Zenon
  <2>2. CASE m # n
      BY <2>2, <1>g, Zenon
  <2> QED
      BY <2>1, <2>2, Zenon
<1>7. \A m \in Participant : g[m] = [j \in Command(m) |-> g[m][j]]
  <2> SUFFICES ASSUME NEW m \in Participant PROVE g[m] = [j \in Command(m) |-> g[m][j]]
      BY Zenon
  <2>1. CASE m = n
      BY <2>1, <1>f, Zenon
  <2>2. CASE m # n
      BY <2>2, <1>g, Zenon
  <2> QED
      BY <2>1, <2>2, Zenon
<1>8. g = [m \in Participant |-> g[m]]
    BY <1>4 DEF g
<1>9. g = [m \in Participant |-> [j \in Command(m) |-> g[m][j]]]
    BY <1>7, <1>8
<1>j. \A m \in Participant : \A j \in Command(m) : g[m][j] \in S
  <2> SUFFICES ASSUME NEW m \in Participant, NEW j \in Command(m) PROVE g[m][j] \in S
      BY Zenon
  <2>1. f[m][j] \in S
      BY ShapedAt, Zenon
  <2> QED
      BY <2>1, <1>h, <1>i, Zenon
<1>k. Shaped(g, S)
    BY <1>9, <1>j, Zenon DEF Shaped
<1>l. Placed(g, f, n, k, v, S)
    BY <1>h, <1>i, <1>k, Zenon DEF Placed
<1> QED
    BY <1>l, Zenon DEF g

\* The same for a function of one argument.
LEMMA PutAt ==
  ASSUME NEW D, NEW S, NEW f \in [D -> S], NEW c \in D, NEW v \in S, NEW h, h = [f EXCEPT ![c] = v]
  PROVE  /\ h \in [D -> S]
         /\ h[c] = v
         /\ \A d \in D : d # c => h[d] = f[d]
OBVIOUS

(* The same for the variables that hold a participant's commands.            *)
LEMMA CmdPut ==
  ASSUME Shaped(cmd, CommandState), NEW n \in Participant, NEW k \in Command(n), NEW s \in CommandState,
         cmd' = [cmd EXCEPT ![n][k] = s]
  PROVE  Placed(cmd', cmd, n, k, s, CommandState)
<1>1. Placed([cmd EXCEPT ![n][k] = s], cmd, n, k, s, CommandState)
    BY ShapedExcept, Zenon
<1> QED
    BY <1>1

\* ShapedExcept for recvCh.
LEMMA RecvPut ==
  ASSUME Shaped(recvCh, 0 .. MaxSetups), NEW n \in Participant, NEW k \in Command(n), NEW v \in 0 .. MaxSetups,
         recvCh' = [recvCh EXCEPT ![n][k] = v]
  PROVE  Placed(recvCh', recvCh, n, k, v, 0 .. MaxSetups)
<1>1. Placed([recvCh EXCEPT ![n][k] = v], recvCh, n, k, v, 0 .. MaxSetups)
    BY ShapedExcept, Zenon
<1> QED
    BY <1>1

\* ShapedExcept for group.
LEMMA GroupPut ==
  ASSUME Shaped(group, 0 .. MaxSetups), NEW n \in Participant, NEW k \in Command(n), NEW v \in 0 .. MaxSetups,
         group' = [group EXCEPT ![n][k] = v]
  PROVE  Placed(group', group, n, k, v, 0 .. MaxSetups)
<1>1. Placed([group EXCEPT ![n][k] = v], group, n, k, v, 0 .. MaxSetups)
    BY ShapedExcept, Zenon
<1> QED
    BY <1>1

\* ShapedExcept for waitsOn.
LEMMA WaitsPut ==
  ASSUME Shaped(waitsOn, Nat), NEW n \in Participant, NEW k \in Command(n), NEW v \in Nat,
         waitsOn' = [waitsOn EXCEPT ![n][k] = v]
  PROVE  Placed(waitsOn', waitsOn, n, k, v, Nat)
<1>1. Placed([waitsOn EXCEPT ![n][k] = v], waitsOn, n, k, v, Nat)
    BY ShapedExcept, Zenon
<1> QED
    BY <1>1

\* ShapedExcept for closed.
LEMMA ClosedPut ==
  ASSUME Shaped(closed, BOOLEAN), NEW n \in Participant, NEW k \in Command(n)
  PROVE  Placed([closed EXCEPT ![n][k] = TRUE], closed, n, k, TRUE, BOOLEAN)
<1>1. TRUE \in BOOLEAN
    OBVIOUS
<1> QED
    BY <1>1, ShapedExcept, Zenon
------------------------------------------------------------------------------
\* The states of a manager, and the ends of a push.
RunState == {"idle", "collecting", "done", "preempted", "blocked"}
Pushed == {"pushing", "pushFailed", "dkg"}

\* The types, by who changes them.
CaseTypes == <<old, wrongSecret, expected>> \in Cases

LeadTypes ==
    /\ lead \in [Setup -> LeadState]
    /\ manager \in 0 .. MaxSetups
    /\ run \in [Setup -> RunState]
    /\ inKeys \in [Setup -> SUBSET Node]
    /\ doneCh \in [Setup -> BOOLEAN]
    /\ counted \in [Setup -> SUBSET Participant]

KeyTypes ==
    /\ pushKeyCh \in [Setup -> Seq(Participant)]
    /\ \A c \in Setup : Len(pushKeyCh[c]) <= expected

ReplyTypes ==
    /\ answer \in [Setup -> [Participant -> {"none", "pending", "ok", "error"}]]
    /\ accepted \in [Setup -> SUBSET Participant]

NodeTypes ==
    /\ Shaped(cmd, CommandState)
    /\ Shaped(recvCh, 0 .. MaxSetups)
    /\ Shaped(group, 0 .. MaxSetups)
    /\ Shaped(closed, BOOLEAN)
    /\ Shaped(waitsOn, Nat)
    /\ \A n \in Participant : \A k \in Command(n) : waitsOn[n][k] \in 0 .. Commands(n)
    /\ receiver \in [Participant -> Nat]
    /\ \A n \in Participant : receiver[n] \in 0 .. Commands(n)
    /\ nodeLock \in [Participant -> 0 .. MaxSetups]
    /\ crashed \subseteq Participant

(* What a manager has: the keys of the leader and of nodes that knew the     *)
(* secret, all different, and as many as expected once it is done.  Keys     *)
(* that it has not looked at are of nodes that knew the secret.              *)
ManagerSound(c) ==
    /\ lead[c] \in {"idle", "preempting"} => run[c] = "idle"
    /\ lead[c] \in {"created"} \cup Pushed => run[c] = "done"
    /\ run[c] # "idle" => Leader \in inKeys[c]
    /\ run[c] = "done" => Cardinality(inKeys[c]) = expected
    /\ \A m, n \in inKeys[c] : Key(m) = Key(n) => m = n
    /\ inKeys[c] \cap wrongSecret = {}
    /\ \A i \in 1 .. Len(pushKeyCh[c]) : pushKeyCh[c][i] \notin wrongSecret

(* What waits with the leader's lock: the preemption of a manager, or the    *)
(* key of a node that knew the secret.                                       *)
WaitsWithLock ==
    \/ leaderLock = Free
    \/ /\ manager # 0
       /\ \/ \E c \in Setup : leaderLock = <<"stop", c>> /\ lead[c] = "preempting"
          \/ \E n \in Participant : \E k \in Command(n) :
                leaderLock = <<"key", n, k>> /\ n \notin wrongSecret

(* A push that waits with a participant's lock is the push of a group.       *)
PushWaits ==
    \A n \in Participant : nodeLock[n] # 0 =>
        n \in PushTo(nodeLock[n]) /\ run[nodeLock[n]] = "done" /\ receiver[n] # 0

(* A command waits on a receiver, and a good reply is of a node that took    *)
(* the group.                                                                *)
WaitsAndReplies ==
    /\ \A n \in Participant : \A k \in Command(n) : cmd[n][k] = "waiting" => waitsOn[n][k] # 0
    /\ \A c \in Setup : \A n \in Participant : answer[c][n] = "ok" => n \in accepted[c]

\* The parts of the leader and of the participants.
LeaderInv ==
    /\ CaseTypes /\ LeadTypes /\ KeyTypes
    /\ \A c \in Setup : ManagerSound(c)
    /\ WaitsWithLock

ParticipantInv ==
    /\ ReplyTypes /\ NodeTypes
    /\ GroupWasPushed /\ PushWaits /\ WaitsAndReplies /\ EnoughHaveGroup

SetupInv == LeaderInv /\ ParticipantInv

(* What a step of the leader keeps of a setup whose group is created.        *)
KeepsDone ==
    \A d \in Setup :
        /\ run[d] = "done" => run'[d] = "done" /\ inKeys'[d] = inKeys[d]
        /\ lead'[d] = "dkg" => inKeys'[d] = inKeys[d] /\ (lead[d] = "dkg" \/ EnoughPushed(d))

\* What every case of the setup is.
LEMMA CaseFacts ==
  ASSUME CaseTypes
  PROVE  old \subseteq Node /\ wrongSecret \subseteq Participant /\ expected \in Nat
         /\ Leader \notin wrongSecret /\ Leader \in Node
<1>1. <<old, wrongSecret, expected>> \in (SUBSET Node) \X (SUBSET Participant) \X Nat
    BY SetupAssumption, Zenon DEF CaseTypes
<1>2. old \subseteq Node /\ wrongSecret \subseteq Participant /\ expected \in Nat
    BY <1>1
<1> QED
    BY <1>2, SetupAssumption, Zenon DEF Node

\* The thresholds are numbers.
LEMMA ThresholdFacts ==
  ASSUME CaseTypes
  PROVE  Threshold \in Int /\ OldThreshold \in Int
<1>1. Threshold \in MinimumT(<<old, wrongSecret, expected>>[3]) .. <<old, wrongSecret, expected>>[3]
    BY SetupAssumption, Zenon DEF CaseTypes
<1>2. <<old, wrongSecret, expected>>[3] = expected
    OBVIOUS
<1>3. Threshold \in MinimumT(expected) .. expected
    BY <1>1, <1>2, Zenon
<1> QED
    BY <1>3, SetupAssumption

\* What is said of a setup depends on its own state only.
LEMMA SameManager ==
  ASSUME NEW d \in Setup, ManagerSound(d), lead'[d] = lead[d], run'[d] = run[d],
         inKeys'[d] = inKeys[d], pushKeyCh'[d] = pushKeyCh[d],
         wrongSecret' = wrongSecret, expected' = expected
  PROVE  ManagerSound(d)'
BY Zenon DEF ManagerSound

\* Nothing was sent yet.
LEMMA SetupInitInv == SetupInit => SetupInv
<1> SUFFICES ASSUME SetupInit PROVE SetupInv
    OBVIOUS
<1>1. CaseTypes
  <2>1. PICK case \in Cases : old = case[1] /\ wrongSecret = case[2] /\ expected = case[3]
      BY Zenon DEF SetupInit
  <2>2. case \in (SUBSET Node) \X (SUBSET Participant) \X Nat
      BY SetupAssumption, Zenon
  <2>3. case = <<case[1], case[2], case[3]>>
      BY <2>2
  <2> QED
      BY <2>1, <2>3, Zenon DEF CaseTypes
<1>2. lead = [c \in Setup |-> "idle"] /\ run = [c \in Setup |-> "idle"] /\ manager = 0
      /\ inKeys = [c \in Setup |-> {}] /\ doneCh = [c \in Setup |-> FALSE]
      /\ counted = [c \in Setup |-> {}] /\ pushKeyCh = [c \in Setup |-> <<>>] /\ leaderLock = Free
    BY Zenon DEF SetupInit
<1>3. MaxSetups \in Nat /\ \A n \in Participant : Commands(n) \in Nat
    BY SetupAssumption, Zenon
<1>4. LeadTypes
  <2>1. lead \in [Setup -> LeadState]
      BY <1>2 DEF LeadState
  <2>2. run \in [Setup -> RunState]
      BY <1>2 DEF RunState
  <2>3. inKeys \in [Setup -> SUBSET Node] /\ doneCh \in [Setup -> BOOLEAN] /\ counted \in [Setup -> SUBSET Participant]
      BY <1>2
  <2>4. manager \in 0 .. MaxSetups
      BY <1>2, <1>3
  <2> QED
      BY <2>1, <2>2, <2>3, <2>4, Zenon DEF LeadTypes
<1>5. KeyTypes
  <2>1. \A c \in Setup : pushKeyCh[c] = <<>>
      BY <1>2, Zenon
  <2>2. \A c \in Setup : Len(pushKeyCh[c]) <= expected
      BY <2>1, <1>1, CaseFacts
  <2>3. pushKeyCh \in [Setup -> Seq(Participant)]
      BY <1>2
  <2> QED
      BY <2>2, <2>3, Zenon DEF KeyTypes
<1>6. ASSUME NEW c \in Setup PROVE ManagerSound(c)
  <2>1. lead[c] = "idle" /\ run[c] = "idle" /\ inKeys[c] = {} /\ pushKeyCh[c] = <<>>
      BY <1>2, Zenon
  <2>2. \A i \in 1 .. Len(pushKeyCh[c]) : pushKeyCh[c][i] \notin wrongSecret
      BY <2>1
  <2>3. lead[c] \notin {"created"} \cup Pushed
      BY <2>1 DEF Pushed
  <2>4. \A m, n \in inKeys[c] : Key(m) = Key(n) => m = n
      BY <2>1, Zenon
  <2>5. inKeys[c] \cap wrongSecret = {}
      BY <2>1
  <2>6. run[c] # "done"
      BY <2>1
  <2> QED
      BY <2>1, <2>2, <2>3, <2>4, <2>5, <2>6, Zenon DEF ManagerSound
<1>7. WaitsWithLock
    BY <1>2, Zenon DEF WaitsWithLock
<1>8. ReplyTypes /\ \A c \in Setup : \A n \in Participant : answer[c][n] = "none"
  <2>1. answer = [c \in Setup |-> [n \in Participant |-> "none"]] /\ accepted = [c \in Setup |-> {}]
      BY Zenon DEF SetupInit
  <2> QED
      BY <2>1 DEF ReplyTypes
<1>9. /\ cmd = PerNode("idle") /\ recvCh = PerNode(0) /\ closed = PerNode(FALSE) /\ waitsOn = PerNode(0) /\ group = PerNode(0)
      /\ receiver = [n \in Participant |-> 0] /\ nodeLock = [n \in Participant |-> 0] /\ crashed = {}
    BY Zenon DEF SetupInit
<1>10. Shaped(cmd, CommandState) /\ \A n \in Participant : \A k \in Command(n) : cmd[n][k] = "idle"
  <2>1. "idle" \in CommandState
      BY DEF CommandState
  <2> QED
      BY <2>1, <1>9, ShapedInit, Zenon
<1>11. 0 \in 0 .. MaxSetups /\ 0 \in Nat /\ \A n \in Participant : 0 \in 0 .. Commands(n)
    BY <1>3
<1>12. /\ Shaped(recvCh, 0 .. MaxSetups) /\ Shaped(group, 0 .. MaxSetups)
       /\ \A n \in Participant : \A k \in Command(n) : recvCh[n][k] = 0 /\ group[n][k] = 0
    BY <1>9, <1>11, ShapedInit, Zenon
<1>13. Shaped(waitsOn, Nat) /\ \A n \in Participant : \A k \in Command(n) : waitsOn[n][k] = 0
    BY <1>9, <1>11, ShapedInit, Zenon
<1>14. Shaped(closed, BOOLEAN)
  <2>1. FALSE \in BOOLEAN
      OBVIOUS
  <2> QED
      BY <2>1, <1>9, ShapedInit, Zenon
<1>15. receiver \in [Participant -> Nat] /\ nodeLock \in [Participant -> 0 .. MaxSetups]
       /\ \A n \in Participant : receiver[n] = 0 /\ nodeLock[n] = 0
    BY <1>9, <1>11
<1>16. NodeTypes
    BY <1>9, <1>10, <1>11, <1>12, <1>13, <1>14, <1>15, Zenon DEF NodeTypes
<1>17. GroupWasPushed
    BY <1>12, Zenon DEF GroupWasPushed
<1>18. PushWaits
    BY <1>15, Zenon DEF PushWaits
<1>19. WaitsAndReplies
  <2>1. \A n \in Participant : \A k \in Command(n) : cmd[n][k] # "waiting"
      BY <1>10
  <2>2. \A c \in Setup : \A n \in Participant : answer[c][n] # "ok"
      BY <1>8
  <2> QED
      BY <2>1, <2>2, Zenon DEF WaitsAndReplies
<1>20. EnoughHaveGroup
  <2>1. \A c \in Setup : lead[c] # "dkg"
      BY <1>2
  <2> QED
      BY <2>1, Zenon DEF EnoughHaveGroup
<1>21. LeaderInv
    BY <1>1, <1>4, <1>5, <1>6, <1>7, Zenon DEF LeaderInv
<1>22. ParticipantInv
    BY <1>8, <1>16, <1>17, <1>18, <1>19, <1>20, Zenon DEF ParticipantInv
<1> QED
    BY <1>21, <1>22, Zenon DEF SetupInv
------------------------------------------------------------------------------
(* The steps of the leader.                                                  *)

(* A step on setup c leaves the other setups alone.                          *)
OnlySetup(c) ==
    /\ \A d \in Setup : d # c => /\ lead'[d] = lead[d] /\ run'[d] = run[d]
                                 /\ inKeys'[d] = inKeys[d] /\ pushKeyCh'[d] = pushKeyCh[d]
    /\ run[c] = "done" => run'[c] = "done" /\ inKeys'[c] = inKeys[c]
    /\ lead'[c] = "dkg" => inKeys'[c] = inKeys[c] /\ (lead[c] = "dkg" \/ EnoughPushed(c))

\* A step of one setup leaves what is said of the others.
LEMMA OthersSame ==
  ASSUME \A d \in Setup : ManagerSound(d), NEW c \in Setup, OnlySetup(c), ManagerSound(c)',
         wrongSecret' = wrongSecret, expected' = expected
  PROVE  (\A d \in Setup : ManagerSound(d)') /\ KeepsDone
<1>1. ASSUME NEW d \in Setup PROVE ManagerSound(d)'
  <2>1. CASE d # c
      BY <2>1, SameManager, Zenon DEF OnlySetup
  <2> QED
      BY <2>1, Zenon
<1>2. KeepsDone
  <2> SUFFICES ASSUME NEW d \in Setup
               PROVE /\ run[d] = "done" => run'[d] = "done" /\ inKeys'[d] = inKeys[d]
                     /\ lead'[d] = "dkg" => inKeys'[d] = inKeys[d] /\ (lead[d] = "dkg" \/ EnoughPushed(d))
      BY Zenon DEF KeepsDone
  <2>1. CASE d # c
      BY <2>1, Zenon DEF OnlySetup
  <2>2. CASE d = c
      BY <2>2, Zenon DEF OnlySetup
  <2> QED
      BY <2>1, <2>2, Zenon
<1> QED
    BY <1>1, <1>2, Zenon

\* Who waits with the lock of the leader depends on the state of the one that waits.
LEMMA LockKept ==
  ASSUME WaitsWithLock, NEW c \in Setup, lead[c] # "preempting", wrongSecret' = wrongSecret,
         \A d \in Setup : d # c => lead'[d] = lead[d], manager' = manager, leaderLock' = leaderLock
  PROVE  WaitsWithLock'
BY Zenon DEF WaitsWithLock

\* newSetup replaces the manager.
LEMMA NewSetupKeeps ==
  ASSUME CaseTypes, LeadTypes, NEW c \in Setup, ManagerSound(c), lead[c] \in {"idle", "preempting"},
         NewSetup(c), pushKeyCh' = pushKeyCh, wrongSecret' = wrongSecret, expected' = expected
  PROVE  /\ lead' \in [Setup -> LeadState] /\ manager' \in 0 .. MaxSetups
         /\ run' \in [Setup -> RunState] /\ inKeys' \in [Setup -> SUBSET Node]
         /\ OnlySetup(c) /\ ManagerSound(c)'
<1>1. run[c] = "idle"
    BY Zenon DEF ManagerSound
<1>2. run[c] # "done"
    BY <1>1
<1>3. \A i \in 1 .. Len(pushKeyCh'[c]) : pushKeyCh'[c][i] \notin wrongSecret'
    BY Zenon DEF ManagerSound
<1>4. lead \in [Setup -> LeadState] /\ run \in [Setup -> RunState] /\ inKeys \in [Setup -> SUBSET Node]
      /\ manager \in 0 .. MaxSetups
    BY Zenon DEF LeadTypes
<1>5. CASE /\ manager' = c
           /\ run' = [run EXCEPT ![c] = "collecting"]
           /\ inKeys' = [inKeys EXCEPT ![c] = {Leader}]
           /\ lead' = [lead EXCEPT ![c] = "waiting"]
  <2>1. "waiting" \in LeadState /\ "collecting" \in RunState
      BY DEF LeadState, RunState
  <2>2. {Leader} \in SUBSET Node
      BY CaseFacts
  <2>3. lead' \in [Setup -> LeadState] /\ lead'[c] = "waiting" /\ \A d \in Setup : d # c => lead'[d] = lead[d]
      BY <1>4, <1>5, <2>1, PutAt, Zenon
  <2>4. run' \in [Setup -> RunState] /\ run'[c] = "collecting" /\ \A d \in Setup : d # c => run'[d] = run[d]
      BY <1>4, <1>5, <2>1, PutAt, Zenon
  <2>5. inKeys' \in [Setup -> SUBSET Node] /\ inKeys'[c] = {Leader} /\ \A d \in Setup : d # c => inKeys'[d] = inKeys[d]
      BY <1>4, <1>5, <2>2, PutAt, Zenon
  <2>6. manager' \in 0 .. MaxSetups
      BY <1>5, SetupAssumption DEF Setup
  <2>7. lead'[c] # "dkg" /\ lead'[c] \notin {"idle", "preempting"} /\ lead'[c] \notin {"created"} \cup Pushed
        /\ run'[c] # "done"
      BY <2>3, <2>4 DEF Pushed
  <2>8. OnlySetup(c)
      BY <1>2, <2>3, <2>4, <2>5, <2>7, Zenon DEF OnlySetup
  <2>9. inKeys'[c] \cap wrongSecret' = {}
      BY <2>5, CaseFacts, Zenon
  <2>10. Leader \in inKeys'[c] /\ \A m, n \in inKeys'[c] : Key(m) = Key(n) => m = n
      BY <2>5, Zenon
  <2>11. ManagerSound(c)'
      BY <1>3, <2>7, <2>9, <2>10, Zenon DEF ManagerSound
  <2> QED
      BY <2>3, <2>4, <2>5, <2>6, <2>8, <2>11, Zenon
<1>6. CASE lead' = [lead EXCEPT ![c] = "failed"] /\ UNCHANGED <<manager, run, inKeys>>
  <2>1. "failed" \in LeadState
      BY DEF LeadState
  <2>2. manager' = manager /\ run' = run /\ inKeys' = inKeys
      BY <1>6, Zenon
  <2>3. lead' \in [Setup -> LeadState] /\ lead'[c] = "failed" /\ \A d \in Setup : d # c => lead'[d] = lead[d]
      BY <1>4, <1>6, <2>1, PutAt, Zenon
  <2>4. lead'[c] # "dkg" /\ lead'[c] \notin {"idle", "preempting"} /\ lead'[c] \notin {"created"} \cup Pushed
      BY <2>3 DEF Pushed
  <2>5. OnlySetup(c)
      BY <1>2, <2>2, <2>3, <2>4, Zenon DEF OnlySetup
  <2>6. ManagerSound(c)'
      BY <1>1, <1>2, <2>2, <2>4, Zenon DEF ManagerSound
  <2> QED
      BY <1>4, <2>2, <2>3, <2>5, <2>6, Zenon
<1> QED
    BY <1>5, <1>6, Zenon DEF NewSetup

\* InitDKG or InitReshare at the leader, also when it has to wait for StopPreemptively.
LEMMA LeadCommandKeeps ==
  ASSUME LeaderInv, NEW c \in Setup, LeadCommand(c) \/ Preempt(c)
  PROVE  LeaderInv' /\ KeepsDone
<1>1. CaseTypes /\ LeadTypes /\ KeyTypes /\ WaitsWithLock /\ \A d \in Setup : ManagerSound(d)
    BY Zenon DEF LeaderInv
<1>2. old' = old /\ wrongSecret' = wrongSecret /\ expected' = expected /\ pushKeyCh' = pushKeyCh /\ counted' = counted
    BY Zenon DEF LeadCommand, Preempt
<1>3. CaseTypes' /\ KeyTypes'
    BY <1>1, <1>2, Zenon DEF CaseTypes, KeyTypes
<1>4. /\ lead \in [Setup -> LeadState] /\ manager \in 0 .. MaxSetups /\ run \in [Setup -> RunState]
      /\ inKeys \in [Setup -> SUBSET Node] /\ doneCh \in [Setup -> BOOLEAN] /\ counted \in [Setup -> SUBSET Participant]
    BY <1>1, Zenon DEF LeadTypes
<1>5. lead[c] \in {"idle", "preempting"}
  <2>1. CASE LeadCommand(c)
      BY <2>1, Zenon DEF LeadCommand
  <2>2. CASE Preempt(c)
    <3>1. leaderLock = <<"stop", c>>
        BY <2>2, Zenon DEF Preempt
    <3>2. leaderLock # Free
        BY <3>1 DEF Free
    <3>3. ASSUME NEW n, NEW k, leaderLock = <<"key", n, k>> PROVE FALSE
        BY <3>1, <3>3
    <3>4. PICK d \in Setup : leaderLock = <<"stop", d>> /\ lead[d] = "preempting"
        BY <1>1, <3>2, <3>3, Zenon DEF WaitsWithLock
    <3>5. d = c
        BY <3>1, <3>4
    <3> QED
        BY <3>4, <3>5, Zenon
  <2> QED
      BY <2>1, <2>2, Zenon
<1>6. CASE NewSetup(c) /\ leaderLock' = Free /\ doneCh' \in [Setup -> BOOLEAN]
  <2>1. /\ lead' \in [Setup -> LeadState] /\ manager' \in 0 .. MaxSetups
        /\ run' \in [Setup -> RunState] /\ inKeys' \in [Setup -> SUBSET Node]
        /\ OnlySetup(c) /\ ManagerSound(c)'
      BY <1>1, <1>2, <1>5, <1>6, NewSetupKeeps, Zenon
  <2>2. (\A d \in Setup : ManagerSound(d)') /\ KeepsDone
      BY <1>1, <1>2, <2>1, OthersSame, Zenon
  <2>3. LeadTypes'
      BY <1>2, <1>4, <1>6, <2>1, Zenon DEF LeadTypes
  <2>4. WaitsWithLock'
      BY <1>6, Zenon DEF WaitsWithLock
  <2> QED
      BY <1>3, <2>2, <2>3, <2>4, Zenon DEF LeaderInv
<1>7. CASE /\ lead[c] = "idle" /\ manager # 0 /\ leaderLock' = <<"stop", c>>
           /\ lead' = [lead EXCEPT ![c] = "preempting"]
           /\ UNCHANGED <<manager, run, inKeys, doneCh>>
  <2>1. "preempting" \in LeadState
      BY DEF LeadState
  <2>2. manager' = manager /\ run' = run /\ inKeys' = inKeys /\ doneCh' = doneCh
      BY <1>7, Zenon
  <2>3. lead' \in [Setup -> LeadState] /\ lead'[c] = "preempting" /\ \A d \in Setup : d # c => lead'[d] = lead[d]
      BY <1>4, <1>7, <2>1, PutAt, Zenon
  <2>4. lead'[c] # "dkg" /\ lead'[c] \notin {"created"} \cup Pushed
      BY <2>3 DEF Pushed
  <2>5. run[c] = "idle"
      BY <1>1, <1>5, Zenon DEF ManagerSound
  <2>6. OnlySetup(c)
      BY <1>2, <2>2, <2>3, <2>4, Zenon DEF OnlySetup
  <2>7. ManagerSound(c)'
      BY <1>1, <1>2, <2>2, <2>4, <2>5, Zenon DEF ManagerSound
  <2>8. (\A d \in Setup : ManagerSound(d)') /\ KeepsDone
      BY <1>1, <1>2, <2>6, <2>7, OthersSame, Zenon
  <2>9. LeadTypes'
      BY <1>2, <1>4, <2>2, <2>3, Zenon DEF LeadTypes
  <2>10. WaitsWithLock'
      BY <1>7, <2>2, <2>3, Zenon DEF WaitsWithLock
  <2> QED
      BY <1>3, <2>8, <2>9, <2>10, Zenon DEF LeaderInv
<1>8. ASSUME manager # 0, doneCh' = [doneCh EXCEPT ![manager] = TRUE] PROVE doneCh' \in [Setup -> BOOLEAN]
  <2>1. manager \in Setup
      BY <1>4, <1>8, SetupAssumption DEF Setup
  <2> QED
      BY <1>4, <1>8, <2>1
<1>9. CASE LeadCommand(c)
  <2>1. leaderLock = Free /\ lead[c] = "idle"
      BY <1>9, Zenon DEF LeadCommand
  <2>2. CASE NewSetup(c) /\ manager = 0 /\ doneCh' = doneCh /\ leaderLock' = leaderLock
      BY <1>4, <1>6, <2>1, <2>2, Zenon
  <2>3. CASE NewSetup(c) /\ manager # 0 /\ doneCh' = [doneCh EXCEPT ![manager] = TRUE] /\ leaderLock' = leaderLock
      BY <1>6, <1>8, <2>1, <2>3, Zenon
  <2> QED
      BY <1>7, <1>9, <2>1, <2>2, <2>3, Zenon DEF LeadCommand
<1>10. CASE Preempt(c)
  <2>1. leaderLock = <<"stop", c>> /\ leaderLock' = Free /\ NewSetup(c) /\ doneCh' = [doneCh EXCEPT ![manager] = TRUE]
      BY <1>10, Zenon DEF Preempt
  <2>2. leaderLock # Free
      BY <2>1 DEF Free
  <2>3. manager # 0
      BY <1>1, <2>2, Zenon DEF WaitsWithLock
  <2> QED
      BY <1>6, <1>8, <2>1, <2>3, Zenon
<1> QED
    BY <1>9, <1>10, Zenon

\* A command of the leader moves on; its manager stays.
LEMMA LeadMoves ==
  ASSUME LeaderInv, NEW c \in Setup, NEW s \in LeadState, lead' = [lead EXCEPT ![c] = s],
         s \notin {"idle", "preempting"}, s \in {"created"} \cup Pushed => run[c] = "done",
         s = "dkg" => EnoughPushed(c), lead[c] # "preempting",
         run' = run, inKeys' = inKeys, pushKeyCh' = pushKeyCh, counted' = counted,
         old' = old, wrongSecret' = wrongSecret, expected' = expected,
         doneCh' \in [Setup -> BOOLEAN], leaderLock' = leaderLock,
         manager' = manager \/ (manager' = 0 /\ leaderLock = Free)
  PROVE  LeaderInv' /\ KeepsDone
<1>1. CaseTypes /\ LeadTypes /\ KeyTypes /\ WaitsWithLock /\ \A d \in Setup : ManagerSound(d)
    BY Zenon DEF LeaderInv
<1>2. CaseTypes' /\ KeyTypes'
    BY <1>1, Zenon DEF CaseTypes, KeyTypes
<1>3. /\ lead \in [Setup -> LeadState] /\ manager \in 0 .. MaxSetups /\ run \in [Setup -> RunState]
      /\ inKeys \in [Setup -> SUBSET Node] /\ counted \in [Setup -> SUBSET Participant]
    BY <1>1, Zenon DEF LeadTypes
<1>4. lead' \in [Setup -> LeadState] /\ lead'[c] = s /\ \A d \in Setup : d # c => lead'[d] = lead[d]
    BY <1>3, PutAt, Zenon
<1>5. manager' \in 0 .. MaxSetups
    BY <1>3, SetupAssumption
<1>6. LeadTypes'
    BY <1>3, <1>4, <1>5, Zenon DEF LeadTypes
<1>7. OnlySetup(c)
    BY <1>4, Zenon DEF OnlySetup
<1>8. ManagerSound(c)'
    BY <1>1, <1>4, Zenon DEF ManagerSound
<1>9. (\A d \in Setup : ManagerSound(d)') /\ KeepsDone
    BY <1>1, <1>7, <1>8, OthersSame, Zenon
<1>10. WaitsWithLock'
  <2>1. CASE leaderLock = Free
      BY <2>1, Zenon DEF WaitsWithLock
  <2>2. CASE leaderLock # Free
      BY <1>1, <1>4, <2>2, LockKept, Zenon
  <2> QED
      BY <2>1, <2>2, Zenon
<1> QED
    BY <1>2, <1>6, <1>9, <1>10, Zenon DEF LeaderInv

\* The group, the timeout, the stop, the clearing and the end of the push.
LEMMA LeadStepKeeps ==
  ASSUME LeaderInv, NEW c \in Setup,
         LeadGroup(c) \/ LeadTimeout(c) \/ LeadStop(c) \/ LeadClear(c) \/ PushEnds(c)
  PROVE  LeaderInv' /\ KeepsDone
<1>1. LeadTypes /\ ManagerSound(c)
    BY Zenon DEF LeaderInv
<1>2. /\ old' = old /\ wrongSecret' = wrongSecret /\ expected' = expected /\ run' = run /\ inKeys' = inKeys
      /\ pushKeyCh' = pushKeyCh /\ counted' = counted /\ leaderLock' = leaderLock
    BY Zenon DEF LeadGroup, LeadTimeout, LeadStop, LeadClear, PushEnds
<1>3. doneCh \in [Setup -> BOOLEAN]
    BY <1>1, Zenon DEF LeadTypes
<1>4. {"created", "failed", "expired", "stopped", "timedOut", "pushing", "dkg", "pushFailed"} \subseteq LeadState
    BY DEF LeadState
<1>5. ASSUME NEW s \in {"failed", "expired", "stopped", "timedOut"}
      PROVE  s \in LeadState /\ s \notin {"idle", "preempting"} /\ s \notin {"created"} \cup Pushed /\ s # "dkg"
    BY <1>4, <1>5 DEF Pushed
<1>6. ASSUME NEW s \in {"created", "pushing", "pushFailed", "dkg"}
      PROVE  s \in LeadState /\ s \notin {"idle", "preempting"}
    BY <1>4, <1>6
<1>7. CASE LeadGroup(c)
  <2>1. lead[c] = "waiting" /\ doneCh' = doneCh /\ manager' = manager
      BY <1>7, Zenon DEF LeadGroup
  <2>2. lead[c] # "preempting"
      BY <2>1
  <2>3. CASE run[c] = "done" /\ lead' = [lead EXCEPT ![c] = "created"]
    <3>1. "created" # "dkg"
        OBVIOUS
    <3> QED
        BY <1>2, <1>3, <1>6, <2>1, <2>2, <2>3, <3>1, LeadMoves, Zenon
  <2>4. CASE lead' = [lead EXCEPT ![c] = "failed"]
      BY <1>2, <1>3, <1>5, <2>1, <2>2, <2>4, LeadMoves, Zenon
  <2> QED
      BY <1>7, <2>3, <2>4, Zenon DEF LeadGroup
<1>8. CASE LeadTimeout(c)
  <2>1. lead[c] = "waiting" /\ doneCh' = doneCh /\ manager' = manager /\ lead' = [lead EXCEPT ![c] = "expired"]
      BY <1>8, Zenon DEF LeadTimeout
  <2>2. lead[c] # "preempting"
      BY <2>1
  <2> QED
      BY <1>2, <1>3, <1>5, <2>1, <2>2, LeadMoves, Zenon
<1>9. CASE LeadStop(c)
  <2>1. lead[c] = "expired" /\ doneCh' = [doneCh EXCEPT ![c] = TRUE] /\ manager' = manager
        /\ lead' = [lead EXCEPT ![c] = "stopped"]
      BY <1>9, Zenon DEF LeadStop
  <2>2. lead[c] # "preempting" /\ doneCh' \in [Setup -> BOOLEAN]
      BY <1>3, <2>1
  <2> QED
      BY <1>2, <1>5, <2>1, <2>2, LeadMoves, Zenon
<1>10. CASE LeadClear(c)
  <2>1. lead[c] \in {"created", "stopped"} /\ leaderLock = Free /\ doneCh' = doneCh /\ manager' = 0
      BY <1>10, Zenon DEF LeadClear
  <2>2. lead[c] # "preempting"
      BY <2>1
  <2>3. CASE lead' = [lead EXCEPT ![c] = "timedOut"] \/ lead' = [lead EXCEPT ![c] = "failed"]
      BY <1>2, <1>3, <1>5, <2>1, <2>2, <2>3, LeadMoves, Zenon
  <2>4. CASE lead[c] = "created" /\ lead' = [lead EXCEPT ![c] = "pushing"]
    <3>1. "pushing" # "dkg"
        OBVIOUS
    <3>2. run[c] = "done"
        BY <1>1, <2>4, Zenon DEF ManagerSound
    <3> QED
        BY <1>2, <1>3, <1>6, <2>1, <2>2, <2>4, <3>1, <3>2, LeadMoves, Zenon
  <2> QED
      BY <1>10, <2>3, <2>4, Zenon DEF LeadClear
<1>11. CASE PushEnds(c)
  <2>1. lead[c] = "pushing" /\ doneCh' = doneCh /\ manager' = manager
      BY <1>11, Zenon DEF PushEnds
  <2>2. lead[c] # "preempting" /\ lead[c] \in Pushed
      BY <2>1 DEF Pushed
  <2>3. run[c] = "done"
      BY <1>1, <2>2, Zenon DEF ManagerSound
  <2>4. CASE EnoughPushed(c) /\ lead' = [lead EXCEPT ![c] = "dkg"]
      BY <1>2, <1>3, <1>6, <2>1, <2>2, <2>3, <2>4, LeadMoves, Zenon
  <2>5. CASE lead' = [lead EXCEPT ![c] = "pushFailed"]
    <3>1. "pushFailed" # "dkg"
        OBVIOUS
    <3> QED
        BY <1>2, <1>3, <1>6, <2>1, <2>2, <2>3, <2>5, <3>1, LeadMoves, Zenon
  <2>6. lead' = [lead EXCEPT ![c] = IF EnoughPushed(c) THEN "dkg" ELSE "pushFailed"]
      BY <1>11, Zenon DEF PushEnds
  <2> QED
      BY <2>4, <2>5, <2>6, Zenon
<1> QED
    BY <1>7, <1>8, <1>9, <1>10, <1>11, Zenon

\* pushDKGInfo counts a reply.
LEMMA CountAnswerKeeps ==
  ASSUME LeaderInv, NEW c \in Setup, NEW n \in Participant, CountAnswer(c, n)
  PROVE  LeaderInv' /\ KeepsDone
<1>1. CaseTypes /\ LeadTypes /\ KeyTypes /\ WaitsWithLock /\ \A d \in Setup : ManagerSound(d)
    BY Zenon DEF LeaderInv
<1>2. /\ old' = old /\ wrongSecret' = wrongSecret /\ expected' = expected /\ run' = run /\ inKeys' = inKeys
      /\ pushKeyCh' = pushKeyCh /\ leaderLock' = leaderLock /\ lead' = lead /\ manager' = manager /\ doneCh' = doneCh
    BY Zenon DEF CountAnswer
<1>3. counted' \in [Setup -> SUBSET Participant]
  <2>1. counted' = [counted EXCEPT ![c] = @ \cup {n}] /\ counted \in [Setup -> SUBSET Participant]
      BY <1>1, Zenon DEF CountAnswer, LeadTypes
  <2> QED
      BY <2>1
<1>4. CaseTypes' /\ LeadTypes' /\ KeyTypes'
    BY <1>1, <1>2, <1>3, Zenon DEF CaseTypes, LeadTypes, KeyTypes
<1>5. WaitsWithLock'
    BY <1>1, <1>2, Zenon DEF WaitsWithLock
<1>6. \A d \in Setup : ManagerSound(d)'
    BY <1>1, <1>2, SameManager, Zenon
<1>7. KeepsDone
    BY <1>2, Zenon DEF KeepsDone
<1> QED
    BY <1>4, <1>5, <1>6, <1>7, Zenon DEF LeaderInv

\* The manager takes the signal to stop.
LEMMA StopRunKeeps ==
  ASSUME LeaderInv, NEW c \in Setup, StopRun(c)
  PROVE  LeaderInv' /\ KeepsDone
<1>1. CaseTypes /\ LeadTypes /\ KeyTypes /\ WaitsWithLock /\ \A d \in Setup : ManagerSound(d)
    BY Zenon DEF LeaderInv
<1>2. /\ old' = old /\ wrongSecret' = wrongSecret /\ expected' = expected /\ inKeys' = inKeys
      /\ pushKeyCh' = pushKeyCh /\ leaderLock' = leaderLock /\ lead' = lead /\ manager' = manager /\ counted' = counted
    BY Zenon DEF StopRun
<1>3. run[c] = "collecting" /\ run' = [run EXCEPT ![c] = "preempted"] /\ doneCh' = [doneCh EXCEPT ![c] = FALSE]
    BY Zenon DEF StopRun
<1>4. run \in [Setup -> RunState] /\ doneCh \in [Setup -> BOOLEAN]
    BY <1>1, Zenon DEF LeadTypes
<1>5. "preempted" \in RunState
    BY DEF RunState
<1>6. run' \in [Setup -> RunState] /\ run'[c] = "preempted" /\ \A d \in Setup : d # c => run'[d] = run[d]
    BY <1>3, <1>4, <1>5, PutAt, Zenon
<1>7. doneCh' \in [Setup -> BOOLEAN]
    BY <1>3, <1>4
<1>8. CaseTypes' /\ LeadTypes' /\ KeyTypes'
    BY <1>1, <1>2, <1>6, <1>7, Zenon DEF CaseTypes, LeadTypes, KeyTypes
<1>9. WaitsWithLock'
    BY <1>1, <1>2, Zenon DEF WaitsWithLock
<1>10. run[c] # "idle" /\ run[c] # "done" /\ run'[c] # "done"
    BY <1>3, <1>6
<1>11. lead[c] \notin {"idle", "preempting"} /\ lead[c] \notin {"created"} \cup Pushed
    BY <1>1, <1>10, Zenon DEF ManagerSound
<1>12. ManagerSound(c)'
    BY <1>1, <1>2, <1>10, <1>11, Zenon DEF ManagerSound
<1>13. lead[c] # "dkg"
    BY <1>11 DEF Pushed
<1>14. OnlySetup(c)
    BY <1>2, <1>6, <1>10, <1>13, Zenon DEF OnlySetup
<1> QED
    BY <1>1, <1>2, <1>8, <1>9, <1>12, <1>14, OthersSame, Zenon DEF LeaderInv

\* The manager takes a key, and creates the group with the last one.
LEMMA CollectKeyKeeps ==
  ASSUME LeaderInv, NEW c \in Setup, CollectKey(c)
  PROVE  LeaderInv' /\ KeepsDone
<1>1. CaseTypes /\ LeadTypes /\ KeyTypes /\ WaitsWithLock /\ \A d \in Setup : ManagerSound(d)
    BY Zenon DEF LeaderInv
<1> DEFINE n == Head(pushKeyCh[c])
<1> DEFINE have == inKeys[c] \cup {n}
<1>2. /\ old' = old /\ wrongSecret' = wrongSecret /\ expected' = expected
      /\ leaderLock' = leaderLock /\ lead' = lead /\ manager' = manager /\ counted' = counted
    BY Zenon DEF CollectKey
<1>3. /\ run[c] = "collecting" /\ pushKeyCh[c] # <<>>
      /\ pushKeyCh' = [pushKeyCh EXCEPT ![c] = Tail(pushKeyCh[c])]
    BY Zenon DEF CollectKey
<1>4. /\ run \in [Setup -> RunState] /\ doneCh \in [Setup -> BOOLEAN] /\ inKeys \in [Setup -> SUBSET Node]
      /\ pushKeyCh \in [Setup -> Seq(Participant)] /\ Len(pushKeyCh[c]) <= expected /\ expected \in Nat
    BY <1>1, CaseFacts, Zenon DEF LeadTypes, KeyTypes
<1>5. pushKeyCh[c] \in Seq(Participant)
    BY <1>4
<1>6. n \in Participant /\ n = pushKeyCh[c][1] /\ 1 \in 1 .. Len(pushKeyCh[c])
    BY <1>3, <1>5
<1>7. Tail(pushKeyCh[c]) \in Seq(Participant) /\ Len(Tail(pushKeyCh[c])) = Len(pushKeyCh[c]) - 1 /\ Len(pushKeyCh[c]) \in Nat
    BY <1>3, <1>5
<1>8. \A i \in 1 .. Len(Tail(pushKeyCh[c])) : Tail(pushKeyCh[c])[i] = pushKeyCh[c][i + 1] /\ i + 1 \in 1 .. Len(pushKeyCh[c])
    BY <1>3, <1>5, <1>7
<1>9. pushKeyCh' \in [Setup -> Seq(Participant)] /\ pushKeyCh'[c] = Tail(pushKeyCh[c])
      /\ \A d \in Setup : d # c => pushKeyCh'[d] = pushKeyCh[d]
    BY <1>3, <1>4, <1>7, PutAt, Zenon
<1>10. Len(pushKeyCh'[c]) <= expected
    BY <1>4, <1>7, <1>9
<1>11. KeyTypes'
  <2>1. \A d \in Setup : Len(pushKeyCh'[d]) <= expected
      BY <1>1, <1>9, <1>10, Zenon DEF KeyTypes
  <2> QED
      BY <1>2, <1>9, <2>1, Zenon DEF KeyTypes
<1>12. n \notin wrongSecret
  <2>1. \A i \in 1 .. Len(pushKeyCh[c]) : pushKeyCh[c][i] \notin wrongSecret
      BY <1>1, Zenon DEF ManagerSound
  <2>2. 1 \in 1 .. Len(pushKeyCh[c])
      BY <1>6, Zenon
  <2>3. pushKeyCh[c][1] \notin wrongSecret
      BY <2>1, <2>2
  <2> QED
      BY <1>6, <2>3
<1>13. \A i \in 1 .. Len(pushKeyCh'[c]) : pushKeyCh'[c][i] \notin wrongSecret
    BY <1>1, <1>8, <1>9, Zenon DEF ManagerSound
<1>14. run[c] # "idle" /\ run[c] # "done"
    BY <1>3
<1>15. lead[c] \notin {"idle", "preempting"} /\ lead[c] \notin {"created"} \cup Pushed /\ Leader \in inKeys[c]
       /\ inKeys[c] \cap wrongSecret = {} /\ \A x, y \in inKeys[c] : Key(x) = Key(y) => x = y
    BY <1>1, <1>14, Zenon DEF ManagerSound
<1>16. lead[c] # "dkg"
    BY <1>15 DEF Pushed
<1>17. WaitsWithLock' /\ CaseTypes'
    BY <1>1, <1>2, Zenon DEF WaitsWithLock, CaseTypes
<1>18. CASE run' = run /\ inKeys' = inKeys /\ doneCh' = doneCh
  <2>1. ManagerSound(c)'
      BY <1>2, <1>13, <1>14, <1>15, <1>18, Zenon DEF ManagerSound
  <2>2. OnlySetup(c)
      BY <1>2, <1>9, <1>14, <1>16, <1>18, Zenon DEF OnlySetup
  <2>3. LeadTypes'
      BY <1>1, <1>2, <1>18, Zenon DEF LeadTypes
  <2> QED
      BY <1>1, <1>2, <1>11, <1>17, <2>1, <2>2, <2>3, OthersSame, Zenon DEF LeaderInv
<1>19. CASE ~Duplicate(c, n) /\ inKeys' = [inKeys EXCEPT ![c] = have]
            /\ \/ Cardinality(have) # expected /\ run' = run /\ doneCh' = doneCh
               \/ /\ Cardinality(have) = expected /\ doneCh' = [doneCh EXCEPT ![c] = TRUE]
                  /\ run' = [run EXCEPT ![c] = IF doneCh[c] THEN "blocked" ELSE "done"]
  <2>1. have \in SUBSET Node
      BY <1>4, <1>6 DEF Node
  <2>2. inKeys' \in [Setup -> SUBSET Node] /\ inKeys'[c] = have /\ \A d \in Setup : d # c => inKeys'[d] = inKeys[d]
      BY <1>4, <1>19, <2>1, PutAt, Zenon
  <2>3. doneCh' \in [Setup -> BOOLEAN]
    <3>1. CASE doneCh' = doneCh
        BY <1>4, <3>1, Zenon
    <3>2. CASE doneCh' = [doneCh EXCEPT ![c] = TRUE]
        BY <1>4, <3>2, PutAt, Zenon
    <3> QED
        BY <1>19, <3>1, <3>2, Zenon
  <2>4. run' \in [Setup -> RunState] /\ run'[c] \in {"collecting", "blocked", "done"}
        /\ (run'[c] = "done" => Cardinality(have) = expected)
        /\ \A d \in Setup : d # c => run'[d] = run[d]
    <3>1. "blocked" \in RunState /\ "done" \in RunState
        BY DEF RunState
    <3>2. CASE run' = run
        BY <1>3, <1>4, <3>2
    <3>3. CASE Cardinality(have) = expected /\ run' = [run EXCEPT ![c] = IF doneCh[c] THEN "blocked" ELSE "done"]
      <4>1. (IF doneCh[c] THEN "blocked" ELSE "done") \in RunState
          BY <3>1, Zenon
      <4>2. run' \in [Setup -> RunState] /\ run'[c] = (IF doneCh[c] THEN "blocked" ELSE "done")
            /\ \A d \in Setup : d # c => run'[d] = run[d]
          BY <1>4, <3>3, <4>1, PutAt, Zenon
      <4> QED
          BY <3>3, <4>2, Zenon
    <3> QED
        BY <1>19, <3>2, <3>3, Zenon
  <2>5. have \cap wrongSecret = {} /\ Leader \in have
      BY <1>12, <1>15
  <2>6. \A x, y \in have : Key(x) = Key(y) => x = y
    <3>1. \A x \in inKeys[c] : Key(x) # Key(n)
        BY <1>19, Zenon DEF Duplicate
    <3> QED
        BY <1>15, <3>1, Zenon
  <2> HIDE DEF have, n
  <2>7. ManagerSound(c)'
      BY <1>2, <1>13, <1>15, <2>2, <2>4, <2>5, <2>6, Zenon DEF ManagerSound
  <2>8. OnlySetup(c)
      BY <1>2, <1>9, <1>14, <1>16, <2>2, <2>4, Zenon DEF OnlySetup
  <2>9. LeadTypes'
      BY <1>1, <1>2, <2>2, <2>3, <2>4, Zenon DEF LeadTypes
  <2> QED
      BY <1>1, <1>2, <1>11, <1>17, <2>7, <2>8, <2>9, OthersSame, Zenon DEF LeaderInv
<1> QED
    BY <1>18, <1>19, Zenon DEF CollectKey

(* A step of the leader keeps what the participants have.                    *)
LEMMA LeaderKeepsParticipants ==
  ASSUME LeaderInv, LeaderInv', ParticipantInv, KeepsDone, UNCHANGED <<old, nodeVars, answer>>
  PROVE  ParticipantInv'
<1>1. /\ old' = old /\ answer' = answer /\ cmd' = cmd /\ receiver' = receiver /\ recvCh' = recvCh /\ closed' = closed
      /\ waitsOn' = waitsOn /\ group' = group /\ nodeLock' = nodeLock /\ crashed' = crashed /\ accepted' = accepted
    BY Zenon DEF nodeVars
<1>2. ReplyTypes /\ NodeTypes /\ GroupWasPushed /\ PushWaits /\ WaitsAndReplies /\ EnoughHaveGroup
    BY Zenon DEF ParticipantInv
<1>3. ReplyTypes' /\ WaitsAndReplies'
    BY <1>1, <1>2, Zenon DEF ReplyTypes, WaitsAndReplies
<1>4. NodeTypes'
    BY <1>1, <1>2, Zenon DEF NodeTypes
<1>5. ASSUME NEW c \in Setup, run[c] = "done" PROVE run'[c] = "done" /\ PushTo(c)' = PushTo(c)
  <2>1. run'[c] = "done" /\ inKeys'[c] = inKeys[c]
      BY <1>5, Zenon DEF KeepsDone
  <2> QED
      BY <1>1, <2>1, Zenon DEF PushTo
<1>6. \A c \in 0 .. MaxSetups : c # 0 => c \in Setup
    BY SetupAssumption DEF Setup
<1>7. GroupWasPushed'
  <2> SUFFICES ASSUME NEW n \in Participant, NEW k \in Command(n), NEW c \in {recvCh[n][k], group[n][k]} \ {0}
               PROVE n \in accepted[c] /\ n \in PushTo(c)' /\ run'[c] = "done"
      BY <1>1, Zenon DEF GroupWasPushed
  <2>1. n \in accepted[c] /\ n \in PushTo(c) /\ run[c] = "done"
      BY <1>2, Zenon DEF GroupWasPushed
  <2>2. recvCh[n][k] \in 0 .. MaxSetups /\ group[n][k] \in 0 .. MaxSetups
      BY <1>2, ShapedAt, Zenon DEF NodeTypes
  <2>3. c \in Setup
      BY <1>6, <2>2, Zenon
  <2> QED
      BY <1>5, <2>1, <2>3, Zenon
<1>8. PushWaits'
  <2> SUFFICES ASSUME NEW n \in Participant, nodeLock[n] # 0
               PROVE n \in PushTo(nodeLock[n])' /\ run'[nodeLock[n]] = "done" /\ receiver[n] # 0
      BY <1>1, Zenon DEF PushWaits
  <2>1. n \in PushTo(nodeLock[n]) /\ run[nodeLock[n]] = "done" /\ receiver[n] # 0
      BY <1>2, Zenon DEF PushWaits
  <2>2. nodeLock \in [Participant -> 0 .. MaxSetups]
      BY <1>2, Zenon DEF NodeTypes
  <2>3. nodeLock[n] \in 0 .. MaxSetups
      BY <2>2
  <2>4. PICK c \in Setup : c = nodeLock[n]
      BY <1>6, <2>3, Zenon
  <2>5. run'[c] = "done" /\ PushTo(c)' = PushTo(c)
      BY <1>5, <2>1, <2>4, Zenon
  <2>6. PushTo(nodeLock[n])' = PushTo(c)'
      BY <1>1, <2>4, Zenon DEF PushTo
  <2> QED
      BY <2>1, <2>4, <2>5, <2>6, Zenon
<1>9. EnoughHaveGroup'
  <2> SUFFICES ASSUME NEW c \in Setup, lead'[c] = "dkg"
               PROVE /\ Cardinality((accepted[c] \cup {Leader}) \cap inKeys'[c]) >= Threshold
                     /\ Resharing => Cardinality((accepted[c] \cup {Leader}) \cap old) >= OldThreshold
      BY <1>1, Zenon DEF EnoughHaveGroup, Resharing
  <2>1. inKeys'[c] = inKeys[c] /\ (lead[c] = "dkg" \/ EnoughPushed(c))
      BY Zenon DEF KeepsDone
  <2>2. CASE lead[c] = "dkg"
      BY <1>2, <2>1, <2>2, Zenon DEF EnoughHaveGroup
  <2>3. CASE EnoughPushed(c)
    <3>1. Succeeded(c) \subseteq accepted[c] \cup {Leader}
      <4>1. \A n \in counted[c] : n \in Participant
          BY DEF LeaderInv, LeadTypes
      <4>2. \A n \in counted[c] : answer[c][n] = "ok" => n \in accepted[c]
          BY <1>2, <4>1, Zenon DEF WaitsAndReplies
      <4> QED
          BY <4>2, Zenon DEF Succeeded
    <3>2. inKeys[c] \subseteq Node /\ old \subseteq Node
      <4>1. CaseTypes /\ inKeys \in [Setup -> SUBSET Node]
          BY Zenon DEF LeaderInv, LeadTypes
      <4> QED
          BY <4>1, CaseFacts
    <3>3. ASSUME NEW S \in SUBSET Node
          PROVE Cardinality(Succeeded(c) \cap S) <= Cardinality((accepted[c] \cup {Leader}) \cap S)
                /\ Cardinality(Succeeded(c) \cap S) \in Nat
                /\ Cardinality((accepted[c] \cup {Leader}) \cap S) \in Nat
      <4>1. (accepted[c] \cup {Leader}) \cap S \in SUBSET Node
          OBVIOUS
      <4>2. Succeeded(c) \cap S \in SUBSET ((accepted[c] \cup {Leader}) \cap S)
          BY <3>1, Zenon
      <4>3. Succeeded(c) \cap S \in SUBSET Node
          BY <4>1, <4>2, Zenon
      <4> QED
          BY <4>1, <4>2, <4>3, SetupAssumption, Zenon
    <3>4. Cardinality(Succeeded(c) \cap inKeys[c]) >= Threshold
          /\ (Resharing => Cardinality(Succeeded(c) \cap old) >= OldThreshold)
        BY <2>3, Zenon DEF EnoughPushed
    <3>5. /\ Cardinality(Succeeded(c) \cap inKeys[c]) <= Cardinality((accepted[c] \cup {Leader}) \cap inKeys[c])
          /\ Cardinality(Succeeded(c) \cap inKeys[c]) \in Nat
          /\ Cardinality((accepted[c] \cup {Leader}) \cap inKeys[c]) \in Nat
        BY <3>2, <3>3, Zenon
    <3>6. /\ Cardinality(Succeeded(c) \cap old) <= Cardinality((accepted[c] \cup {Leader}) \cap old)
          /\ Cardinality(Succeeded(c) \cap old) \in Nat
          /\ Cardinality((accepted[c] \cup {Leader}) \cap old) \in Nat
        BY <3>2, <3>3, Zenon
    <3>7. Threshold \in Int /\ OldThreshold \in Int
        BY ThresholdFacts, Zenon DEF LeaderInv
    <3>8. Cardinality((accepted[c] \cup {Leader}) \cap inKeys[c]) >= Threshold
        BY <3>4, <3>5, <3>7
    <3>9. Resharing => Cardinality((accepted[c] \cup {Leader}) \cap old) >= OldThreshold
        BY <3>4, <3>6, <3>7
    <3> QED
        BY <2>1, <3>8, <3>9, Zenon
  <2> QED
      BY <2>1, <2>2, <2>3, Zenon
<1> QED
    BY <1>3, <1>4, <1>7, <1>8, <1>9, Zenon DEF ParticipantInv

\* A step of the leader.
LEMMA LeaderStepKeeps ==
  ASSUME SetupInv, NEW c \in Setup, LeadCommand(c) \/ LeadTimeout(c) \/ LeaderStep(c)
  PROVE  SetupInv'
<1>1. LeaderInv' /\ KeepsDone
  <2>1. CASE \E n \in Participant : CountAnswer(c, n)
      BY <2>1, CountAnswerKeeps, Zenon DEF SetupInv
  <2> QED
      BY <2>1, LeadCommandKeeps, LeadStepKeeps, StopRunKeeps, CollectKeyKeeps, Zenon DEF LeaderStep, SetupInv
<1>2. UNCHANGED <<old, nodeVars, answer>>
  <2>1. CASE LeadCommand(c) \/ Preempt(c)
      BY <2>1, Zenon DEF LeadCommand, Preempt
  <2>2. CASE LeadGroup(c) \/ LeadTimeout(c) \/ LeadStop(c) \/ LeadClear(c) \/ PushEnds(c)
      BY <2>2, Zenon DEF LeadGroup, LeadTimeout, LeadStop, LeadClear, PushEnds
  <2>3. CASE CollectKey(c) \/ StopRun(c)
      BY <2>3, Zenon DEF CollectKey, StopRun
  <2>4. CASE \E n \in Participant : CountAnswer(c, n)
      BY <2>4, Zenon DEF CountAnswer
  <2> QED
      BY <2>1, <2>2, <2>3, <2>4, Zenon DEF LeaderStep
<1> QED
    BY <1>1, <1>2, LeaderKeepsParticipants, Zenon DEF SetupInv
------------------------------------------------------------------------------
(* The steps of a participant.                                               *)

\* A step of a participant leaves the leader alone.
LEMMA LeaderLeft ==
  ASSUME LeaderInv, UNCHANGED <<old, wrongSecret, expected, leaderVars>>
  PROVE  LeaderInv'
<1>1. CaseTypes /\ LeadTypes /\ KeyTypes /\ WaitsWithLock /\ \A d \in Setup : ManagerSound(d)
    BY Zenon DEF LeaderInv
<1>2. /\ old' = old /\ wrongSecret' = wrongSecret /\ expected' = expected /\ run' = run /\ inKeys' = inKeys /\ counted' = counted
      /\ pushKeyCh' = pushKeyCh /\ leaderLock' = leaderLock /\ lead' = lead /\ manager' = manager /\ doneCh' = doneCh
    BY Zenon DEF leaderVars
<1>3. CaseTypes' /\ LeadTypes' /\ KeyTypes'
    BY <1>1, <1>2, Zenon DEF CaseTypes, LeadTypes, KeyTypes
<1>4. WaitsWithLock'
    BY <1>1, <1>2, Zenon DEF WaitsWithLock
<1>5. \A d \in Setup : ManagerSound(d)'
    BY <1>1, <1>2, SameManager, Zenon
<1> QED
    BY <1>3, <1>4, <1>5, Zenon DEF LeaderInv

(* A command moves, and nothing that is pushed changes.                      *)
LEMMA CommandMoves ==
  ASSUME ParticipantInv, NEW n \in Participant, NEW k \in Command(n), NEW s \in CommandState,
         cmd' = [cmd EXCEPT ![n][k] = s], s = "waiting" => cmd[n][k] = "waiting",
         lead' = lead, run' = run, inKeys' = inKeys, old' = old,
         recvCh' = recvCh, waitsOn' = waitsOn, group' = group, nodeLock' = nodeLock,
         accepted' = accepted, answer' = answer,
         Shaped(closed', BOOLEAN), crashed' \subseteq Participant,
         receiver' \in [Participant -> Nat], \A m \in Participant : receiver'[m] \in 0 .. Commands(m),
         \A m \in Participant : nodeLock[m] # 0 => receiver'[m] # 0
  PROVE  ParticipantInv'
<1>1. ReplyTypes /\ NodeTypes /\ GroupWasPushed /\ PushWaits /\ WaitsAndReplies /\ EnoughHaveGroup
    BY Zenon DEF ParticipantInv
<1>2. Shaped(cmd, CommandState)
    BY <1>1, Zenon DEF NodeTypes
<1>c. Placed(cmd', cmd, n, k, s, CommandState)
    BY <1>2, CmdPut, Zenon
<1>3. /\ Shaped(cmd', CommandState) /\ cmd'[n][k] = s
      /\ \A m \in Participant : \A j \in Command(m) : (m # n \/ j # k) => cmd'[m][j] = cmd[m][j]
    BY <1>c, Zenon DEF Placed
<1>4. ReplyTypes'
    BY <1>1, Zenon DEF ReplyTypes
<1>5. NodeTypes'
    BY <1>1, <1>3, Zenon DEF NodeTypes
<1>p. \A c : PushTo(c)' = PushTo(c)
    BY Zenon DEF PushTo
<1>6. GroupWasPushed' /\ EnoughHaveGroup'
  <2>1. GroupWasPushed'
      BY <1>1, <1>p, Zenon DEF GroupWasPushed
  <2>2. EnoughHaveGroup'
      BY <1>1, Zenon DEF EnoughHaveGroup, Resharing
  <2> QED
      BY <2>1, <2>2, Zenon
<1>7. PushWaits'
    BY <1>1, Zenon DEF PushWaits, PushTo
<1>8. WaitsAndReplies'
  <2>1. ASSUME NEW m \in Participant, NEW j \in Command(m), cmd'[m][j] = "waiting" PROVE waitsOn'[m][j] # 0
    <3>1. cmd[m][j] = "waiting"
      <4>1. CASE m = n /\ j = k
          BY <1>3, <2>1, <4>1, Zenon
      <4>2. CASE m # n \/ j # k
          BY <1>3, <2>1, <4>2, Zenon
      <4> QED
          BY <4>1, <4>2, Zenon
    <3> QED
        BY <1>1, <3>1, Zenon DEF WaitsAndReplies
  <2> QED
      BY <1>1, <2>1, Zenon DEF WaitsAndReplies
<1> QED
    BY <1>4, <1>5, <1>6, <1>7, <1>8, Zenon DEF ParticipantInv

\* The types of what a participant has.
LEMMA NodeFacts ==
  ASSUME ParticipantInv
  PROVE  /\ Shaped(closed, BOOLEAN) /\ crashed \subseteq Participant /\ receiver \in [Participant -> Nat]
         /\ \A m \in Participant : receiver[m] \in 0 .. Commands(m)
         /\ \A m \in Participant : nodeLock[m] # 0 => receiver[m] # 0
BY Zenon DEF ParticipantInv, NodeTypes, PushWaits

\* InitDKG or InitReshare at a participant.
LEMMA JoinKeeps ==
  ASSUME SetupInv, NEW n \in Participant, NEW k \in Command(n), JoinCommand(n, k)
  PROVE  SetupInv'
<1>1. LeaderInv /\ ParticipantInv
    BY Zenon DEF SetupInv
<1>2. UNCHANGED <<old, wrongSecret, expected, leaderVars>>
    BY Zenon DEF JoinCommand
<1>3. LeaderInv'
    BY <1>1, <1>2, LeaderLeft, Zenon
<1>4. /\ lead' = lead /\ run' = run /\ inKeys' = inKeys /\ old' = old /\ recvCh' = recvCh /\ waitsOn' = waitsOn
      /\ group' = group /\ nodeLock' = nodeLock /\ accepted' = accepted /\ answer' = answer /\ crashed' = crashed
    BY Zenon DEF JoinCommand, leaderVars
<1>5. "ended" \in CommandState /\ "signal" \in CommandState /\ "ended" # "waiting" /\ "signal" # "waiting"
    BY DEF CommandState
<1>6. nodeLock[n] = 0
    BY Zenon DEF JoinCommand, LockFree
<1> DEFINE r == receiver[n]
<1> DEFINE stop == IF r = 0 THEN closed ELSE [closed EXCEPT ![n][r] = TRUE]
<1>7. Shaped(stop, BOOLEAN)
  <2>1. CASE r = 0
      BY <1>1, <2>1, NodeFacts, Zenon
  <2>2. CASE r # 0
    <3>1. r \in Command(n)
      <4>1. r \in 0 .. Commands(n) /\ Commands(n) \in Nat
          BY <1>1, NodeFacts, SetupAssumption, Zenon
      <4> QED
          BY <2>2, <4>1 DEF Command
    <3>2. TRUE \in BOOLEAN /\ stop = [closed EXCEPT ![n][r] = TRUE]
        BY <2>2, Zenon
    <3>3. Shaped(closed, BOOLEAN)
        BY <1>1, NodeFacts, Zenon
    <3> HIDE DEF stop, r
    <3>4. Shaped([closed EXCEPT ![n][r] = TRUE], BOOLEAN)
        BY <3>1, <3>3, ClosedPut, Zenon DEF Placed
    <3> QED
        BY <3>2, <3>4
  <2> QED
      BY <2>1, <2>2, Zenon
<1> HIDE DEF stop
<1>8. receiver \in [Participant -> Nat] /\ (\A m \in Participant : receiver[m] \in 0 .. Commands(m))
      /\ \A m \in Participant : nodeLock[m] # 0 => receiver[m] # 0
    BY <1>1, NodeFacts, Zenon
<1>9. Shaped(closed, BOOLEAN) /\ crashed' \subseteq Participant
    BY <1>1, <1>4, NodeFacts, Zenon
<1>10. ASSUME NEW v \in 0 .. Commands(n), receiver' = [receiver EXCEPT ![n] = v]
       PROVE  /\ receiver' \in [Participant -> Nat] /\ (\A m \in Participant : receiver'[m] \in 0 .. Commands(m))
              /\ \A m \in Participant : nodeLock[m] # 0 => receiver'[m] # 0
  <2>1. v \in Nat
      BY <1>10, SetupAssumption
  <2>2. receiver' \in [Participant -> Nat] /\ receiver'[n] = v /\ \A m \in Participant : m # n => receiver'[m] = receiver[m]
      BY <1>8, <1>10, <2>1, PutAt, Zenon
  <2> QED
      BY <1>6, <1>8, <2>2, Zenon
<1>11. k \in 0 .. Commands(n) /\ 0 \in 0 .. Commands(n) /\ r \in 0 .. Commands(n)
    BY <1>8, SetupAssumption DEF Command
<1>12. CASE Cmd(n, k, "ended") /\ UNCHANGED <<receiver, closed>>
  <2>1. receiver' = receiver /\ closed' = closed /\ cmd' = [cmd EXCEPT ![n][k] = "ended"]
      BY <1>12, Zenon DEF Cmd
  <2> QED
      BY <1>1, <1>3, <1>4, <1>5, <1>8, <1>9, <2>1, CommandMoves, Zenon DEF SetupInv
<1>13. CASE closed' = stop /\ receiver' = [receiver EXCEPT ![n] = k] /\ Cmd(n, k, "signal")
  <2>1. cmd' = [cmd EXCEPT ![n][k] = "signal"] /\ Shaped(closed', BOOLEAN)
      BY <1>7, <1>13, Zenon DEF Cmd
  <2>2. /\ receiver' \in [Participant -> Nat] /\ (\A m \in Participant : receiver'[m] \in 0 .. Commands(m))
        /\ \A m \in Participant : nodeLock[m] # 0 => receiver'[m] # 0
      BY <1>10, <1>11, <1>13, Zenon
  <2> QED
      BY <1>1, <1>3, <1>4, <1>5, <1>9, <2>1, <2>2, CommandMoves, Zenon DEF SetupInv
<1>14. CASE closed' = stop /\ receiver' = [receiver EXCEPT ![n] = IF Resharing THEN 0 ELSE r] /\ Cmd(n, k, "ended")
  <2>1. cmd' = [cmd EXCEPT ![n][k] = "ended"] /\ Shaped(closed', BOOLEAN)
      BY <1>7, <1>14, Zenon DEF Cmd
  <2>2. (IF Resharing THEN 0 ELSE r) \in 0 .. Commands(n)
      BY <1>11, Zenon
  <2>3. /\ receiver' \in [Participant -> Nat] /\ (\A m \in Participant : receiver'[m] \in 0 .. Commands(m))
        /\ \A m \in Participant : nodeLock[m] # 0 => receiver'[m] # 0
      BY <1>10, <1>14, <2>2, Zenon
  <2> QED
      BY <1>1, <1>3, <1>4, <1>5, <1>9, <2>1, <2>3, CommandMoves, Zenon DEF SetupInv
<1> QED
    BY <1>12, <1>13, <1>14, Zenon DEF JoinCommand, stop, r

\* A command ends, and its deferred function clears the receiver.
LEMMA EndsKeep ==
  ASSUME SetupInv, NEW n \in Participant, NEW k \in Command(n),
         SignalFails(n, k) \/ CommandEnds(n, k) \/ ClearReceiver(n, k)
  PROVE  SetupInv'
<1>1. LeaderInv /\ ParticipantInv
    BY Zenon DEF SetupInv
<1>2. UNCHANGED <<old, wrongSecret, expected, leaderVars>>
    BY Zenon DEF SignalFails, CommandEnds, ClearReceiver
<1>3. LeaderInv'
    BY <1>1, <1>2, LeaderLeft, Zenon
<1>4. /\ lead' = lead /\ run' = run /\ inKeys' = inKeys /\ old' = old
    BY <1>2, Zenon DEF leaderVars
<1>5. /\ recvCh' = recvCh /\ waitsOn' = waitsOn
      /\ group' = group /\ nodeLock' = nodeLock /\ accepted' = accepted /\ answer' = answer /\ crashed' = crashed
    BY Zenon DEF SignalFails, CommandEnds, ClearReceiver
<1>6. "ended" \in CommandState /\ "ending" \in CommandState /\ "ended" # "waiting" /\ "ending" # "waiting"
    BY DEF CommandState
<1>7. receiver \in [Participant -> Nat] /\ (\A m \in Participant : receiver[m] \in 0 .. Commands(m))
      /\ \A m \in Participant : nodeLock[m] # 0 => receiver[m] # 0
    BY <1>1, NodeFacts, Zenon
<1>8. Shaped(closed, BOOLEAN) /\ crashed' \subseteq Participant
    BY <1>1, <1>5, NodeFacts, Zenon
<1>9. CASE SignalFails(n, k) \/ CommandEnds(n, k)
  <2>1. cmd' = [cmd EXCEPT ![n][k] = "ending"] /\ receiver' = receiver /\ closed' = closed
      BY <1>9, Zenon DEF SignalFails, CommandEnds, Cmd
  <2> QED
      BY <1>1, <1>3, <1>4, <1>5, <1>6, <1>7, <1>8, <2>1, CommandMoves, Zenon DEF SetupInv
<1>10. CASE ClearReceiver(n, k)
  <2>1. /\ nodeLock[n] = 0 /\ closed' = [closed EXCEPT ![n][k] = TRUE] /\ cmd' = [cmd EXCEPT ![n][k] = "ended"]
        /\ receiver' = [receiver EXCEPT ![n] = IF receiver[n] = k THEN 0 ELSE receiver[n]]
      BY <1>10, Zenon DEF ClearReceiver, LockFree, Cmd
  <2>2. Shaped(closed', BOOLEAN)
    <3>1. Shaped([closed EXCEPT ![n][k] = TRUE], BOOLEAN)
        BY <1>8, ClosedPut, Zenon DEF Placed
    <3> QED
        BY <2>1, <3>1
  <2>3. (IF receiver[n] = k THEN 0 ELSE receiver[n]) \in Nat /\ (IF receiver[n] = k THEN 0 ELSE receiver[n]) \in 0 .. Commands(n)
      BY <1>7, SetupAssumption
  <2>4. receiver' \in [Participant -> Nat] /\ receiver'[n] \in 0 .. Commands(n)
        /\ \A m \in Participant : m # n => receiver'[m] = receiver[m]
      BY <1>7, <2>1, <2>3, PutAt, Zenon
  <2>5. (\A m \in Participant : receiver'[m] \in 0 .. Commands(m)) /\ \A m \in Participant : nodeLock[m] # 0 => receiver'[m] # 0
      BY <1>7, <2>1, <2>4, Zenon
  <2> QED
      BY <1>1, <1>3, <1>4, <1>5, <1>6, <1>8, <2>1, <2>2, <2>4, <2>5, CommandMoves, Zenon DEF SetupInv
<1> QED
    BY <1>9, <1>10, Zenon

(* A key reaches the manager, or waits with the leader's lock.               *)
LEMMA KeyArrives ==
  ASSUME LeaderInv, UNCHANGED <<old, wrongSecret, expected, lead, manager, run, inKeys, doneCh, counted>>,
         manager # 0, NEW n \in Participant, n \notin wrongSecret, Len(pushKeyCh[manager]) < expected,
         pushKeyCh' = [pushKeyCh EXCEPT ![manager] = Append(pushKeyCh[manager], n)], leaderLock' = Free
  PROVE  LeaderInv'
<1>1. CaseTypes /\ LeadTypes /\ KeyTypes /\ WaitsWithLock /\ \A d \in Setup : ManagerSound(d)
    BY Zenon DEF LeaderInv
<1>2. /\ old' = old /\ wrongSecret' = wrongSecret /\ expected' = expected /\ run' = run /\ inKeys' = inKeys /\ counted' = counted
      /\ lead' = lead /\ manager' = manager /\ doneCh' = doneCh
    OBVIOUS
<1>3. PICK c \in Setup : c = manager
  <2>1. manager \in 0 .. MaxSetups
      BY <1>1, Zenon DEF LeadTypes
  <2> QED
      BY <2>1, SetupAssumption DEF Setup
<1>4. pushKeyCh \in [Setup -> Seq(Participant)] /\ (\A d \in Setup : Len(pushKeyCh[d]) <= expected) /\ expected \in Nat
    BY <1>1, CaseFacts, Zenon DEF KeyTypes
<1>5. pushKeyCh[c] \in Seq(Participant)
    BY <1>4
<1> DEFINE more == Append(pushKeyCh[c], n)
<1>6. more \in Seq(Participant) /\ Len(more) = Len(pushKeyCh[c]) + 1 /\ Len(pushKeyCh[c]) \in Nat
      /\ \A i \in 1 .. Len(more) : more[i] = IF i <= Len(pushKeyCh[c]) THEN pushKeyCh[c][i] ELSE n
    BY <1>5
<1>7. Len(more) <= expected
    BY <1>3, <1>4, <1>6
<1>8. \A i \in 1 .. Len(more) : more[i] \notin wrongSecret
  <2>1. \A i \in 1 .. Len(pushKeyCh[c]) : pushKeyCh[c][i] \notin wrongSecret
      BY <1>1, Zenon DEF ManagerSound
  <2> SUFFICES ASSUME NEW i \in 1 .. Len(more) PROVE more[i] \notin wrongSecret
      BY Zenon
  <2>2. i <= Len(pushKeyCh[c]) => i \in 1 .. Len(pushKeyCh[c])
      BY <1>6
  <2>3. more[i] = IF i <= Len(pushKeyCh[c]) THEN pushKeyCh[c][i] ELSE n
      BY <1>6, Zenon
  <2> HIDE DEF more
  <2> QED
      BY <2>1, <2>2, <2>3
<1> HIDE DEF more
<1>9. pushKeyCh' \in [Setup -> Seq(Participant)] /\ pushKeyCh'[c] = more /\ \A d \in Setup : d # c => pushKeyCh'[d] = pushKeyCh[d]
  <2>1. pushKeyCh' = [pushKeyCh EXCEPT ![c] = more]
      BY <1>3, Zenon DEF more
  <2> QED
      BY <1>4, <1>6, <2>1
<1>10. KeyTypes'
  <2>1. \A d \in Setup : Len(pushKeyCh'[d]) <= expected
      BY <1>4, <1>7, <1>9, Zenon
  <2> QED
      BY <1>2, <1>9, <2>1, Zenon DEF KeyTypes
<1>11. CaseTypes' /\ LeadTypes'
    BY <1>1, <1>2, Zenon DEF CaseTypes, LeadTypes
<1>12. WaitsWithLock'
    BY Zenon DEF WaitsWithLock
<1>13. ManagerSound(c)'
    BY <1>1, <1>2, <1>8, <1>9, Zenon DEF ManagerSound
<1>14. \A d \in Setup : ManagerSound(d)'
    BY <1>1, <1>2, <1>9, <1>13, SameManager, Zenon
<1> QED
    BY <1>10, <1>11, <1>12, <1>14, Zenon DEF LeaderInv

\* The key is signalled to the leader, or the signal fails.
LEMMA SignalKeeps ==
  ASSUME SetupInv, NEW n \in Participant, NEW k \in Command(n), SignalDKGParticipant(n, k)
  PROVE  SetupInv'
<1>1. LeaderInv /\ ParticipantInv
    BY Zenon DEF SetupInv
<1>2. /\ UNCHANGED <<old, wrongSecret, expected, lead, manager, run, inKeys, doneCh, counted>> /\ leaderLock = Free
    BY Zenon DEF SignalDKGParticipant
<1>3. /\ lead' = lead /\ run' = run /\ inKeys' = inKeys /\ old' = old /\ recvCh' = recvCh /\ waitsOn' = waitsOn
      /\ group' = group /\ nodeLock' = nodeLock /\ accepted' = accepted /\ answer' = answer
      /\ crashed' = crashed /\ receiver' = receiver /\ closed' = closed
    BY Zenon DEF SignalDKGParticipant
<1>4. {"ending", "signalled", "sending"} \subseteq CommandState
    BY DEF CommandState
<1>5. \A s \in {"ending", "signalled", "sending"} : s # "waiting"
    OBVIOUS
<1>6. ASSUME NEW s \in {"ending", "signalled", "sending"}, Cmd(n, k, s) PROVE ParticipantInv'
  <2>1. cmd' = [cmd EXCEPT ![n][k] = s] /\ s \in CommandState /\ s # "waiting"
      BY <1>4, <1>5, <1>6, Zenon DEF Cmd
  <2> QED
      BY <1>1, <1>3, <2>1, NodeFacts, CommandMoves, Zenon
<1>7. CASE Cmd(n, k, "ending") /\ UNCHANGED <<pushKeyCh, leaderLock>>
  <2>1. UNCHANGED <<old, wrongSecret, expected, leaderVars>>
      BY <1>2, <1>7, Zenon DEF leaderVars
  <2> QED
      BY <1>1, <1>6, <1>7, <2>1, LeaderLeft, Zenon DEF SetupInv
<1>8. CASE /\ manager # 0 /\ n \notin wrongSecret /\ Len(pushKeyCh[manager]) < expected
           /\ pushKeyCh' = [pushKeyCh EXCEPT ![manager] = Append(pushKeyCh[manager], n)]
           /\ Cmd(n, k, "signalled") /\ UNCHANGED leaderLock
  <2>1. leaderLock' = Free
      BY <1>2, <1>8, Zenon
  <2> QED
      BY <1>1, <1>2, <1>6, <1>8, <2>1, KeyArrives, Zenon DEF SetupInv
<1>9. CASE /\ manager # 0 /\ n \notin wrongSecret /\ leaderLock' = <<"key", n, k>>
           /\ Cmd(n, k, "sending") /\ UNCHANGED pushKeyCh
  <2>1. CaseTypes /\ LeadTypes /\ KeyTypes /\ WaitsWithLock /\ \A d \in Setup : ManagerSound(d)
      BY <1>1, Zenon DEF LeaderInv
  <2>2. /\ old' = old /\ wrongSecret' = wrongSecret /\ expected' = expected /\ run' = run /\ inKeys' = inKeys /\ counted' = counted
        /\ lead' = lead /\ manager' = manager /\ doneCh' = doneCh /\ pushKeyCh' = pushKeyCh
      BY <1>2, <1>9, Zenon
  <2>3. CaseTypes' /\ LeadTypes' /\ KeyTypes'
      BY <2>1, <2>2, Zenon DEF CaseTypes, LeadTypes, KeyTypes
  <2>4. WaitsWithLock'
      BY <1>9, <2>2, Zenon DEF WaitsWithLock
  <2>5. \A d \in Setup : ManagerSound(d)'
      BY <2>1, <2>2, SameManager, Zenon
  <2> QED
      BY <1>6, <1>9, <2>3, <2>4, <2>5, Zenon DEF SetupInv, LeaderInv
<1> QED
    BY <1>7, <1>8, <1>9, Zenon DEF SignalDKGParticipant

\* A signal that waited is taken.
LEMMA KeyTakenKeeps ==
  ASSUME SetupInv, KeyTaken
  PROVE  SetupInv'
<1>1. LeaderInv /\ ParticipantInv
    BY Zenon DEF SetupInv
<1>2. /\ UNCHANGED <<old, wrongSecret, expected, lead, manager, run, inKeys, doneCh, counted>>
      /\ leaderLock # Free /\ leaderLock[1] = "key" /\ leaderLock' = Free
    BY Zenon DEF KeyTaken
<1>3. /\ lead' = lead /\ run' = run /\ inKeys' = inKeys /\ old' = old /\ recvCh' = recvCh /\ waitsOn' = waitsOn
      /\ group' = group /\ nodeLock' = nodeLock /\ accepted' = accepted /\ answer' = answer
      /\ crashed' = crashed /\ receiver' = receiver /\ closed' = closed
    BY Zenon DEF KeyTaken
<1>4. \A c : leaderLock # <<"stop", c>>
    BY <1>2
<1>5. manager # 0 /\ \E n \in Participant : \E k \in Command(n) : leaderLock = <<"key", n, k>> /\ n \notin wrongSecret
  <2>1. WaitsWithLock
      BY <1>1, Zenon DEF LeaderInv
  <2> QED
      BY <1>2, <1>4, <2>1, Zenon DEF WaitsWithLock
<1>6. PICK n \in Participant : \E k \in Command(n) : leaderLock = <<"key", n, k>> /\ n \notin wrongSecret
    BY <1>5, Zenon
<1>7. PICK k \in Command(n) : leaderLock = <<"key", n, k>> /\ n \notin wrongSecret
    BY <1>6, Zenon
<1>8. leaderLock[2] = n /\ leaderLock[3] = k
    BY <1>7
<1>9. /\ Len(pushKeyCh[manager]) < expected
      /\ pushKeyCh' = [pushKeyCh EXCEPT ![manager] = Append(pushKeyCh[manager], n)]
      /\ cmd' = [cmd EXCEPT ![n][k] = IF cmd[n][k] = "sending" THEN "signalled" ELSE cmd[n][k]]
  <2>1. /\ Len(pushKeyCh[manager]) < expected
        /\ pushKeyCh' = [pushKeyCh EXCEPT ![manager] = Append(pushKeyCh[manager], leaderLock[2])]
        /\ cmd' = [cmd EXCEPT ![leaderLock[2]][leaderLock[3]] =
                     IF cmd[leaderLock[2]][leaderLock[3]] = "sending" THEN "signalled" ELSE cmd[leaderLock[2]][leaderLock[3]]]
      BY Zenon DEF KeyTaken
  <2> QED
      BY <1>8, <2>1, Zenon
<1>10. LeaderInv'
    BY <1>1, <1>2, <1>5, <1>7, <1>9, KeyArrives, Zenon
<1> DEFINE s == IF cmd[n][k] = "sending" THEN "signalled" ELSE cmd[n][k]
<1>11. s \in CommandState /\ (s = "waiting" => cmd[n][k] = "waiting")
  <2>1. cmd[n][k] \in CommandState
      BY <1>1, ShapedAt, Zenon DEF ParticipantInv, NodeTypes
  <2>2. "signalled" \in CommandState /\ "signalled" # "waiting"
      BY DEF CommandState
  <2> QED
      BY <2>1, <2>2, Zenon
<1>12. cmd' = [cmd EXCEPT ![n][k] = s]
    BY <1>9, Zenon
<1> HIDE DEF s
<1>13. ParticipantInv'
    BY <1>1, <1>3, <1>11, <1>12, NodeFacts, CommandMoves, Zenon
<1> QED
    BY <1>10, <1>13, Zenon DEF SetupInv

\* WaitDKGInfo reads the receiver again.
LEMMA WaitKeeps ==
  ASSUME SetupInv, NEW n \in Participant, NEW k \in Command(n), WaitDKGInfo(n, k)
  PROVE  SetupInv'
<1>1. LeaderInv /\ ParticipantInv
    BY Zenon DEF SetupInv
<1>2. UNCHANGED <<old, wrongSecret, expected, leaderVars>>
    BY Zenon DEF WaitDKGInfo
<1>3. LeaderInv'
    BY <1>1, <1>2, LeaderLeft, Zenon
<1>4. lead' = lead /\ run' = run /\ inKeys' = inKeys /\ old' = old
    BY <1>2, Zenon DEF leaderVars
<1>5. /\ recvCh' = recvCh /\ group' = group /\ nodeLock' = nodeLock /\ accepted' = accepted /\ answer' = answer
      /\ receiver' = receiver /\ closed' = closed
    BY Zenon DEF WaitDKGInfo
<1>6. ReplyTypes /\ NodeTypes /\ GroupWasPushed /\ PushWaits /\ WaitsAndReplies /\ EnoughHaveGroup
    BY <1>1, Zenon DEF ParticipantInv
<1>7. ReplyTypes'
    BY <1>5, <1>6, Zenon DEF ReplyTypes
<1>p. \A c : PushTo(c)' = PushTo(c)
    BY <1>4, Zenon DEF PushTo
<1>8. GroupWasPushed'
    BY <1>4, <1>5, <1>6, <1>p, Zenon DEF GroupWasPushed
<1>9. EnoughHaveGroup'
    BY <1>4, <1>5, <1>6, Zenon DEF EnoughHaveGroup, Resharing
<1>10. PushWaits'
    BY <1>4, <1>5, <1>6, Zenon DEF PushWaits, PushTo
<1>11. CASE crashed' = crashed \cup {n} /\ UNCHANGED <<cmd, waitsOn>>
  <2>1. cmd' = cmd /\ waitsOn' = waitsOn
      BY <1>11, Zenon
  <2>2. crashed' \subseteq Participant
    <3>1. crashed \subseteq Participant
        BY <1>6, Zenon DEF NodeTypes
    <3> QED
        BY <1>11, <3>1
  <2>3. NodeTypes'
      BY <1>5, <1>6, <2>1, <2>2, Zenon DEF NodeTypes
  <2>4. WaitsAndReplies'
      BY <1>5, <1>6, <2>1, Zenon DEF WaitsAndReplies
  <2> QED
      BY <1>3, <1>7, <1>8, <1>9, <1>10, <2>3, <2>4, Zenon DEF SetupInv, ParticipantInv
<1>12. CASE /\ receiver[n] # 0 /\ waitsOn' = [waitsOn EXCEPT ![n][k] = receiver[n]]
            /\ cmd' = [cmd EXCEPT ![n][k] = "waiting"] /\ UNCHANGED crashed
  <2>1. "waiting" \in CommandState
      BY DEF CommandState
  <2>2. Shaped(cmd, CommandState) /\ Shaped(waitsOn, Nat) /\ receiver \in [Participant -> Nat]
        /\ receiver[n] \in 0 .. Commands(n)
        /\ \A m \in Participant : \A j \in Command(m) : waitsOn[m][j] \in 0 .. Commands(m)
      BY <1>6, Zenon DEF NodeTypes
  <2>3. receiver[n] \in Nat
      BY <2>2
  <2>4. Placed(cmd', cmd, n, k, "waiting", CommandState)
      BY <1>12, <2>1, <2>2, CmdPut, Zenon
  <2>5. Placed(waitsOn', waitsOn, n, k, receiver[n], Nat)
      BY <1>12, <2>2, <2>3, WaitsPut, Zenon
  <2>6. Shaped(cmd', CommandState) /\ \A m \in Participant : \A j \in Command(m) : (m # n \/ j # k) => cmd'[m][j] = cmd[m][j]
      BY <2>4, Zenon DEF Placed
  <2>7. /\ Shaped(waitsOn', Nat) /\ waitsOn'[n][k] = receiver[n]
        /\ \A m \in Participant : \A j \in Command(m) : (m # n \/ j # k) => waitsOn'[m][j] = waitsOn[m][j]
      BY <2>5, Zenon DEF Placed
  <2>8. \A m \in Participant : \A j \in Command(m) : waitsOn'[m][j] \in 0 .. Commands(m)
    <3> SUFFICES ASSUME NEW m \in Participant, NEW j \in Command(m) PROVE waitsOn'[m][j] \in 0 .. Commands(m)
        BY Zenon
    <3>1. CASE m = n /\ j = k
        BY <2>2, <2>7, <3>1, Zenon
    <3>2. CASE m # n \/ j # k
        BY <2>2, <2>7, <3>2, Zenon
    <3> QED
        BY <3>1, <3>2, Zenon
  <2>9. crashed' = crashed
      BY <1>12, Zenon
  <2>10. NodeTypes'
      BY <1>5, <1>6, <2>6, <2>7, <2>8, <2>9, Zenon DEF NodeTypes
  <2>11. ASSUME NEW m \in Participant, NEW j \in Command(m), cmd'[m][j] = "waiting" PROVE waitsOn'[m][j] # 0
    <3>1. CASE m = n /\ j = k
        BY <1>12, <2>7, <3>1, Zenon
    <3>2. CASE m # n \/ j # k
      <4>1. cmd[m][j] = "waiting" /\ waitsOn'[m][j] = waitsOn[m][j]
          BY <2>6, <2>7, <2>11, <3>2, Zenon
      <4> QED
          BY <1>6, <4>1, Zenon DEF WaitsAndReplies
    <3> QED
        BY <3>1, <3>2, Zenon
  <2>12. WaitsAndReplies'
      BY <1>5, <1>6, <2>11, Zenon DEF WaitsAndReplies
  <2> QED
      BY <1>3, <1>7, <1>8, <1>9, <1>10, <2>10, <2>12, Zenon DEF SetupInv, ParticipantInv
<1> QED
    BY <1>11, <1>12, Zenon DEF WaitDKGInfo, Cmd

\* A command takes the group from its receiver.
LEMMA ReceiveKeeps ==
  ASSUME SetupInv, NEW n \in Participant, NEW k \in Command(n), ReceiveGroup(n, k)
  PROVE  SetupInv'
<1>1. LeaderInv /\ ParticipantInv
    BY Zenon DEF SetupInv
<1>2. UNCHANGED <<old, wrongSecret, expected, leaderVars>>
    BY Zenon DEF ReceiveGroup
<1>3. LeaderInv'
    BY <1>1, <1>2, LeaderLeft, Zenon
<1>4. lead' = lead /\ run' = run /\ inKeys' = inKeys /\ old' = old
    BY <1>2, Zenon DEF leaderVars
<1>5. /\ waitsOn' = waitsOn /\ nodeLock' = nodeLock /\ accepted' = accepted /\ answer' = answer
      /\ receiver' = receiver /\ closed' = closed /\ crashed' = crashed
    BY Zenon DEF ReceiveGroup
<1>6. ReplyTypes /\ NodeTypes /\ GroupWasPushed /\ PushWaits /\ WaitsAndReplies /\ EnoughHaveGroup
    BY <1>1, Zenon DEF ParticipantInv
<1>7. ReplyTypes'
    BY <1>5, <1>6, Zenon DEF ReplyTypes
<1>p. \A c : PushTo(c)' = PushTo(c)
    BY <1>4, Zenon DEF PushTo
<1>9. EnoughHaveGroup'
    BY <1>4, <1>5, <1>6, Zenon DEF EnoughHaveGroup, Resharing
<1>10. PushWaits'
    BY <1>4, <1>5, <1>6, Zenon DEF PushWaits, PushTo
<1> DEFINE r == waitsOn[n][k]
<1> DEFINE c == recvCh[n][r]
<1>11. /\ cmd[n][k] = "waiting" /\ recvCh' = [recvCh EXCEPT ![n][r] = 0]
       /\ \/ c # 0 /\ group' = [group EXCEPT ![n][k] = c] /\ Cmd(n, k, "dkg")
          \/ group' = group /\ Cmd(n, k, "ending")
    BY Zenon DEF ReceiveGroup
<1>12. r \in Command(n)
  <2>1. r \in 0 .. Commands(n) /\ Commands(n) \in Nat
      BY <1>6, SetupAssumption, Zenon DEF NodeTypes
  <2>2. r # 0
      BY <1>6, <1>11, Zenon DEF WaitsAndReplies
  <2> QED
      BY <2>1, <2>2 DEF Command
<1> HIDE DEF r, c
<1>13. Shaped(cmd, CommandState) /\ Shaped(recvCh, 0 .. MaxSetups) /\ Shaped(group, 0 .. MaxSetups)
    BY <1>6, Zenon DEF NodeTypes
<1>14. c \in 0 .. MaxSetups /\ 0 \in 0 .. MaxSetups
  <2>1. 0 \in 0 .. MaxSetups
      BY SetupAssumption
  <2> QED
      BY <1>12, <1>13, <2>1, ShapedAt, Zenon DEF c
<1>15. Placed(recvCh', recvCh, n, r, 0, 0 .. MaxSetups)
    BY <1>11, <1>12, <1>13, <1>14, RecvPut, Zenon
<1>16. PICK s \in {"dkg", "ending"} : cmd' = [cmd EXCEPT ![n][k] = s]
    BY <1>11, Zenon DEF Cmd
<1>17. s \in CommandState /\ s # "waiting"
    BY <1>16 DEF CommandState
<1>18. Placed(cmd', cmd, n, k, s, CommandState)
    BY <1>13, <1>16, <1>17, CmdPut, Zenon
<1>19. Shaped(group', 0 .. MaxSetups)
       /\ \A m \in Participant : \A j \in Command(m) : group'[m][j] = group[m][j] \/ (m = n /\ j = k /\ group'[m][j] = c)
  <2>1. CASE group' = group
      BY <1>13, <2>1, Zenon
  <2>2. CASE group' = [group EXCEPT ![n][k] = c]
    <3>1. Placed(group', group, n, k, c, 0 .. MaxSetups)
        BY <1>13, <1>14, <2>2, GroupPut, Zenon
    <3> QED
        BY <3>1, Zenon DEF Placed
  <2> QED
      BY <1>11, <2>1, <2>2, Zenon
<1>20. Shaped(cmd', CommandState) /\ cmd'[n][k] = s
       /\ \A m \in Participant : \A j \in Command(m) : (m # n \/ j # k) => cmd'[m][j] = cmd[m][j]
    BY <1>18, Zenon DEF Placed
<1>21. Shaped(recvCh', 0 .. MaxSetups) /\ \A m \in Participant : \A j \in Command(m) : recvCh'[m][j] # 0 => recvCh'[m][j] = recvCh[m][j]
  <2>1. /\ Shaped(recvCh', 0 .. MaxSetups) /\ recvCh'[n][r] = 0
        /\ \A m \in Participant : \A j \in Command(m) : (m # n \/ j # r) => recvCh'[m][j] = recvCh[m][j]
      BY <1>15, Zenon DEF Placed
  <2> QED
      BY <2>1, Zenon
<1>22. NodeTypes'
    BY <1>5, <1>6, <1>19, <1>20, <1>21, Zenon DEF NodeTypes
<1>23. WaitsAndReplies'
  <2>1. ASSUME NEW m \in Participant, NEW j \in Command(m), cmd'[m][j] = "waiting" PROVE waitsOn'[m][j] # 0
    <3>1. cmd[m][j] = "waiting"
        BY <1>17, <1>20, <2>1, Zenon
    <3> QED
        BY <1>5, <1>6, <3>1, Zenon DEF WaitsAndReplies
  <2> QED
      BY <1>5, <1>6, <2>1, Zenon DEF WaitsAndReplies
<1>24. GroupWasPushed'
  <2> SUFFICES ASSUME NEW m \in Participant, NEW j \in Command(m), NEW x \in {recvCh'[m][j], group'[m][j]} \ {0}
               PROVE m \in accepted[x] /\ m \in PushTo(x) /\ run[x] = "done"
      BY <1>4, <1>5, <1>p, Zenon DEF GroupWasPushed
  <2>1. CASE x \in {recvCh[m][j], group[m][j]}
      BY <1>6, <2>1, Zenon DEF GroupWasPushed
  <2>2. CASE m = n /\ x = c
      BY <1>6, <1>12, <2>2, Zenon DEF GroupWasPushed, c
  <2> QED
      BY <1>19, <1>21, <2>1, <2>2, Zenon
<1> QED
    BY <1>3, <1>7, <1>9, <1>10, <1>22, <1>23, <1>24, Zenon DEF SetupInv, ParticipantInv
------------------------------------------------------------------------------
(* The push of the group.                                                    *)
Answers == {"none", "pending", "ok", "error"}

(* The replies change at reply a of n to the push of c.                      *)
Replied(c, n, a) ==
    /\ answer' \in [Setup -> [Participant -> Answers]]
    /\ answer'[c][n] = a
    /\ \A d \in Setup : \A m \in Participant : (d # c \/ m # n) => answer'[d][m] = answer[d][m]

\* One node answers one push.
LEMMA AnswerPut ==
  ASSUME answer \in [Setup -> [Participant -> Answers]], NEW c \in Setup, NEW n \in Participant, NEW a \in Answers,
         Answer(c, n, a)
  PROVE  Replied(c, n, a)
<1>1. answer' = [answer EXCEPT ![c] = [answer[c] EXCEPT ![n] = a]]
    BY Zenon DEF Answer
<1>2. answer[c] \in [Participant -> Answers]
    OBVIOUS
<1> DEFINE row == [answer[c] EXCEPT ![n] = a]
<1>3. row \in [Participant -> Answers] /\ row[n] = a /\ \A m \in Participant : m # n => row[m] = answer[c][m]
    BY <1>2, PutAt, Zenon
<1> HIDE DEF row
<1>4. answer' \in [Setup -> [Participant -> Answers]] /\ answer'[c] = row /\ \A d \in Setup : d # c => answer'[d] = answer[d]
  <2>1. answer' = [answer EXCEPT ![c] = row]
      BY <1>1, Zenon DEF row
  <2> QED
      BY <1>3, <2>1, PutAt, Zenon
<1>5. ASSUME NEW d \in Setup, NEW m \in Participant, d # c \/ m # n PROVE answer'[d][m] = answer[d][m]
  <2>1. CASE d # c
      BY <1>4, <2>1, Zenon
  <2>2. CASE d = c /\ m # n
      BY <1>3, <1>4, <2>2, Zenon
  <2> QED
      BY <1>5, <2>1, <2>2, Zenon
<1> QED
    BY <1>3, <1>4, <1>5, Zenon DEF Replied

(* More nodes have the group.                                                *)
LEMMA MoreAccepted ==
  ASSUME CaseTypes, LeadTypes, EnoughHaveGroup, lead' = lead, inKeys' = inKeys, old' = old,
         \A c \in Setup : accepted[c] \subseteq accepted'[c]
  PROVE  EnoughHaveGroup'
<1> SUFFICES ASSUME NEW c \in Setup, lead[c] = "dkg"
             PROVE /\ Cardinality((accepted'[c] \cup {Leader}) \cap inKeys[c]) >= Threshold
                   /\ Resharing => Cardinality((accepted'[c] \cup {Leader}) \cap old) >= OldThreshold
    BY Zenon DEF EnoughHaveGroup, Resharing
<1>1. /\ Cardinality((accepted[c] \cup {Leader}) \cap inKeys[c]) >= Threshold
      /\ Resharing => Cardinality((accepted[c] \cup {Leader}) \cap old) >= OldThreshold
    BY Zenon DEF EnoughHaveGroup
<1>2. ASSUME NEW S \in SUBSET Node
      PROVE /\ Cardinality((accepted[c] \cup {Leader}) \cap S) <= Cardinality((accepted'[c] \cup {Leader}) \cap S)
            /\ Cardinality((accepted[c] \cup {Leader}) \cap S) \in Nat
            /\ Cardinality((accepted'[c] \cup {Leader}) \cap S) \in Nat
  <2>1. (accepted'[c] \cup {Leader}) \cap S \in SUBSET Node /\ (accepted[c] \cup {Leader}) \cap S \in SUBSET Node
      BY Zenon
  <2>2. (accepted[c] \cup {Leader}) \cap S \in SUBSET ((accepted'[c] \cup {Leader}) \cap S)
      BY Zenon
  <2> QED
      BY <2>1, <2>2, SetupAssumption, Zenon
<1>3. inKeys[c] \in SUBSET Node /\ old \in SUBSET Node
  <2>1. inKeys \in [Setup -> SUBSET Node]
      BY Zenon DEF LeadTypes
  <2> QED
      BY <2>1, CaseFacts
<1>4. Threshold \in Int /\ OldThreshold \in Int
    BY ThresholdFacts, Zenon
<1>5. /\ Cardinality((accepted[c] \cup {Leader}) \cap inKeys[c]) <= Cardinality((accepted'[c] \cup {Leader}) \cap inKeys[c])
      /\ Cardinality((accepted[c] \cup {Leader}) \cap inKeys[c]) \in Nat
      /\ Cardinality((accepted'[c] \cup {Leader}) \cap inKeys[c]) \in Nat
    BY <1>2, <1>3, Zenon
<1>6. /\ Cardinality((accepted[c] \cup {Leader}) \cap old) <= Cardinality((accepted'[c] \cup {Leader}) \cap old)
      /\ Cardinality((accepted[c] \cup {Leader}) \cap old) \in Nat
      /\ Cardinality((accepted'[c] \cup {Leader}) \cap old) \in Nat
    BY <1>2, <1>3, Zenon
<1>7. Cardinality((accepted'[c] \cup {Leader}) \cap inKeys[c]) >= Threshold
    BY <1>1, <1>4, <1>5
<1>8. Resharing => Cardinality((accepted'[c] \cup {Leader}) \cap old) >= OldThreshold
    BY <1>1, <1>4, <1>6
<1> QED
    BY <1>7, <1>8, Zenon

(* A node takes the group, in PushDKGInfo or after having waited there.      *)
LEMMA GroupTaken ==
  ASSUME SetupInv, LeaderInv', NEW c \in Setup, NEW n \in Participant, NEW r \in Command(n),
         n \in PushTo(c), run[c] = "done",
         recvCh' = [recvCh EXCEPT ![n][r] = c], accepted' = [accepted EXCEPT ![c] = accepted[c] \cup {n}], Reply(c, n),
         nodeLock' = nodeLock \/ nodeLock' = [nodeLock EXCEPT ![n] = 0],
         lead' = lead, run' = run, inKeys' = inKeys, old' = old,
         cmd' = cmd, receiver' = receiver, closed' = closed, waitsOn' = waitsOn, group' = group, crashed' = crashed
  PROVE  SetupInv'
<1>1. CaseTypes /\ LeadTypes /\ ReplyTypes /\ NodeTypes /\ GroupWasPushed /\ PushWaits /\ WaitsAndReplies /\ EnoughHaveGroup
    BY Zenon DEF SetupInv, LeaderInv, ParticipantInv
<1>2. answer \in [Setup -> [Participant -> Answers]] /\ accepted \in [Setup -> SUBSET Participant]
    BY <1>1, Zenon DEF ReplyTypes, Answers
<1>3. "ok" \in Answers /\ "error" \in Answers /\ "error" # "ok"
    BY DEF Answers
<1>4. PICK a \in {"ok", "error"} : Answer(c, n, a)
    BY Zenon DEF Reply
<1>5. /\ answer' \in [Setup -> [Participant -> Answers]]
      /\ \A d \in Setup : \A m \in Participant : answer'[d][m] = "ok" => answer[d][m] = "ok" \/ (d = c /\ m = n)
  <2>1. a \in Answers
      BY <1>3, <1>4, Zenon
  <2>2. Replied(c, n, a)
      BY <1>2, <1>4, <2>1, AnswerPut, Zenon
  <2> QED
      BY <2>2, Zenon DEF Replied
<1>6. /\ accepted' \in [Setup -> SUBSET Participant] /\ accepted'[c] = accepted[c] \cup {n}
      /\ \A d \in Setup : d # c => accepted'[d] = accepted[d]
  <2>1. accepted[c] \cup {n} \in SUBSET Participant
      BY <1>2
  <2> QED
      BY <1>2, <2>1, PutAt, Zenon
<1>7. n \in accepted'[c] /\ \A d \in Setup : accepted[d] \subseteq accepted'[d]
    BY <1>6, Zenon
<1>8. ReplyTypes'
    BY <1>5, <1>6, Zenon DEF ReplyTypes, Answers
<1>9. WaitsAndReplies'
  <2>1. ASSUME NEW d \in Setup, NEW m \in Participant, answer'[d][m] = "ok" PROVE m \in accepted'[d]
    <3>1. CASE answer[d][m] = "ok"
      <4>1. m \in accepted[d]
          BY <1>1, <3>1, Zenon DEF WaitsAndReplies
      <4> QED
          BY <1>7, <4>1, Zenon
    <3>2. CASE d = c /\ m = n
        BY <1>7, <3>2, Zenon
    <3> QED
        BY <1>5, <2>1, <3>1, <3>2, Zenon
  <2> QED
      BY <1>1, <2>1, Zenon DEF WaitsAndReplies
<1>10. EnoughHaveGroup'
    BY <1>1, <1>7, MoreAccepted, Zenon
<1>p. \A d : PushTo(d)' = PushTo(d)
    BY Zenon DEF PushTo
<1>11. nodeLock' \in [Participant -> 0 .. MaxSetups] /\ \A m \in Participant : nodeLock'[m] # 0 => nodeLock'[m] = nodeLock[m]
  <2>1. nodeLock \in [Participant -> 0 .. MaxSetups] /\ 0 \in 0 .. MaxSetups
    <3>1. 0 \in 0 .. MaxSetups
        BY SetupAssumption
    <3> QED
        BY <1>1, <3>1, Zenon DEF NodeTypes
  <2>2. CASE nodeLock' = nodeLock
      BY <2>1, <2>2, Zenon
  <2>3. CASE nodeLock' = [nodeLock EXCEPT ![n] = 0]
    <3>1. nodeLock' \in [Participant -> 0 .. MaxSetups] /\ nodeLock'[n] = 0 /\ \A m \in Participant : m # n => nodeLock'[m] = nodeLock[m]
        BY <2>1, <2>3, PutAt, Zenon
    <3> QED
        BY <3>1, Zenon
  <2> QED
      BY <2>2, <2>3, Zenon
<1>12. PushWaits'
  <2> SUFFICES ASSUME NEW m \in Participant, nodeLock'[m] # 0
               PROVE m \in (old \cup inKeys[nodeLock'[m]]) \ {Leader} /\ run[nodeLock'[m]] = "done" /\ receiver[m] # 0
      BY Zenon DEF PushWaits, PushTo
  <2>1. nodeLock'[m] = nodeLock[m]
      BY <1>11, Zenon
  <2> QED
      BY <1>1, <2>1, Zenon DEF PushWaits, PushTo
<1>13. c \in 0 .. MaxSetups /\ c # 0
    BY SetupAssumption DEF Setup
<1>14. Placed(recvCh', recvCh, n, r, c, 0 .. MaxSetups)
  <2>1. Shaped(recvCh, 0 .. MaxSetups)
      BY <1>1, Zenon DEF NodeTypes
  <2> QED
      BY <1>13, <2>1, RecvPut, Zenon
<1>15. /\ Shaped(recvCh', 0 .. MaxSetups) /\ recvCh'[n][r] = c
       /\ \A m \in Participant : \A j \in Command(m) : (m # n \/ j # r) => recvCh'[m][j] = recvCh[m][j]
    BY <1>14, Zenon DEF Placed
<1>16. NodeTypes'
    BY <1>1, <1>11, <1>15, Zenon DEF NodeTypes
<1>17. GroupWasPushed'
  <2> SUFFICES ASSUME NEW m \in Participant, NEW j \in Command(m), NEW x \in {recvCh'[m][j], group[m][j]} \ {0}
               PROVE m \in accepted'[x] /\ m \in PushTo(x) /\ run[x] = "done"
      BY <1>p, Zenon DEF GroupWasPushed
  <2>1. CASE x \in {recvCh[m][j], group[m][j]}
    <3>1. m \in accepted[x] /\ m \in PushTo(x) /\ run[x] = "done"
        BY <1>1, <2>1, Zenon DEF GroupWasPushed
    <3>2. recvCh[m][j] \in 0 .. MaxSetups /\ group[m][j] \in 0 .. MaxSetups
        BY <1>1, ShapedAt, Zenon DEF NodeTypes
    <3>3. x \in Setup
      <4>1. x \in 0 .. MaxSetups /\ x # 0
          BY <2>1, <3>2, Zenon
      <4> QED
          BY <4>1, SetupAssumption DEF Setup
    <3> QED
        BY <1>7, <3>1, <3>3, Zenon
  <2>2. CASE m = n /\ x = c
      BY <1>7, <2>2, Zenon
  <2>3. x = recvCh'[m][j] \/ x = group[m][j]
      BY Zenon
  <2>4. recvCh'[m][j] = recvCh[m][j] \/ (m = n /\ recvCh'[m][j] = c)
    <3>1. CASE m = n /\ j = r
        BY <1>15, <3>1, Zenon
    <3> QED
        BY <1>15, <3>1, Zenon
  <2> QED
      BY <2>1, <2>2, <2>3, <2>4, Zenon
<1> QED
    BY <1>8, <1>9, <1>10, <1>12, <1>16, <1>17, Zenon DEF SetupInv, ParticipantInv

(* A node does not take the group, or not yet.                               *)
LEMMA GroupNotTaken ==
  ASSUME SetupInv, LeaderInv', NEW c \in Setup, NEW n \in Participant, NEW a \in {"pending", "error"}, Answer(c, n, a),
         nodeLock' = nodeLock \/ (/\ nodeLock' = [nodeLock EXCEPT ![n] = c]
                                  /\ n \in PushTo(c) /\ run[c] = "done" /\ receiver[n] # 0),
         crashed' \subseteq crashed \cup {n}, lead' = lead, run' = run, inKeys' = inKeys, old' = old, recvCh' = recvCh,
         cmd' = cmd, receiver' = receiver, closed' = closed, waitsOn' = waitsOn, group' = group, accepted' = accepted
  PROVE  SetupInv'
<1>1. CaseTypes /\ LeadTypes /\ ReplyTypes /\ NodeTypes /\ GroupWasPushed /\ PushWaits /\ WaitsAndReplies /\ EnoughHaveGroup
    BY Zenon DEF SetupInv, LeaderInv, ParticipantInv
<1>2. answer \in [Setup -> [Participant -> Answers]]
    BY <1>1, Zenon DEF ReplyTypes, Answers
<1>3. a \in Answers /\ a # "ok"
    BY DEF Answers
<1>4. /\ answer' \in [Setup -> [Participant -> Answers]]
      /\ \A d \in Setup : \A m \in Participant : answer'[d][m] = "ok" => answer[d][m] = "ok"
  <2>1. Replied(c, n, a)
      BY <1>2, <1>3, AnswerPut, Zenon
  <2> QED
      BY <1>3, <2>1, Zenon DEF Replied
<1>5. ReplyTypes'
    BY <1>1, <1>4, Zenon DEF ReplyTypes, Answers
<1>6. WaitsAndReplies'
    BY <1>1, <1>4, Zenon DEF WaitsAndReplies
<1>7. EnoughHaveGroup'
    BY <1>1, Zenon DEF EnoughHaveGroup, Resharing
<1>p. \A d : PushTo(d)' = PushTo(d)
    BY Zenon DEF PushTo
<1>8. GroupWasPushed'
    BY <1>1, <1>p, Zenon DEF GroupWasPushed
<1>9. crashed' \subseteq Participant
    BY <1>1, Zenon DEF NodeTypes
<1>10. nodeLock' \in [Participant -> 0 .. MaxSetups]
       /\ \A m \in Participant : nodeLock'[m] = nodeLock[m]
             \/ (m = n /\ nodeLock'[m] = c /\ n \in PushTo(c) /\ run[c] = "done" /\ receiver[n] # 0)
  <2>1. nodeLock \in [Participant -> 0 .. MaxSetups] /\ c \in 0 .. MaxSetups
    <3>1. c \in 0 .. MaxSetups
        BY SetupAssumption DEF Setup
    <3> QED
        BY <1>1, <3>1, Zenon DEF NodeTypes
  <2>2. CASE nodeLock' = nodeLock
      BY <2>1, <2>2, Zenon
  <2>3. CASE /\ nodeLock' = [nodeLock EXCEPT ![n] = c]
             /\ n \in PushTo(c) /\ run[c] = "done" /\ receiver[n] # 0
    <3>1. nodeLock' \in [Participant -> 0 .. MaxSetups] /\ nodeLock'[n] = c /\ \A m \in Participant : m # n => nodeLock'[m] = nodeLock[m]
        BY <2>1, <2>3, PutAt, Zenon
    <3> QED
        BY <2>3, <3>1, Zenon
  <2> QED
      BY <2>2, <2>3, Zenon
<1>11. PushWaits'
  <2> SUFFICES ASSUME NEW m \in Participant, nodeLock'[m] # 0
               PROVE m \in (old \cup inKeys[nodeLock'[m]]) \ {Leader} /\ run[nodeLock'[m]] = "done" /\ receiver[m] # 0
      BY Zenon DEF PushWaits, PushTo
  <2>1. CASE nodeLock'[m] = nodeLock[m]
      BY <1>1, <2>1, Zenon DEF PushWaits, PushTo
  <2>2. CASE m = n /\ nodeLock'[m] = c /\ n \in PushTo(c) /\ run[c] = "done" /\ receiver[n] # 0
      BY <2>2, Zenon DEF PushTo
  <2> QED
      BY <1>10, <2>1, <2>2, Zenon
<1>12. NodeTypes'
    BY <1>1, <1>9, <1>10, Zenon DEF NodeTypes
<1> QED
    BY <1>5, <1>6, <1>7, <1>8, <1>11, <1>12, Zenon DEF SetupInv, ParticipantInv

\* PushDKGInfo at a node, or a push that fails.
LEMMA PushKeeps ==
  ASSUME SetupInv, NEW c \in Setup, NEW n \in Participant, PushDKGInfo(c, n) \/ PushFails(c, n)
  PROVE  SetupInv'
<1>1. UNCHANGED <<old, wrongSecret, expected, leaderVars>>
    BY Zenon DEF PushDKGInfo, PushFails
<1>2. LeaderInv'
    BY <1>1, LeaderLeft, Zenon DEF SetupInv
<1>3. lead' = lead /\ run' = run /\ inKeys' = inKeys /\ old' = old
    BY <1>1, Zenon DEF leaderVars
<1>4. /\ cmd' = cmd /\ receiver' = receiver /\ closed' = closed /\ waitsOn' = waitsOn /\ group' = group
    BY Zenon DEF PushDKGInfo, PushFails, nodeVars
<1>5. n \in PushTo(c) /\ run[c] = "done"
  <2>1. lead[c] \in Pushed /\ n \in PushTo(c)
    <3>1. CASE PushDKGInfo(c, n)
        BY <3>1, Zenon DEF PushDKGInfo, Pushed
    <3>2. CASE PushFails(c, n)
        BY <3>2, Zenon DEF PushFails, Pushed
    <3> QED
        BY <3>1, <3>2, Zenon
  <2>2. ManagerSound(c)
      BY Zenon DEF SetupInv, LeaderInv
  <2> QED
      BY <2>1, <2>2, Zenon DEF ManagerSound
<1> DEFINE r == receiver[n]
<1>6. CASE Answer(c, n, "error") /\ UNCHANGED <<recvCh, nodeLock, accepted>> /\ crashed' \subseteq crashed \cup {n}
  <2>1. recvCh' = recvCh /\ nodeLock' = nodeLock /\ accepted' = accepted
      BY <1>6, Zenon
  <2> QED
      BY <1>2, <1>3, <1>4, <1>6, <2>1, GroupNotTaken, Zenon
<1>7. CASE /\ r # 0 /\ nodeLock' = [nodeLock EXCEPT ![n] = c] /\ Answer(c, n, "pending")
           /\ UNCHANGED <<recvCh, crashed, accepted>>
  <2>1. recvCh' = recvCh /\ crashed' \subseteq crashed \cup {n} /\ accepted' = accepted
      BY <1>7, Zenon
  <2> QED
      BY <1>2, <1>3, <1>4, <1>5, <1>7, <2>1, GroupNotTaken, Zenon
<1>8. CASE /\ r # 0 /\ recvCh' = [recvCh EXCEPT ![n][r] = c] /\ accepted' = [accepted EXCEPT ![c] = accepted[c] \cup {n}]
           /\ Reply(c, n) /\ UNCHANGED <<nodeLock, crashed>>
  <2>1. nodeLock' = nodeLock /\ crashed' = crashed
      BY <1>8, Zenon
  <2>2. r \in Command(n)
    <3>1. r \in 0 .. Commands(n) /\ Commands(n) \in Nat
        BY NodeFacts, SetupAssumption, Zenon DEF SetupInv
    <3> QED
        BY <1>8, <3>1 DEF Command
  <2> HIDE DEF r
  <2> QED
      BY <1>2, <1>3, <1>4, <1>5, <1>8, <2>1, <2>2, GroupTaken, Zenon
<1>9. CASE PushFails(c, n)
  <2>1. Answer(c, n, "error") /\ UNCHANGED <<recvCh, nodeLock, accepted>> /\ crashed' = crashed
      BY <1>9, Zenon DEF PushFails, nodeVars
  <2> QED
      BY <1>6, <2>1, Zenon
<1>10. CASE PushDKGInfo(c, n)
  <2>1. \/ Answer(c, n, "error") /\ UNCHANGED <<recvCh, nodeLock, crashed, accepted>>
        \/ Answer(c, n, "error") /\ UNCHANGED <<recvCh, nodeLock, accepted>> /\ crashed' = crashed \cup {n}
        \/ /\ r # 0 /\ nodeLock' = [nodeLock EXCEPT ![n] = c] /\ Answer(c, n, "pending")
           /\ UNCHANGED <<recvCh, crashed, accepted>>
        \/ /\ r # 0 /\ recvCh' = [recvCh EXCEPT ![n][r] = c] /\ accepted' = [accepted EXCEPT ![c] = accepted[c] \cup {n}]
           /\ Reply(c, n) /\ UNCHANGED <<nodeLock, crashed>>
      BY <1>10, Zenon DEF PushDKGInfo
  <2>2. CASE Answer(c, n, "error") /\ UNCHANGED <<recvCh, nodeLock, crashed, accepted>>
      BY <1>6, <2>2, Zenon
  <2>3. CASE Answer(c, n, "error") /\ UNCHANGED <<recvCh, nodeLock, accepted>> /\ crashed' = crashed \cup {n}
      BY <1>6, <2>3, Zenon
  <2> HIDE DEF r
  <2> QED
      BY <1>7, <1>8, <2>1, <2>2, <2>3, Zenon
<1> QED
    BY <1>9, <1>10, Zenon

\* A push that waited is taken.
LEMMA PushTakenKeeps ==
  ASSUME SetupInv, NEW n \in Participant, PushTaken(n)
  PROVE  SetupInv'
<1>1. UNCHANGED <<old, wrongSecret, expected, leaderVars>>
    BY Zenon DEF PushTaken
<1>2. LeaderInv'
    BY <1>1, LeaderLeft, Zenon DEF SetupInv
<1>3. lead' = lead /\ run' = run /\ inKeys' = inKeys /\ old' = old
    BY <1>1, Zenon DEF leaderVars
<1>4. cmd' = cmd /\ receiver' = receiver /\ closed' = closed /\ waitsOn' = waitsOn /\ group' = group /\ crashed' = crashed
    BY Zenon DEF PushTaken
<1> DEFINE c == nodeLock[n]
<1> DEFINE r == receiver[n]
<1>5. /\ c # 0 /\ recvCh' = [recvCh EXCEPT ![n][r] = c] /\ accepted' = [accepted EXCEPT ![c] = accepted[c] \cup {n}]
      /\ nodeLock' = [nodeLock EXCEPT ![n] = 0] /\ Reply(c, n)
    BY Zenon DEF PushTaken
<1>6. n \in PushTo(c) /\ run[c] = "done" /\ r # 0
    BY <1>5, Zenon DEF SetupInv, ParticipantInv, PushWaits
<1>7. c \in Setup
  <2>1. nodeLock \in [Participant -> 0 .. MaxSetups]
      BY Zenon DEF SetupInv, ParticipantInv, NodeTypes
  <2>2. c \in 0 .. MaxSetups
      BY <2>1
  <2> HIDE DEF c
  <2> QED
      BY <1>5, <2>2, SetupAssumption DEF Setup
<1>8. r \in Command(n)
  <2>1. r \in 0 .. Commands(n) /\ Commands(n) \in Nat
      BY NodeFacts, SetupAssumption, Zenon DEF SetupInv
  <2> HIDE DEF r
  <2> QED
      BY <1>6, <2>1 DEF Command
<1> HIDE DEF c, r
<1> QED
    BY <1>2, <1>3, <1>4, <1>5, <1>6, <1>7, <1>8, GroupTaken, Zenon

\* Every step keeps the invariant.
LEMMA SetupKept == SetupInv /\ [SetupNext]_setupVars => SetupInv'
<1> SUFFICES ASSUME SetupInv, [SetupNext]_setupVars PROVE SetupInv'
    OBVIOUS
<1>1. CASE \E c \in Setup : LeadCommand(c) \/ LeadTimeout(c) \/ LeaderStep(c)
    BY <1>1, LeaderStepKeeps, Zenon
<1>2. CASE KeyTaken
    BY <1>2, KeyTakenKeeps, Zenon
<1>3. ASSUME NEW n \in Participant, NEW k \in Command(n),
             \/ SignalDKGParticipant(n, k) \/ WaitDKGInfo(n, k) \/ ReceiveGroup(n, k) \/ CommandEnds(n, k)
             \/ ClearReceiver(n, k) \/ JoinCommand(n, k) \/ SignalFails(n, k)
      PROVE  SetupInv'
    BY <1>3, SignalKeeps, WaitKeeps, ReceiveKeeps, EndsKeep, JoinKeeps, Zenon
<1>4. ASSUME NEW n \in Participant, NEW c \in Setup, PushDKGInfo(c, n) \/ PushFails(c, n) PROVE SetupInv'
    BY <1>4, PushKeeps, Zenon
<1>5. ASSUME NEW n \in Participant, PushTaken(n) PROVE SetupInv'
    BY <1>5, PushTakenKeeps, Zenon
<1>6. CASE UNCHANGED setupVars
  <2>1. UNCHANGED <<old, wrongSecret, expected, leaderVars>> /\ UNCHANGED <<old, nodeVars, answer>>
      BY <1>6, Zenon DEF setupVars
  <2>2. LeaderInv'
      BY <2>1, LeaderLeft, Zenon DEF SetupInv
  <2>3. KeepsDone
    <3>1. lead' = lead /\ run' = run /\ inKeys' = inKeys
        BY <2>1, Zenon DEF leaderVars
    <3> QED
        BY <3>1, Zenon DEF KeepsDone
  <2> QED
      BY <2>1, <2>2, <2>3, LeaderKeepsParticipants, Zenon DEF SetupInv
<1>7. CASE \E n \in Participant : \/ NodeStep(n)
                                  \/ \E k \in Command(n) : JoinCommand(n, k) \/ SignalFails(n, k)
                                  \/ \E c \in Setup : PushFails(c, n)
  <2>1. PICK n \in Participant : \/ NodeStep(n)
                                 \/ \E k \in Command(n) : JoinCommand(n, k) \/ SignalFails(n, k)
                                 \/ \E c \in Setup : PushFails(c, n)
      BY <1>7, Zenon
  <2> QED
      BY <2>1, <1>3, <1>4, <1>5, Zenon DEF NodeStep
<1> QED
    BY <1>1, <1>2, <1>6, <1>7, Zenon DEF SetupNext

\* The invariant is strong enough.
LEMMA SetupInvGivesStart == SetupInv => DKGStartsRight
<1> SUFFICES ASSUME SetupInv PROVE DKGStartsRight
    OBVIOUS
<1>1. CaseTypes /\ LeadTypes /\ KeyTypes /\ WaitsWithLock /\ \A d \in Setup : ManagerSound(d)
    BY Zenon DEF SetupInv, LeaderInv
<1>2. ReplyTypes /\ NodeTypes /\ GroupWasPushed /\ PushWaits /\ WaitsAndReplies /\ EnoughHaveGroup
    BY Zenon DEF SetupInv, ParticipantInv
<1>3. SetupTypeOK
  <2>1. \A n \in Participant : \A k \in Command(n) :
          /\ cmd[n][k] \in CommandState
          /\ recvCh[n][k] \in 0 .. MaxSetups /\ group[n][k] \in 0 .. MaxSetups
          /\ waitsOn[n][k] \in 0 .. Commands(n) /\ closed[n][k] \in BOOLEAN
      BY <1>2, ShapedAt, Zenon DEF NodeTypes
  <2>2. /\ \A n \in Participant : receiver[n] \in 0 .. Commands(n) /\ nodeLock[n] \in 0 .. MaxSetups
        /\ crashed \subseteq Participant
      BY <1>2 DEF NodeTypes
  <2>3. \A c \in Setup : pushKeyCh[c] \in Seq(Participant) /\ Len(pushKeyCh[c]) <= expected
      BY <1>1 DEF KeyTypes
  <2> QED
      BY <1>1, <1>2, <2>1, <2>2, <2>3, Zenon DEF SetupTypeOK, CaseTypes, LeadTypes, ReplyTypes, RunState
<1>4. GroupIsSound
  <2> SUFFICES ASSUME NEW c \in Setup,
                      lead[c] \in {"pushing", "pushFailed", "dkg"} \/ \E n \in Participant : \E k \in Command(n) : group[n][k] = c
               PROVE  /\ Cardinality(inKeys[c]) = expected
                      /\ Leader \in inKeys[c]
                      /\ \A m, n \in inKeys[c] : Key(m) = Key(n) => m = n
                      /\ inKeys[c] \cap wrongSecret = {}
      BY Zenon DEF GroupIsSound
  <2>1. run[c] = "done"
    <3>1. CASE lead[c] \in {"pushing", "pushFailed", "dkg"}
        BY <1>1, <3>1, Zenon DEF ManagerSound, Pushed
    <3>2. CASE \E n \in Participant : \E k \in Command(n) : group[n][k] = c
      <4>1. c # 0
          BY SetupAssumption DEF Setup
      <4> QED
          BY <1>2, <3>2, <4>1, Zenon DEF GroupWasPushed
    <3> QED
        BY <3>1, <3>2, Zenon
  <2>2. run[c] # "idle"
      BY <2>1
  <2> QED
      BY <1>1, <2>1, <2>2, Zenon DEF ManagerSound
<1> QED
    BY <1>2, <1>3, <1>4, Zenon DEF DKGStartsRight

(* A DKG starts, at the leader or at a participant, only with the group that *)
(* its setup manager collected: the expected number of nodes with the leader *)
(* among them, different keys, and the right secret; and at the leader only  *)
(* once a threshold of the new and of the old group took it, whatever        *)
(* commands overtake each other and whatever calls and replies are lost      *)
(* (setupManager.run, pushDKGInfo, PushDKGInfo, setupAutomaticDKG).          *)
THEOREM DKGStartsWithGroup == SetupSpec => []DKGStartsRight
<1>1. SetupInit => SetupInv
    BY SetupInitInv
<1>2. SetupInv /\ [SetupNext]_setupVars => SetupInv'
    BY SetupKept
<1>3. SetupInv => DKGStartsRight
    BY SetupInvGivesStart
<1> QED
    BY <1>1, <1>2, <1>3, PTL DEF SetupSpec
------------------------------------------------------------------------------
(* Setups that overtake each other.  A setup that can still get keys, or     *)
(* whose group the leader has not taken over yet, holds d.manager; setups    *)
(* start in the order of their numbers, and a manager that is done left its  *)
(* own signal in its channel.                                                *)
Claims(c) ==
    lead[c] \in {"waiting", "created"} /\ (run[c] = "done" \/ (run[c] = "collecting" /\ ~doneCh[c]))

Holds(c) == manager = c \/ \E d \in 1 .. c - 1 : lead[d] = "timedOut"

InOrder == \A c, d \in Setup : c < d /\ lead[c] \in {"idle", "preempting"} => lead[d] = "idle"
PreemptsWithLock == \A c \in Setup : lead[c] = "preempting" => leaderLock = <<"stop", c>>
Started == \A c \in Setup : lead[c] \in {"waiting", "expired", "stopped", "created"} => run[c] # "idle"
DoneSignal == \A c \in Setup : run[c] = "done" => doneCh[c]
NewestManager == \A d \in Setup : manager # 0 /\ d > manager => run[d] = "idle"
ClaimsHold == \A c \in Setup : Claims(c) => Holds(c)

OrderInv == InOrder /\ PreemptsWithLock /\ Started /\ DoneSignal /\ NewestManager /\ ClaimsHold

\* No setup started yet.
LEMMA OrderInitInv == SetupInit => OrderInv
<1> SUFFICES ASSUME SetupInit PROVE OrderInv
    OBVIOUS
<1>1. \A c \in Setup : lead[c] = "idle" /\ run[c] = "idle"
    BY DEF SetupInit
<1>2. InOrder /\ NewestManager
    BY <1>1, Zenon DEF InOrder, NewestManager
<1>3. \A c \in Setup : /\ lead[c] # "preempting" /\ lead[c] \notin {"waiting", "expired", "stopped", "created"}
                       /\ lead[c] \notin {"waiting", "created"} /\ run[c] # "done"
    BY <1>1
<1>4. PreemptsWithLock /\ Started /\ DoneSignal /\ ClaimsHold
    BY <1>3, Zenon DEF PreemptsWithLock, Started, DoneSignal, ClaimsHold, Claims
<1> QED
    BY <1>2, <1>4, Zenon DEF OrderInv

\* A step that moves no setup.
LEMMA OrderFrame ==
  ASSUME OrderInv, lead' = lead, run' = run, doneCh' = doneCh, manager' = manager,
         leaderLock' = leaderLock \/ \A c \in Setup : leaderLock # <<"stop", c>>
  PROVE  OrderInv'
<1>1. InOrder' /\ Started' /\ DoneSignal' /\ NewestManager'
    BY Zenon DEF OrderInv, InOrder, Started, DoneSignal, NewestManager
<1>2. PreemptsWithLock'
    BY Zenon DEF OrderInv, PreemptsWithLock
<1>3. ClaimsHold'
    BY Zenon DEF OrderInv, ClaimsHold, Claims, Holds
<1> QED
    BY <1>1, <1>2, <1>3, Zenon DEF OrderInv

\* A new setup takes d.manager over.
LEMMA NewSetupOrder ==
  ASSUME LeadTypes, \A d \in Setup : ManagerSound(d), OrderInv, NEW c \in Setup, lead[c] \in {"idle", "preempting"}, NewSetup(c),
         \A d \in Setup : d < c => lead[d] \notin {"idle", "preempting"},
         leaderLock' = Free, \A d \in Setup : d # c => lead[d] # "preempting",
         \/ manager = 0 /\ doneCh' = doneCh
         \/ manager # 0 /\ ~doneCh[manager] /\ doneCh' = [doneCh EXCEPT ![manager] = TRUE]
  PROVE  OrderInv'
<1>1. InOrder /\ PreemptsWithLock /\ Started /\ DoneSignal /\ NewestManager /\ ClaimsHold
    BY Zenon DEF OrderInv
<1>2. lead \in [Setup -> LeadState] /\ manager \in 0 .. MaxSetups /\ run \in [Setup -> RunState] /\ doneCh \in [Setup -> BOOLEAN]
    BY Zenon DEF LeadTypes
<1>3. run[c] = "idle"
    BY Zenon DEF ManagerSound
<1>4. \A d \in Setup : doneCh[d] => doneCh'[d]
  <2>1. CASE manager = 0 /\ doneCh' = doneCh
      BY <2>1, Zenon
  <2>2. CASE doneCh' = [doneCh EXCEPT ![manager] = TRUE]
      BY <1>2, <2>2
  <2> QED
      BY <2>1, <2>2, Zenon
<1>5. manager # 0 => manager \in Setup /\ ~doneCh[manager] /\ doneCh'[manager]
  <2> SUFFICES ASSUME manager # 0 PROVE manager \in Setup /\ ~doneCh[manager] /\ doneCh'[manager]
      OBVIOUS
  <2>1. manager \in Setup
      BY <1>2, SetupAssumption DEF Setup
  <2>2. doneCh' = [doneCh EXCEPT ![manager] = TRUE] /\ ~doneCh[manager]
      BY Zenon
  <2>3. doneCh'[manager]
      BY <1>2, <2>1, <2>2
  <2> QED
      BY <2>1, <2>2, <2>3, Zenon
<1>6. /\ \A d \in Setup : d # c => lead'[d] = lead[d] /\ run'[d] = run[d]
      /\ \/ lead'[c] = "waiting" /\ run'[c] = "collecting" /\ manager' = c
         \/ lead'[c] = "failed" /\ run'[c] = "idle" /\ manager' = manager
  <2>1. CASE /\ manager' = c /\ run' = [run EXCEPT ![c] = "collecting"] /\ lead' = [lead EXCEPT ![c] = "waiting"]
      BY <1>2, <2>1
  <2>2. CASE lead' = [lead EXCEPT ![c] = "failed"] /\ manager' = manager /\ run' = run
      BY <1>2, <1>3, <2>2
  <2> QED
      BY <2>1, <2>2, Zenon DEF NewSetup
<1>7. lead'[c] \notin {"idle", "preempting"} /\ lead'[c] # "created" /\ run'[c] # "done" /\ lead'[c] # "timedOut"
      /\ lead'[c] \notin {"expired", "stopped", "created"} /\ (lead'[c] = "waiting" => run'[c] # "idle" /\ manager' = c)
    BY <1>6
<1>8. InOrder'
  <2> SUFFICES ASSUME NEW a \in Setup, NEW b \in Setup, a < b, lead'[a] \in {"idle", "preempting"} PROVE lead'[b] = "idle"
      BY Zenon DEF InOrder
  <2>1. a # c
      BY <1>7, Zenon
  <2>2. lead[a] \in {"idle", "preempting"}
      BY <1>6, <2>1, Zenon
  <2>3. b # c
      BY <2>2, Zenon
  <2> QED
      BY <1>1, <1>6, <2>2, <2>3, Zenon DEF InOrder
<1>9. PreemptsWithLock'
  <2>1. \A d \in Setup : lead'[d] # "preempting"
      BY <1>6, <1>7, Zenon
  <2> QED
      BY <2>1, Zenon DEF PreemptsWithLock
<1>10. Started'
  <2> SUFFICES ASSUME NEW d \in Setup, lead'[d] \in {"waiting", "expired", "stopped", "created"} PROVE run'[d] # "idle"
      BY Zenon DEF Started
  <2>1. CASE d # c
      BY <1>1, <1>6, <2>1, Zenon DEF Started
  <2>2. CASE d = c
      BY <1>7, <2>2, Zenon
  <2> QED
      BY <2>1, <2>2, Zenon
<1>11. DoneSignal'
    BY <1>1, <1>4, <1>6, <1>7, Zenon DEF DoneSignal
<1>12. NewestManager'
  <2> SUFFICES ASSUME NEW d \in Setup, manager' # 0, d > manager' PROVE run'[d] = "idle"
      BY Zenon DEF NewestManager
  <2>1. CASE manager' = c
    <3>1. c < d /\ d # c
        BY <2>1, SetupAssumption DEF Setup
    <3>2. lead[d] = "idle"
        BY <1>1, <3>1, Zenon DEF InOrder
    <3>3. run[d] = "idle"
        BY <3>2, Zenon DEF ManagerSound
    <3> QED
        BY <1>6, <3>1, <3>3, Zenon
  <2>2. CASE manager' = manager /\ run'[c] = "idle"
      BY <1>1, <1>6, <2>2, Zenon DEF NewestManager
  <2> QED
      BY <1>6, <2>1, <2>2, Zenon
<1>13. ClaimsHold'
  <2> SUFFICES ASSUME NEW d \in Setup, Claims(d)' PROVE Holds(d)'
      BY Zenon DEF ClaimsHold
  <2>1. lead'[d] \in {"waiting", "created"} /\ (run'[d] = "done" \/ (run'[d] = "collecting" /\ ~doneCh'[d]))
      BY Zenon DEF Claims
  <2>2. CASE d = c
    <3>1. manager' = c
        BY <1>7, <2>1, <2>2, Zenon
    <3> QED
        BY <2>2, <3>1, Zenon DEF Holds
  <2>3. CASE d # c
    <3>1. lead[d] \in {"waiting", "created"} /\ (run[d] = "done" \/ (run[d] = "collecting" /\ ~doneCh[d]))
        BY <1>4, <1>6, <2>1, <2>3, Zenon
    <3>2. Holds(d)
        BY <1>1, <3>1, Zenon DEF ClaimsHold, Claims
    <3>3. manager # d
      <4> SUFFICES ASSUME manager = d PROVE FALSE
          OBVIOUS
      <4>1. manager # 0
          BY SetupAssumption DEF Setup
      <4>2. ~doneCh[d] /\ doneCh'[d]
          BY <1>5, <4>1, Zenon
      <4>3. run[d] # "done" /\ run'[d] = run[d]
          BY <1>1, <1>6, <2>3, <4>2, Zenon DEF DoneSignal
      <4> QED
          BY <2>1, <4>2, <4>3, Zenon
    <3>4. PICK e \in 1 .. d - 1 : lead[e] = "timedOut"
        BY <3>2, <3>3, Zenon DEF Holds
    <3>5. e \in Setup /\ e # c
      <4>1. e \in Setup
          BY <3>4, SetupAssumption DEF Setup
      <4>2. lead[e] \notin {"idle", "preempting"}
          BY <3>4
      <4> QED
          BY <4>1, <4>2, Zenon
    <3>6. lead'[e] = "timedOut"
        BY <1>6, <3>4, <3>5, Zenon
    <3> QED
        BY <3>6, Zenon DEF Holds
  <2> QED
      BY <2>2, <2>3, Zenon
<1> QED
    BY <1>8, <1>9, <1>10, <1>11, <1>12, <1>13, Zenon DEF OrderInv

\* A command of the leader starts a setup, at once or after the one before is told to stop.
LEMMA LeadCommandOrder ==
  ASSUME SetupInv, OrderInv, NEW c \in Setup, LeadCommand(c) \/ Preempt(c)
  PROVE  OrderInv'
<1>1. LeadTypes /\ WaitsWithLock /\ \A d \in Setup : ManagerSound(d)
    BY Zenon DEF SetupInv, LeaderInv
<1>2. InOrder /\ PreemptsWithLock /\ Started /\ DoneSignal /\ NewestManager /\ ClaimsHold
    BY Zenon DEF OrderInv
<1>3. CASE LeadCommand(c)
  <2>1. leaderLock = Free /\ lead[c] = "idle" /\ \A d \in 1 .. c - 1 : lead[d] # "idle"
      BY <1>3, Zenon DEF LeadCommand
  <2>2. \A d \in Setup : lead[d] # "preempting"
    <3>1. \A d : <<"stop", d>> # Free
        BY DEF Free
    <3> QED
        BY <1>2, <2>1, <3>1, Zenon DEF PreemptsWithLock
  <2>3. \A d \in Setup : d < c => d \in 1 .. c - 1
      BY SetupAssumption DEF Setup
  <2>4. \A d \in Setup : d < c => lead[d] \notin {"idle", "preempting"}
      BY <2>1, <2>2, <2>3, Zenon
  <2>5. CASE manager = 0 /\ NewSetup(c) /\ doneCh' = doneCh /\ leaderLock' = leaderLock
      BY <1>1, <2>1, <2>2, <2>4, <2>5, NewSetupOrder, Zenon
  <2>6. CASE /\ manager # 0 /\ ~doneCh[manager] /\ doneCh' = [doneCh EXCEPT ![manager] = TRUE]
             /\ NewSetup(c) /\ leaderLock' = leaderLock
      BY <1>1, <2>1, <2>2, <2>4, <2>6, NewSetupOrder, Zenon
  <2>7. CASE /\ leaderLock' = <<"stop", c>> /\ lead' = [lead EXCEPT ![c] = "preempting"]
             /\ manager' = manager /\ run' = run /\ doneCh' = doneCh
    <3>1. lead \in [Setup -> LeadState]
        BY <1>1, Zenon DEF LeadTypes
    <3>2. lead'[c] = "preempting" /\ \A d \in Setup : d # c => lead'[d] = lead[d]
        BY <2>7, <3>1
    <3>3. lead'[c] \notin {"waiting", "expired", "stopped", "created"} /\ lead'[c] \notin {"waiting", "created"}
        BY <3>2
    <3>4. InOrder'
      <4> SUFFICES ASSUME NEW a \in Setup, NEW b \in Setup, a < b, lead'[a] \in {"idle", "preempting"} PROVE lead'[b] = "idle"
          BY Zenon DEF InOrder
      <4>1. lead[a] \in {"idle", "preempting"}
          BY <2>1, <3>2, Zenon
      <4>2. b # c
          BY <2>4, <4>1, Zenon
      <4> QED
          BY <1>2, <3>2, <4>1, <4>2, Zenon DEF InOrder
    <3>5. PreemptsWithLock'
        BY <2>2, <2>7, <3>2, Zenon DEF PreemptsWithLock
    <3>6. Started' /\ DoneSignal' /\ NewestManager'
        BY <1>2, <2>7, <3>2, <3>3, Zenon DEF Started, DoneSignal, NewestManager
    <3>7. ClaimsHold'
      <4> SUFFICES ASSUME NEW d \in Setup, Claims(d)' PROVE Holds(d)'
          BY Zenon DEF ClaimsHold
      <4>1. d # c
          BY <3>3, Zenon DEF Claims
      <4>2. Claims(d)
          BY <2>7, <3>2, <4>1, Zenon DEF Claims
      <4>3. Holds(d)
          BY <1>2, <4>2, Zenon DEF ClaimsHold
      <4>4. \A e \in 1 .. d - 1 : e \in Setup
          BY SetupAssumption DEF Setup
      <4>5. lead[c] # "timedOut"
          BY <2>1
      <4> QED
          BY <2>7, <3>2, <4>3, <4>4, <4>5, Zenon DEF Holds
    <3> QED
        BY <3>4, <3>5, <3>6, <3>7, Zenon DEF OrderInv
  <2> QED
      BY <1>3, <2>5, <2>6, <2>7, Zenon DEF LeadCommand
<1>4. CASE Preempt(c)
  <2>1. leaderLock = <<"stop", c>> /\ leaderLock' = Free /\ NewSetup(c) /\ ~doneCh[manager] /\ doneCh' = [doneCh EXCEPT ![manager] = TRUE]
      BY <1>4, Zenon DEF Preempt
  <2>2. leaderLock # Free
      BY <2>1 DEF Free
  <2>3. ASSUME NEW n, NEW k, leaderLock = <<"key", n, k>> PROVE FALSE
      BY <2>1, <2>3
  <2>4. manager # 0 /\ \E d \in Setup : leaderLock = <<"stop", d>> /\ lead[d] = "preempting"
      BY <1>1, <2>2, <2>3, Zenon DEF WaitsWithLock
  <2>5. \A d : leaderLock = <<"stop", d>> => d = c
      BY <2>1
  <2>6. lead[c] = "preempting"
      BY <2>4, <2>5, Zenon
  <2>7. \A d \in Setup : d # c => lead[d] # "preempting"
      BY <1>2, <2>5, Zenon DEF PreemptsWithLock
  <2>8. \A d \in Setup : d < c => lead[d] \notin {"idle", "preempting"}
    <3>1. lead[c] # "idle"
        BY <2>6
    <3> QED
        BY <1>2, <3>1, Zenon DEF InOrder
  <2> QED
      BY <1>1, <2>1, <2>4, <2>6, <2>7, <2>8, NewSetupOrder, Zenon
<1> QED
    BY <1>3, <1>4, Zenon

\* A command of the leader moves on.
LEMMA LeadMovesOrder ==
  ASSUME LeadTypes, OrderInv, NEW c \in Setup, NEW s, lead' = [lead EXCEPT ![c] = s],
         s \notin {"idle", "preempting", "waiting"}, lead[c] \notin {"idle", "preempting", "timedOut"},
         s \in {"expired", "stopped", "created"} => lead[c] \in {"waiting", "expired"},
         s = "created" => lead[c] = "waiting",
         run' = run, leaderLock' = leaderLock, manager' = manager,
         doneCh' = doneCh \/ doneCh' = [doneCh EXCEPT ![c] = TRUE]
  PROVE  OrderInv'
<1>1. InOrder /\ PreemptsWithLock /\ Started /\ DoneSignal /\ NewestManager /\ ClaimsHold
    BY Zenon DEF OrderInv
<1>2. lead \in [Setup -> LeadState] /\ doneCh \in [Setup -> BOOLEAN]
    BY Zenon DEF LeadTypes
<1>3. lead'[c] = s /\ \A d \in Setup : d # c => lead'[d] = lead[d]
    BY <1>2
<1>4. \A d \in Setup : doneCh[d] => doneCh'[d]
  <2>1. CASE doneCh' = doneCh
      BY <2>1, Zenon
  <2>2. CASE doneCh' = [doneCh EXCEPT ![c] = TRUE]
      BY <1>2, <2>2
  <2> QED
      BY <2>1, <2>2, Zenon
<1>5. s # "idle" /\ s # "preempting" /\ s # "waiting" /\ lead[c] # "idle" /\ lead[c] # "timedOut"
    BY Zenon
<1>6. InOrder'
    BY <1>1, <1>3, <1>5, Zenon DEF InOrder
<1>7. PreemptsWithLock' /\ NewestManager'
    BY <1>1, <1>3, <1>5, Zenon DEF PreemptsWithLock, NewestManager
<1>8. DoneSignal'
    BY <1>1, <1>4, Zenon DEF DoneSignal
<1>9. Started'
  <2> SUFFICES ASSUME NEW d \in Setup, lead'[d] \in {"waiting", "expired", "stopped", "created"} PROVE run[d] # "idle"
      BY Zenon DEF Started
  <2>1. lead[d] \in {"waiting", "expired", "stopped", "created"}
    <3>1. CASE d = c
        BY <1>3, <1>5, <3>1, Zenon
    <3>2. CASE d # c
        BY <1>3, <3>2, Zenon
    <3> QED
        BY <3>1, <3>2, Zenon
  <2> QED
      BY <1>1, <2>1, Zenon DEF Started
<1>10. ClaimsHold'
  <2> SUFFICES ASSUME NEW d \in Setup, Claims(d)' PROVE Holds(d)'
      BY Zenon DEF ClaimsHold
  <2>1. lead'[d] \in {"waiting", "created"} /\ (run[d] = "done" \/ (run[d] = "collecting" /\ ~doneCh'[d]))
      BY Zenon DEF Claims
  <2>2. lead[d] \in {"waiting", "created"}
    <3>1. CASE d = c
        BY <1>3, <1>5, <2>1, <3>1, Zenon
    <3>2. CASE d # c
        BY <1>3, <2>1, <3>2, Zenon
    <3> QED
        BY <3>1, <3>2, Zenon
  <2>3. Claims(d)
      BY <1>4, <2>1, <2>2, Zenon DEF Claims
  <2>4. Holds(d)
      BY <1>1, <2>3, Zenon DEF ClaimsHold
  <2>5. \A e \in 1 .. d - 1 : e \in Setup
      BY SetupAssumption DEF Setup
  <2> QED
      BY <1>3, <1>5, <2>4, <2>5, Zenon DEF Holds
<1> QED
    BY <1>6, <1>7, <1>8, <1>9, <1>10, Zenon DEF OrderInv

\* The group, the timeout, the stop and the end of the push.
LEMMA LeadStepOrder ==
  ASSUME SetupInv, OrderInv, NEW c \in Setup, LeadGroup(c) \/ LeadTimeout(c) \/ LeadStop(c) \/ PushEnds(c)
  PROVE  OrderInv'
<1>1. LeadTypes
    BY Zenon DEF SetupInv, LeaderInv
<1>2. run' = run /\ leaderLock' = leaderLock /\ manager' = manager
    BY Zenon DEF LeadGroup, LeadTimeout, LeadStop, PushEnds
<1>3. \A s \in {"created", "failed", "expired", "stopped", "dkg", "pushFailed"} : s \notin {"idle", "preempting", "waiting"}
    OBVIOUS
<1>4. \A s \in {"failed", "dkg", "pushFailed"} : s \notin {"expired", "stopped", "created"} /\ s # "created"
    OBVIOUS
<1>5. \A s \in {"waiting", "expired", "pushing"} : s \notin {"idle", "preempting", "timedOut"}
    OBVIOUS
<1>6. CASE LeadGroup(c)
  <2>1. lead[c] = "waiting" /\ doneCh' = doneCh /\ (lead' = [lead EXCEPT ![c] = "created"] \/ lead' = [lead EXCEPT ![c] = "failed"])
      BY <1>6, Zenon DEF LeadGroup
  <2>2. CASE lead' = [lead EXCEPT ![c] = "created"]
      BY <1>1, <1>2, <1>3, <1>5, <2>1, <2>2, LeadMovesOrder, Zenon
  <2>3. CASE lead' = [lead EXCEPT ![c] = "failed"]
      BY <1>1, <1>2, <1>3, <1>4, <1>5, <2>1, <2>3, LeadMovesOrder, Zenon
  <2> QED
      BY <2>1, <2>2, <2>3, Zenon
<1>7. CASE LeadTimeout(c)
  <2>1. lead[c] = "waiting" /\ doneCh' = doneCh /\ lead' = [lead EXCEPT ![c] = "expired"]
      BY <1>7, Zenon DEF LeadTimeout
  <2>2. "expired" # "created"
      OBVIOUS
  <2> QED
      BY <1>1, <1>2, <1>3, <1>5, <2>1, <2>2, LeadMovesOrder, Zenon
<1>8. CASE LeadStop(c)
  <2>1. lead[c] = "expired" /\ doneCh' = [doneCh EXCEPT ![c] = TRUE] /\ lead' = [lead EXCEPT ![c] = "stopped"]
      BY <1>8, Zenon DEF LeadStop
  <2>2. "stopped" # "created"
      OBVIOUS
  <2> QED
      BY <1>1, <1>2, <1>3, <1>5, <2>1, <2>2, LeadMovesOrder, Zenon
<1>9. CASE PushEnds(c)
  <2>1. lead[c] = "pushing" /\ doneCh' = doneCh /\ lead' = [lead EXCEPT ![c] = IF EnoughPushed(c) THEN "dkg" ELSE "pushFailed"]
      BY <1>9, Zenon DEF PushEnds
  <2>2. PICK s \in {"dkg", "pushFailed"} : lead' = [lead EXCEPT ![c] = s]
      BY <2>1, Zenon
  <2>3. /\ s \notin {"idle", "preempting", "waiting"} /\ s \notin {"expired", "stopped", "created"} /\ s # "created"
      BY <1>3, <1>4, <2>2, Zenon
  <2> QED
      BY <1>1, <1>2, <1>5, <2>1, <2>2, <2>3, LeadMovesOrder, Zenon
<1> QED
    BY <1>6, <1>7, <1>8, <1>9, Zenon

\* The deferred function clears d.manager.
LEMMA LeadClearOrder ==
  ASSUME SetupInv, OrderInv, NEW c \in Setup, LeadClear(c)
  PROVE  OrderInv'
<1>1. LeadTypes /\ \A d \in Setup : ManagerSound(d)
    BY Zenon DEF SetupInv, LeaderInv
<1>2. InOrder /\ PreemptsWithLock /\ Started /\ DoneSignal /\ NewestManager /\ ClaimsHold
    BY Zenon DEF OrderInv
<1>3. run' = run /\ doneCh' = doneCh /\ leaderLock' = leaderLock /\ manager' = 0 /\ lead[c] \in {"created", "stopped"}
    BY Zenon DEF LeadClear
<1>4. lead \in [Setup -> LeadState] /\ manager \in 0 .. MaxSetups
    BY <1>1, Zenon DEF LeadTypes
<1>5. PICK s \in {"timedOut", "pushing", "failed"} : lead' = [lead EXCEPT ![c] = s] /\ (lead[c] = "stopped" => s = "timedOut")
  <2>1. "created" # "stopped"
      OBVIOUS
  <2> QED
      BY <2>1, Zenon DEF LeadClear
<1>6. lead'[c] = s /\ \A d \in Setup : d # c => lead'[d] = lead[d]
    BY <1>4, <1>5
<1>7. s # "idle" /\ s # "preempting" /\ s \notin {"idle", "preempting"} /\ s \notin {"waiting", "expired", "stopped", "created"}
      /\ s \notin {"waiting", "created"} /\ lead[c] # "idle" /\ lead[c] # "timedOut"
      /\ lead[c] \in {"waiting", "expired", "stopped", "created"}
    BY <1>3
<1>8. InOrder'
    BY <1>2, <1>6, <1>7, Zenon DEF InOrder
<1>9. PreemptsWithLock' /\ NewestManager' /\ DoneSignal'
    BY <1>2, <1>3, <1>6, <1>7, Zenon DEF PreemptsWithLock, NewestManager, DoneSignal
<1>10. Started'
    BY <1>2, <1>3, <1>6, <1>7, Zenon DEF Started
<1>11. ClaimsHold'
  <2> SUFFICES ASSUME NEW d \in Setup, Claims(d)' PROVE Holds(d)'
      BY Zenon DEF ClaimsHold
  <2>1. d # c
      BY <1>6, <1>7, Zenon DEF Claims
  <2>2. Claims(d)
      BY <1>3, <1>6, <2>1, Zenon DEF Claims
  <2>3. Holds(d)
      BY <1>2, <2>2, Zenon DEF ClaimsHold
  <2>4. \A e \in 1 .. d - 1 : e \in Setup
      BY SetupAssumption DEF Setup
  <2>5. ASSUME NEW e \in 1 .. d - 1, lead[e] = "timedOut" PROVE Holds(d)'
    <3>1. e \in Setup /\ e # c
        BY <1>7, <2>4, <2>5, Zenon
    <3>2. lead'[e] = "timedOut"
        BY <1>6, <2>5, <3>1, Zenon
    <3> QED
        BY <3>2, Zenon DEF Holds
  <2>6. CASE manager = d
    <3>1. c \in 1 .. d - 1
      <4>1. run[c] # "idle"
          BY <1>2, <1>7, Zenon DEF Started
      <4>2. ~(c > manager)
        <5>1. manager # 0
            BY <2>6, SetupAssumption DEF Setup
        <5> QED
            BY <1>2, <4>1, <5>1, Zenon DEF NewestManager
      <4> QED
          BY <2>1, <2>6, <4>2, SetupAssumption DEF Setup
    <3>2. CASE lead[c] = "stopped"
      <4>1. lead'[c] = "timedOut"
          BY <1>5, <1>6, <3>2, Zenon
      <4> QED
          BY <3>1, <4>1, Zenon DEF Holds
    <3>3. CASE lead[c] = "created"
      <4>1. lead[c] \in {"created"} \cup Pushed /\ lead[c] \in {"waiting", "created"}
          BY <3>3, Zenon
      <4>2. run[c] = "done"
          BY <1>1, <4>1, Zenon DEF ManagerSound
      <4>3. Holds(c)
          BY <1>2, <4>1, <4>2, Zenon DEF ClaimsHold, Claims
      <4>4. PICK e \in 1 .. c - 1 : lead[e] = "timedOut"
          BY <2>1, <2>6, <4>3, Zenon DEF Holds
      <4>5. e \in 1 .. d - 1
          BY <3>1, <4>4, SetupAssumption DEF Setup
      <4> QED
          BY <2>5, <4>4, <4>5, Zenon
    <3> QED
        BY <1>3, <3>2, <3>3, Zenon
  <2> QED
      BY <2>3, <2>5, <2>6, Zenon DEF Holds
<1> QED
    BY <1>8, <1>9, <1>10, <1>11, Zenon DEF OrderInv

\* A step of the manager.
LEMMA ManagerOrder ==
  ASSUME SetupInv, OrderInv, NEW c \in Setup, CollectKey(c) \/ StopRun(c)
  PROVE  OrderInv'
<1>1. LeadTypes
    BY Zenon DEF SetupInv, LeaderInv
<1>2. InOrder /\ PreemptsWithLock /\ Started /\ DoneSignal /\ NewestManager /\ ClaimsHold
    BY Zenon DEF OrderInv
<1>3. lead' = lead /\ leaderLock' = leaderLock /\ manager' = manager /\ run[c] = "collecting"
    BY Zenon DEF CollectKey, StopRun
<1>4. run \in [Setup -> RunState] /\ doneCh \in [Setup -> BOOLEAN]
    BY <1>1, Zenon DEF LeadTypes
<1>5. /\ \A d \in Setup : d # c => run'[d] = run[d] /\ doneCh'[d] = doneCh[d]
      /\ \/ run'[c] = "collecting" /\ doneCh'[c] = doneCh[c]
         \/ run'[c] = "blocked"
         \/ run'[c] = "done" /\ doneCh'[c] /\ ~doneCh[c]
         \/ run'[c] = "preempted"
  <2>1. CASE StopRun(c)
    <3>1. run' = [run EXCEPT ![c] = "preempted"] /\ doneCh' = [doneCh EXCEPT ![c] = FALSE]
        BY <2>1, Zenon DEF StopRun
    <3> QED
        BY <1>4, <3>1
  <2>2. CASE run' = run /\ doneCh' = doneCh
      BY <1>3, <2>2, Zenon
  <2>3. CASE /\ doneCh' = [doneCh EXCEPT ![c] = TRUE]
             /\ run' = [run EXCEPT ![c] = IF doneCh[c] THEN "blocked" ELSE "done"]
    <3>1. \A d \in Setup : d # c => run'[d] = run[d] /\ doneCh'[d] = doneCh[d]
        BY <1>4, <2>3
    <3>2. doneCh'[c] /\ run'[c] = IF doneCh[c] THEN "blocked" ELSE "done"
        BY <1>4, <2>3
    <3> QED
        BY <3>1, <3>2, Zenon
  <2> QED
      BY <2>1, <2>2, <2>3, Zenon DEF CollectKey
<1>6. run'[c] # "idle" /\ run[c] # "idle" /\ run[c] # "done"
      /\ (run'[c] = "done" => doneCh'[c] /\ ~doneCh[c])
      /\ (run'[c] = "collecting" => doneCh'[c] = doneCh[c])
  <2>1. run[c] # "idle" /\ run[c] # "done"
      BY <1>3
  <2>2. CASE run'[c] = "collecting" /\ doneCh'[c] = doneCh[c]
    <3>1. run'[c] # "idle" /\ run'[c] # "done"
        BY <2>2
    <3> QED
        BY <2>1, <2>2, <3>1, Zenon
  <2>3. CASE run'[c] = "blocked" \/ run'[c] = "preempted"
    <3>1. run'[c] # "idle" /\ run'[c] # "done" /\ run'[c] # "collecting"
        BY <2>3
    <3> QED
        BY <2>1, <3>1, Zenon
  <2>4. CASE run'[c] = "done" /\ doneCh'[c] /\ ~doneCh[c]
    <3>1. run'[c] # "idle" /\ run'[c] # "collecting"
        BY <2>4
    <3> QED
        BY <2>1, <2>4, <3>1, Zenon
  <2> QED
      BY <1>5, <2>2, <2>3, <2>4, Zenon
<1>7. InOrder' /\ PreemptsWithLock'
    BY <1>2, <1>3, Zenon DEF InOrder, PreemptsWithLock
<1>8. Started'
    BY <1>2, <1>3, <1>5, <1>6, Zenon DEF Started
<1>9. DoneSignal'
    BY <1>2, <1>5, <1>6, Zenon DEF DoneSignal
<1>10. NewestManager'
    BY <1>2, <1>3, <1>5, <1>6, Zenon DEF NewestManager
<1>11. ClaimsHold'
  <2> SUFFICES ASSUME NEW d \in Setup, Claims(d)' PROVE Holds(d)'
      BY Zenon DEF ClaimsHold
  <2>1. lead[d] \in {"waiting", "created"} /\ (run'[d] = "done" \/ (run'[d] = "collecting" /\ ~doneCh'[d]))
      BY <1>3, Zenon DEF Claims
  <2>2. Claims(d)
    <3>1. CASE d # c
        BY <1>5, <2>1, <3>1, Zenon DEF Claims
    <3>2. CASE d = c
        BY <1>3, <1>6, <2>1, <3>2, Zenon DEF Claims
    <3> QED
        BY <3>1, <3>2, Zenon
  <2> QED
      BY <1>2, <1>3, <2>2, Zenon DEF ClaimsHold, Holds
<1> QED
    BY <1>7, <1>8, <1>9, <1>10, <1>11, Zenon DEF OrderInv

\* Every step keeps the order of the setups.
LEMMA OrderKept == SetupInv /\ OrderInv /\ [SetupNext]_setupVars => OrderInv'
<1> SUFFICES ASSUME SetupInv, OrderInv, [SetupNext]_setupVars PROVE OrderInv'
    OBVIOUS
<1>1. ASSUME lead' = lead, run' = run, doneCh' = doneCh, manager' = manager, leaderLock' = leaderLock PROVE OrderInv'
    BY <1>1, OrderFrame, Zenon
<1>2. ASSUME UNCHANGED leaderVars PROVE OrderInv'
    BY <1>1, <1>2, Zenon DEF leaderVars
<1>3. ASSUME NEW c \in Setup, LeadCommand(c) \/ LeadTimeout(c) \/ LeaderStep(c) PROVE OrderInv'
  <2>1. CASE LeadCommand(c) \/ Preempt(c)
      BY <2>1, LeadCommandOrder, Zenon
  <2>2. CASE LeadGroup(c) \/ LeadTimeout(c) \/ LeadStop(c) \/ PushEnds(c)
      BY <2>2, LeadStepOrder, Zenon
  <2>3. CASE LeadClear(c)
      BY <2>3, LeadClearOrder, Zenon
  <2>4. CASE CollectKey(c) \/ StopRun(c)
      BY <2>4, ManagerOrder, Zenon
  <2>5. CASE \E n \in Participant : CountAnswer(c, n)
      BY <1>1, <2>5, Zenon DEF CountAnswer
  <2> QED
      BY <1>3, <2>1, <2>2, <2>3, <2>4, <2>5, Zenon DEF LeaderStep
<1>4. CASE KeyTaken
  <2>1. lead' = lead /\ run' = run /\ doneCh' = doneCh /\ manager' = manager /\ leaderLock[1] = "key"
      BY <1>4, Zenon DEF KeyTaken
  <2>2. \A c \in Setup : leaderLock # <<"stop", c>>
      BY <2>1
  <2> QED
      BY <2>1, <2>2, OrderFrame, Zenon
<1>5. ASSUME NEW n \in Participant, NEW k \in Command(n), SignalDKGParticipant(n, k) PROVE OrderInv'
  <2>1. lead' = lead /\ run' = run /\ doneCh' = doneCh /\ manager' = manager /\ leaderLock = Free
      BY <1>5, Zenon DEF SignalDKGParticipant
  <2>2. \A c \in Setup : leaderLock # <<"stop", c>>
      BY <2>1 DEF Free
  <2> QED
      BY <2>1, <2>2, OrderFrame, Zenon
<1>6. ASSUME NEW n \in Participant, NEW k \in Command(n),
             \/ WaitDKGInfo(n, k) \/ ReceiveGroup(n, k) \/ CommandEnds(n, k)
             \/ ClearReceiver(n, k) \/ JoinCommand(n, k) \/ SignalFails(n, k)
      PROVE  OrderInv'
    BY <1>2, <1>6, Zenon DEF WaitDKGInfo, ReceiveGroup, CommandEnds, ClearReceiver, JoinCommand, SignalFails
<1>7. ASSUME NEW n \in Participant, NEW c \in Setup, PushDKGInfo(c, n) \/ PushFails(c, n) PROVE OrderInv'
    BY <1>2, <1>7, Zenon DEF PushDKGInfo, PushFails
<1>8. ASSUME NEW n \in Participant, PushTaken(n) PROVE OrderInv'
    BY <1>2, <1>8, Zenon DEF PushTaken
<1>9. CASE UNCHANGED setupVars
    BY <1>2, <1>9, Zenon DEF setupVars
<1>10. CASE \E n \in Participant : \/ NodeStep(n)
                                   \/ \E k \in Command(n) : JoinCommand(n, k) \/ SignalFails(n, k)
                                   \/ \E c \in Setup : PushFails(c, n)
  <2>1. PICK n \in Participant : \/ NodeStep(n)
                                 \/ \E k \in Command(n) : JoinCommand(n, k) \/ SignalFails(n, k)
                                 \/ \E c \in Setup : PushFails(c, n)
      BY <1>10, Zenon
  <2> QED
      BY <2>1, <1>5, <1>6, <1>7, <1>8, Zenon DEF NodeStep
<1> QED
    BY <1>3, <1>4, <1>9, <1>10, Zenon DEF SetupNext
------------------------------------------------------------------------------
(* Participants whose operator gave one command.  A push is answered once,   *)
(* and one that waits found another group in the receiver.                   *)
Alone(n) == \A k \in Command(n) : k > 1 => cmd[n][k] = "idle"

OwnReceiver(n, k) ==
    /\ receiver[n] = IF cmd[n][k] \in {"idle", "ended"} THEN 0 ELSE k
    /\ cmd[n][k] # "ended" => ~closed[n][k]

AloneSafe(n) ==
    /\ n \notin crashed
    /\ \A k \in Command(n) : waitsOn[n][k] \in {0, k}
    /\ \A k \in Command(n) : k = 1 => OwnReceiver(n, k)

RepliesInv ==
    /\ \A c \in Setup : \A n \in Participant : n \in accepted[c] => answer[c][n] \in {"ok", "error"}
    /\ \A n \in Participant : nodeLock[n] # 0 =>
          answer[nodeLock[n]][n] = "pending" /\ \E c \in Setup : c # nodeLock[n] /\ n \in accepted[c]

SingleInv == \A n \in Participant : Alone(n) => AloneSafe(n)

\* No command was given yet.
LEMMA SingleInitInv == SetupInit => RepliesInv /\ SingleInv
<1> SUFFICES ASSUME SetupInit PROVE RepliesInv /\ SingleInv
    OBVIOUS
<1>1. /\ \A c \in Setup : accepted[c] = {}
      /\ \A n \in Participant : nodeLock[n] = 0 /\ receiver[n] = 0
      /\ crashed = {} /\ cmd = PerNode("idle") /\ waitsOn = PerNode(0)
    BY Zenon DEF SetupInit
<1>2. \A n \in Participant : \A k \in Command(n) : cmd[n][k] = "idle"
  <2>1. "idle" \in CommandState
      BY DEF CommandState
  <2> QED
      BY <1>1, <2>1, ShapedInit, Zenon
<1>3. \A n \in Participant : \A k \in Command(n) : waitsOn[n][k] = 0
  <2>1. 0 \in Nat
      OBVIOUS
  <2>2. \A n \in Participant : \A k \in Command(n) : PerNode(0)[n][k] = 0
      BY <2>1, ShapedInit, Zenon
  <2> QED
      BY <1>1, <2>2, Zenon
<1>c. \A n \in Participant : \A k \in Command(n) : closed[n][k] = FALSE
  <2>1. FALSE \in BOOLEAN /\ closed = PerNode(FALSE)
      BY Zenon DEF SetupInit
  <2>2. \A n \in Participant : \A k \in Command(n) : PerNode(FALSE)[n][k] = FALSE
      BY <2>1, ShapedInit, Zenon
  <2> QED
      BY <2>1, <2>2, Zenon
<1>4. RepliesInv
    BY <1>1, Zenon DEF RepliesInv
<1>5. SingleInv
    BY <1>1, <1>2, <1>3, <1>c, Zenon DEF SingleInv, AloneSafe, OwnReceiver
<1> QED
    BY <1>4, <1>5, Zenon

\* A step that leaves a participant alone.
LEMMA SameAlone ==
  ASSUME NEW m \in Participant, Alone(m) => AloneSafe(m),
         \A j \in Command(m) : cmd'[m][j] = cmd[m][j] /\ waitsOn'[m][j] = waitsOn[m][j] /\ closed'[m][j] = closed[m][j],
         receiver'[m] = receiver[m], m \in crashed' => m \in crashed
  PROVE  Alone(m)' => AloneSafe(m)'
BY Zenon DEF Alone, AloneSafe, OwnReceiver

(* Command k of n moves from one state to another; n is not alone any more,  *)
(* or k is 1 and has its own receiver before and after.                      *)
LEMMA MovedAlone ==
  ASSUME ParticipantInv, SingleInv, NEW n \in Participant, NEW k \in Command(n), NEW s \in CommandState,
         cmd' = [cmd EXCEPT ![n][k] = s], s # "idle",
         waitsOn' = waitsOn \/ (k = 1 /\ Alone(n) => \A j \in Command(n) : waitsOn'[n][j] \in {0, j}),
         \A m \in Participant : m # n => receiver'[m] = receiver[m],
         \A m \in Participant : m # n => \A j \in Command(m) : closed'[m][j] = closed[m][j] /\ waitsOn'[m][j] = waitsOn[m][j],
         crashed' = crashed,
         k = 1 /\ Alone(n) /\ AloneSafe(n) =>
            IF s = "ended" THEN receiver'[n] = 0 ELSE receiver'[n] = k /\ ~closed'[n][k]
  PROVE  SingleInv'
<1>1. Shaped(cmd, CommandState)
    BY Zenon DEF ParticipantInv, NodeTypes
<1>2. Placed(cmd', cmd, n, k, s, CommandState)
    BY <1>1, CmdPut, Zenon
<1>3. cmd'[n][k] = s /\ \A m \in Participant : \A j \in Command(m) : (m # n \/ j # k) => cmd'[m][j] = cmd[m][j]
    BY <1>2, Zenon DEF Placed
<1> SUFFICES ASSUME NEW m \in Participant, Alone(m)' PROVE AloneSafe(m)'
    BY Zenon DEF SingleInv
<1>4. CASE m # n
  <2>1. Alone(m) => AloneSafe(m)
      BY Zenon DEF SingleInv
  <2>2. \A j \in Command(m) : cmd'[m][j] = cmd[m][j] /\ waitsOn'[m][j] = waitsOn[m][j] /\ closed'[m][j] = closed[m][j]
      BY <1>3, <1>4, Zenon
  <2>3. receiver'[m] = receiver[m]
      BY <1>4, Zenon
  <2> QED
      BY <2>1, <2>2, <2>3, SameAlone, Zenon
<1>5. CASE m = n
  <2>1. \A j \in Command(n) : j > 1 => cmd'[n][j] = "idle"
      BY <1>5, Zenon DEF Alone
  <2>2. ~(k > 1)
      BY <1>3, <2>1, Zenon
  <2>3. k = 1
      BY <2>2, SetupAssumption DEF Command
  <2>4. Alone(n)
    <3> SUFFICES ASSUME NEW j \in Command(n), j > 1 PROVE cmd[n][j] = "idle"
        BY Zenon DEF Alone
    <3>1. j # k
        BY <2>2, Zenon
    <3> QED
        BY <1>3, <2>1, <3>1, Zenon
  <2>5. AloneSafe(n)
      BY <2>4, Zenon DEF SingleInv
  <2>6. n \notin crashed'
      BY <2>5, Zenon DEF AloneSafe
  <2>7. \A j \in Command(n) : waitsOn'[n][j] \in {0, j}
    <3>1. CASE waitsOn' = waitsOn
        BY <2>5, <3>1, Zenon DEF AloneSafe
    <3> QED
        BY <2>3, <2>4, <3>1, Zenon
  <2>8. ASSUME NEW j \in Command(n), j = 1 PROVE OwnReceiver(n, j)'
    <3>1. j = k
        BY <2>3, <2>8, Zenon
    <3>2. cmd'[n][j] = s
        BY <1>3, <3>1, Zenon
    <3>3. IF s = "ended" THEN receiver'[n] = 0 ELSE receiver'[n] = j /\ ~closed'[n][j]
        BY <2>3, <2>4, <2>5, <3>1, Zenon
    <3>4. cmd'[n][j] \in {"idle", "ended"} <=> s = "ended"
        BY <3>2, Zenon
    <3>5. receiver'[n] = IF cmd'[n][j] \in {"idle", "ended"} THEN 0 ELSE j
        BY <3>3, <3>4, Zenon
    <3>6. cmd'[n][j] # "ended" => ~closed'[n][j]
        BY <3>2, <3>3, Zenon
    <3> QED
        BY <3>5, <3>6, Zenon DEF OwnReceiver
  <2> QED
      BY <1>5, <2>6, <2>7, <2>8, Zenon DEF AloneSafe
<1> QED
    BY <1>4, <1>5, Zenon

(* A command that runs has its receiver, when it is the only one.            *)
LEMMA RunsAlone ==
  ASSUME ParticipantInv, SingleInv, NEW n \in Participant, Alone(n), NEW k \in Command(n), cmd[n][k] \notin {"idle", "ended"}
  PROVE  k = 1 /\ receiver[n] = k /\ ~closed[n][k] /\ AloneSafe(n)
<1>1. AloneSafe(n)
    BY Zenon DEF SingleInv
<1>2. ~(k > 1)
    BY Zenon DEF Alone
<1>3. k = 1
    BY <1>2, SetupAssumption DEF Command
<1>4. OwnReceiver(n, k)
    BY <1>1, <1>3, Zenon DEF AloneSafe
<1> QED
    BY <1>1, <1>3, <1>4, Zenon DEF OwnReceiver

\* A step that leaves all participants alone.
LEMMA SingleFrame ==
  ASSUME SingleInv, cmd' = cmd, waitsOn' = waitsOn, closed' = closed, receiver' = receiver, crashed' = crashed
  PROVE  SingleInv'
<1> SUFFICES ASSUME NEW m \in Participant, Alone(m)' PROVE AloneSafe(m)'
    BY Zenon DEF SingleInv
<1>1. Alone(m) => AloneSafe(m)
    BY Zenon DEF SingleInv
<1> QED
    BY <1>1, SameAlone, Zenon

\* A command that runs goes on running.
LEMMA RunningMoves ==
  ASSUME ParticipantInv, SingleInv, NEW n \in Participant, NEW k \in Command(n), NEW s \in CommandState,
         cmd' = [cmd EXCEPT ![n][k] = s], s \notin {"idle", "ended"}, cmd[n][k] \notin {"idle", "ended"},
         waitsOn' = waitsOn, closed' = closed, receiver' = receiver, crashed' = crashed
  PROVE  SingleInv'
<1>1. k = 1 /\ Alone(n) /\ AloneSafe(n) => IF s = "ended" THEN receiver'[n] = 0 ELSE receiver'[n] = k /\ ~closed'[n][k]
    BY RunsAlone, Zenon
<1>2. s # "idle"
    BY Zenon
<1>3. \A m \in Participant : m # n => \A j \in Command(m) : closed'[m][j] = closed[m][j] /\ waitsOn'[m][j] = waitsOn[m][j]
    BY Zenon
<1>4. \A m \in Participant : m # n => receiver'[m] = receiver[m]
    BY Zenon
<1> QED
    BY <1>1, <1>2, <1>3, <1>4, MovedAlone, Zenon

\* The signal, the group and the end of the DKG.
LEMMA RunningSingle ==
  ASSUME SetupInv, SingleInv, NEW n \in Participant, NEW k \in Command(n),
         SignalDKGParticipant(n, k) \/ SignalFails(n, k) \/ ReceiveGroup(n, k) \/ CommandEnds(n, k)
  PROVE  SingleInv'
<1>1. waitsOn' = waitsOn /\ closed' = closed /\ receiver' = receiver /\ crashed' = crashed
    BY Zenon DEF SignalDKGParticipant, SignalFails, ReceiveGroup, CommandEnds
<1>2. cmd[n][k] \in {"signal", "sending", "signalled", "waiting", "dkg"}
    BY Zenon DEF SignalDKGParticipant, SignalFails, ReceiveGroup, CommandEnds
<1>3. cmd[n][k] \notin {"idle", "ended"}
    BY <1>2
<1>4. PICK s \in {"ending", "signalled", "sending", "dkg"} : cmd' = [cmd EXCEPT ![n][k] = s]
    BY Zenon DEF SignalDKGParticipant, SignalFails, ReceiveGroup, CommandEnds, Cmd
<1>5. s \in CommandState /\ s \notin {"idle", "ended"}
    BY <1>4 DEF CommandState
<1> QED
    BY <1>1, <1>3, <1>4, <1>5, RunningMoves, Zenon DEF SetupInv

\* A signal that waited is taken.
LEMMA KeyTakenSingle ==
  ASSUME SetupInv, SingleInv, KeyTaken
  PROVE  SingleInv'
<1>1. ParticipantInv /\ WaitsWithLock
    BY Zenon DEF SetupInv, LeaderInv
<1>2. waitsOn' = waitsOn /\ closed' = closed /\ receiver' = receiver /\ crashed' = crashed
      /\ leaderLock # Free /\ leaderLock[1] = "key"
    BY Zenon DEF KeyTaken
<1>3. \A c : leaderLock # <<"stop", c>>
    BY <1>2
<1>4. PICK n \in Participant : \E k \in Command(n) : leaderLock = <<"key", n, k>>
    BY <1>1, <1>2, <1>3, Zenon DEF WaitsWithLock
<1>5. PICK k \in Command(n) : leaderLock = <<"key", n, k>>
    BY <1>4, Zenon
<1>6. leaderLock[2] = n /\ leaderLock[3] = k
    BY <1>5
<1>7. cmd' = [cmd EXCEPT ![n][k] = IF cmd[n][k] = "sending" THEN "signalled" ELSE cmd[n][k]]
  <2>1. cmd' = [cmd EXCEPT ![leaderLock[2]][leaderLock[3]] =
                  IF cmd[leaderLock[2]][leaderLock[3]] = "sending" THEN "signalled" ELSE cmd[leaderLock[2]][leaderLock[3]]]
      BY Zenon DEF KeyTaken
  <2> QED
      BY <1>6, <2>1, Zenon
<1>8. CASE cmd[n][k] = "sending"
  <2>1. cmd' = [cmd EXCEPT ![n][k] = "signalled"]
      BY <1>7, <1>8, Zenon
  <2>2. "signalled" \in CommandState /\ "signalled" \notin {"idle", "ended"} /\ cmd[n][k] \notin {"idle", "ended"}
      BY <1>8 DEF CommandState
  <2> QED
      BY <1>1, <1>2, <2>1, <2>2, RunningMoves, Zenon
<1>9. CASE cmd[n][k] # "sending"
  <2>1. cmd' = [cmd EXCEPT ![n][k] = cmd[n][k]]
      BY <1>7, <1>9, Zenon
  <2>2. Shaped(cmd, CommandState) /\ cmd[n][k] \in CommandState
      BY <1>1, ShapedAt, Zenon DEF ParticipantInv, NodeTypes
  <2>3. Placed(cmd', cmd, n, k, cmd[n][k], CommandState)
      BY <2>1, <2>2, CmdPut, Zenon
  <2>4. \A m \in Participant : \A j \in Command(m) : cmd'[m][j] = cmd[m][j]
    <3>1. /\ cmd'[n][k] = cmd[n][k]
          /\ \A m \in Participant : \A j \in Command(m) : (m # n \/ j # k) => cmd'[m][j] = cmd[m][j]
        BY <2>3, Zenon DEF Placed
    <3> QED
        BY <3>1, Zenon
  <2> SUFFICES ASSUME NEW m \in Participant, Alone(m)' PROVE AloneSafe(m)'
      BY Zenon DEF SingleInv
  <2>5. Alone(m) => AloneSafe(m)
      BY Zenon DEF SingleInv
  <2> QED
      BY <1>2, <2>4, <2>5, SameAlone, Zenon
<1> QED
    BY <1>8, <1>9, Zenon

\* WaitDKGInfo finds the receiver of its own command, and does not panic.
LEMMA WaitSingle ==
  ASSUME SetupInv, SingleInv, NEW n \in Participant, NEW k \in Command(n), WaitDKGInfo(n, k)
  PROVE  SingleInv'
<1>1. ParticipantInv
    BY Zenon DEF SetupInv
<1>2. closed' = closed /\ receiver' = receiver /\ cmd[n][k] = "signalled"
    BY Zenon DEF WaitDKGInfo
<1>3. cmd[n][k] \notin {"idle", "ended"}
    BY <1>2
<1>4. CASE receiver[n] = 0 /\ crashed' = crashed \cup {n} /\ cmd' = cmd /\ waitsOn' = waitsOn
  <2> SUFFICES ASSUME NEW m \in Participant, Alone(m)' PROVE AloneSafe(m)'
      BY Zenon DEF SingleInv
  <2>1. Alone(m) => AloneSafe(m)
      BY Zenon DEF SingleInv
  <2>2. CASE m # n
    <3>1. m \in crashed' => m \in crashed
        BY <1>4, <2>2, Zenon
    <3> QED
        BY <1>2, <1>4, <2>1, <3>1, SameAlone, Zenon
  <2>3. CASE m = n
    <3>1. Alone(n)
        BY <1>4, <2>3, Zenon DEF Alone
    <3>2. k = 1 /\ receiver[n] = k
        BY <1>1, <1>3, <3>1, RunsAlone, Zenon
    <3>3. FALSE
        BY <1>4, <3>2
    <3> QED
        BY <3>3
  <2> QED
      BY <2>2, <2>3, Zenon
<1>5. CASE /\ receiver[n] # 0 /\ waitsOn' = [waitsOn EXCEPT ![n][k] = receiver[n]]
           /\ cmd' = [cmd EXCEPT ![n][k] = "waiting"] /\ crashed' = crashed
  <2>1. "waiting" \in CommandState /\ "waiting" # "idle" /\ "waiting" # "ended"
      BY DEF CommandState
  <2>2. Shaped(waitsOn, Nat) /\ receiver[n] \in Nat
    <3>1. receiver \in [Participant -> Nat] /\ Shaped(waitsOn, Nat)
        BY <1>1, Zenon DEF ParticipantInv, NodeTypes
    <3> QED
        BY <3>1
  <2>3. Placed(waitsOn', waitsOn, n, k, receiver[n], Nat)
      BY <1>5, <2>2, WaitsPut, Zenon
  <2>4. waitsOn'[n][k] = receiver[n] /\ \A m \in Participant : \A j \in Command(m) : (m # n \/ j # k) => waitsOn'[m][j] = waitsOn[m][j]
      BY <2>3, Zenon DEF Placed
  <2>5. k = 1 /\ Alone(n) => \A j \in Command(n) : waitsOn'[n][j] \in {0, j}
    <3> SUFFICES ASSUME Alone(n), NEW j \in Command(n) PROVE waitsOn'[n][j] \in {0, j}
        BY Zenon
    <3>1. receiver[n] = k /\ AloneSafe(n)
        BY <1>1, <1>3, RunsAlone, Zenon
    <3>2. CASE j = k
        BY <2>4, <3>1, <3>2, Zenon
    <3>3. CASE j # k
        BY <2>4, <3>1, <3>3, Zenon DEF AloneSafe
    <3> QED
        BY <3>2, <3>3, Zenon
  <2>6. k = 1 /\ Alone(n) /\ AloneSafe(n) => receiver'[n] = k /\ ~closed'[n][k]
      BY <1>1, <1>2, <1>3, RunsAlone, Zenon
  <2>7. \A m \in Participant : m # n => \A j \in Command(m) : closed'[m][j] = closed[m][j] /\ waitsOn'[m][j] = waitsOn[m][j]
      BY <1>2, <2>4, Zenon
  <2>8. \A m \in Participant : m # n => receiver'[m] = receiver[m]
      BY <1>2, Zenon
  <2> QED
      BY <1>1, <1>5, <2>1, <2>5, <2>6, <2>7, <2>8, MovedAlone, Zenon
<1> QED
    BY <1>4, <1>5, Zenon DEF WaitDKGInfo, Cmd

\* The deferred function clears the receiver.
LEMMA ClearSingle ==
  ASSUME SetupInv, SingleInv, NEW n \in Participant, NEW k \in Command(n), ClearReceiver(n, k)
  PROVE  SingleInv'
<1>1. ParticipantInv
    BY Zenon DEF SetupInv
<1>2. /\ waitsOn' = waitsOn /\ crashed' = crashed /\ cmd[n][k] = "ending" /\ closed' = [closed EXCEPT ![n][k] = TRUE]
      /\ receiver' = [receiver EXCEPT ![n] = IF receiver[n] = k THEN 0 ELSE receiver[n]]
      /\ cmd' = [cmd EXCEPT ![n][k] = "ended"]
    BY Zenon DEF ClearReceiver, Cmd
<1>3. cmd[n][k] \notin {"idle", "ended"}
    BY <1>2
<1>4. "ended" \in CommandState /\ "ended" # "idle"
    BY DEF CommandState
<1>5. Shaped(closed, BOOLEAN) /\ receiver \in [Participant -> Nat]
    BY <1>1, NodeFacts, Zenon
<1>6. Placed([closed EXCEPT ![n][k] = TRUE], closed, n, k, TRUE, BOOLEAN)
    BY <1>5, ClosedPut, Zenon
<1>7. Placed(closed', closed, n, k, TRUE, BOOLEAN)
    BY <1>2, <1>6, Zenon
<1>8. \A m \in Participant : m # n => \A j \in Command(m) : closed'[m][j] = closed[m][j] /\ waitsOn'[m][j] = waitsOn[m][j]
    BY <1>2, <1>7, Zenon DEF Placed
<1>9. receiver'[n] = (IF receiver[n] = k THEN 0 ELSE receiver[n]) /\ \A m \in Participant : m # n => receiver'[m] = receiver[m]
    BY <1>2, <1>5
<1>10. k = 1 /\ Alone(n) /\ AloneSafe(n) => receiver'[n] = 0
    BY <1>1, <1>3, <1>9, RunsAlone, Zenon
<1> QED
    BY <1>1, <1>2, <1>4, <1>8, <1>9, <1>10, MovedAlone, Zenon

\* A first command makes its receiver.
LEMMA JoinSingle ==
  ASSUME SetupInv, SingleInv, NEW n \in Participant, NEW k \in Command(n), JoinCommand(n, k)
  PROVE  SingleInv'
<1>1. ParticipantInv
    BY Zenon DEF SetupInv
<1>2. waitsOn' = waitsOn /\ crashed' = crashed /\ cmd[n][k] = "idle"
    BY Zenon DEF JoinCommand
<1>3. "ended" \in CommandState /\ "ended" # "idle" /\ "signal" \in CommandState /\ "signal" # "idle" /\ "signal" # "ended" /\ "idle" # "ended"
    BY DEF CommandState
<1>4. Shaped(closed, BOOLEAN) /\ receiver \in [Participant -> Nat] /\ receiver[n] \in 0 .. Commands(n) /\ Commands(n) \in Nat
    BY <1>1, NodeFacts, SetupAssumption, Zenon
<1>5. k = 1 /\ Alone(n) /\ AloneSafe(n) => receiver[n] = 0 /\ ~closed[n][k]
  <2> SUFFICES ASSUME k = 1, AloneSafe(n) PROVE receiver[n] = 0 /\ ~closed[n][k]
      BY Zenon
  <2>1. OwnReceiver(n, k)
      BY Zenon DEF AloneSafe
  <2> QED
      BY <1>2, <1>3, <2>1, Zenon DEF OwnReceiver
<1> DEFINE r == receiver[n]
<1> DEFINE stop == IF r = 0 THEN closed ELSE [closed EXCEPT ![n][r] = TRUE]
<1>6. (r = 0 => stop = closed) /\ \A m \in Participant : m # n => \A j \in Command(m) : stop[m][j] = closed[m][j]
  <2>1. CASE r = 0
      BY <2>1, Zenon
  <2>2. CASE r # 0
    <3>1. r \in Command(n)
        BY <1>4, <2>2 DEF Command
    <3>2. stop = [closed EXCEPT ![n][r] = TRUE]
        BY <2>2, Zenon
    <3> HIDE DEF stop, r
    <3>3. Placed([closed EXCEPT ![n][r] = TRUE], closed, n, r, TRUE, BOOLEAN)
        BY <1>4, <3>1, ClosedPut, Zenon
    <3>4. Placed(stop, closed, n, r, TRUE, BOOLEAN)
        BY <3>2, <3>3, Zenon
    <3> QED
        BY <2>2, <3>4, Zenon DEF Placed
  <2> QED
      BY <2>1, <2>2, Zenon
<1> HIDE DEF stop
<1>7. CASE r # 0 /\ cmd' = [cmd EXCEPT ![n][k] = "ended"] /\ receiver' = receiver /\ closed' = closed
  <2>1. k = 1 /\ Alone(n) /\ AloneSafe(n) => receiver'[n] = 0
      BY <1>5, <1>7, Zenon
  <2>2. \A m \in Participant : m # n => receiver'[m] = receiver[m]
      BY <1>7, Zenon
  <2>3. \A m \in Participant : m # n => \A j \in Command(m) : closed'[m][j] = closed[m][j] /\ waitsOn'[m][j] = waitsOn[m][j]
      BY <1>2, <1>7, Zenon
  <2> QED
      BY <1>1, <1>2, <1>3, <1>7, <2>1, <2>2, <2>3, MovedAlone, Zenon
<1>8. CASE closed' = stop /\ receiver' = [receiver EXCEPT ![n] = k] /\ cmd' = [cmd EXCEPT ![n][k] = "signal"]
  <2>1. receiver'[n] = k /\ \A m \in Participant : m # n => receiver'[m] = receiver[m]
      BY <1>4, <1>8
  <2>2. k = 1 /\ Alone(n) /\ AloneSafe(n) => receiver'[n] = k /\ ~closed'[n][k]
      BY <1>5, <1>6, <1>8, <2>1, Zenon
  <2>3. \A m \in Participant : m # n => \A j \in Command(m) : closed'[m][j] = closed[m][j] /\ waitsOn'[m][j] = waitsOn[m][j]
      BY <1>2, <1>6, <1>8, Zenon
  <2> QED
      BY <1>1, <1>2, <1>3, <1>8, <2>1, <2>2, <2>3, MovedAlone, Zenon
<1>9. CASE closed' = stop /\ receiver' = [receiver EXCEPT ![n] = IF Resharing THEN 0 ELSE r] /\ cmd' = [cmd EXCEPT ![n][k] = "ended"]
  <2>1. receiver'[n] = (IF Resharing THEN 0 ELSE r) /\ \A m \in Participant : m # n => receiver'[m] = receiver[m]
      BY <1>4, <1>9
  <2>2. k = 1 /\ Alone(n) /\ AloneSafe(n) => receiver'[n] = 0
      BY <1>5, <2>1, Zenon
  <2>3. \A m \in Participant : m # n => \A j \in Command(m) : closed'[m][j] = closed[m][j] /\ waitsOn'[m][j] = waitsOn[m][j]
      BY <1>2, <1>6, <1>9, Zenon
  <2> QED
      BY <1>1, <1>2, <1>3, <1>9, <2>1, <2>2, <2>3, MovedAlone, Zenon
<1> QED
    BY <1>7, <1>8, <1>9, Zenon DEF JoinCommand, stop, r, Cmd

\* A push finds no stopped receiver, and does not panic.
LEMMA PushSingle ==
  ASSUME SetupInv, SingleInv, NEW c \in Setup, NEW n \in Participant, PushDKGInfo(c, n)
  PROVE  SingleInv'
<1>1. ParticipantInv
    BY Zenon DEF SetupInv
<1>2. cmd' = cmd /\ waitsOn' = waitsOn /\ closed' = closed /\ receiver' = receiver
    BY Zenon DEF PushDKGInfo
<1>3. CASE crashed' = crashed
    BY <1>2, <1>3, SingleFrame, Zenon
<1>4. CASE receiver[n] # 0 /\ closed[n][receiver[n]] /\ crashed' = crashed \cup {n}
  <2> SUFFICES ASSUME NEW m \in Participant, Alone(m)' PROVE AloneSafe(m)'
      BY Zenon DEF SingleInv
  <2>1. Alone(m) => AloneSafe(m)
      BY Zenon DEF SingleInv
  <2>2. CASE m # n
    <3>1. m \in crashed' => m \in crashed
        BY <1>4, <2>2, Zenon
    <3> QED
        BY <1>2, <2>1, <3>1, SameAlone, Zenon
  <2>3. CASE m = n
    <3>1. Alone(n)
        BY <1>2, <2>3, Zenon DEF Alone
    <3>2. AloneSafe(n)
        BY <3>1, Zenon DEF SingleInv
    <3>3. receiver[n] \in 0 .. Commands(n) /\ Commands(n) \in Nat
        BY <1>1, NodeFacts, SetupAssumption, Zenon
    <3>4. 1 \in Command(n)
        BY <1>4, <3>3 DEF Command
    <3>5. OwnReceiver(n, 1)
        BY <3>2, <3>4, Zenon DEF AloneSafe
    <3>6. receiver[n] = 1 /\ cmd[n][1] # "ended"
        BY <1>4, <3>5, Zenon DEF OwnReceiver
    <3>7. ~closed[n][1]
        BY <3>5, <3>6, Zenon DEF OwnReceiver
    <3>8. FALSE
        BY <1>4, <3>6, <3>7, Zenon
    <3> QED
        BY <3>8
  <2> QED
      BY <2>2, <2>3, Zenon
<1> QED
    BY <1>3, <1>4, Zenon DEF PushDKGInfo

\* Every step keeps a participant with one command safe.
LEMMA SingleKept == SetupInv /\ SingleInv /\ [SetupNext]_setupVars => SingleInv'
<1> SUFFICES ASSUME SetupInv, SingleInv, [SetupNext]_setupVars PROVE SingleInv'
    OBVIOUS
<1>1. ASSUME cmd' = cmd, waitsOn' = waitsOn, closed' = closed, receiver' = receiver, crashed' = crashed PROVE SingleInv'
    BY <1>1, SingleFrame, Zenon
<1>2. ASSUME UNCHANGED nodeVars PROVE SingleInv'
    BY <1>1, <1>2, Zenon DEF nodeVars
<1>3. ASSUME NEW c \in Setup, LeadCommand(c) \/ LeadTimeout(c) \/ LeaderStep(c) PROVE SingleInv'
  <2>1. CASE LeadCommand(c) \/ Preempt(c)
      BY <1>2, <2>1, Zenon DEF LeadCommand, Preempt
  <2>2. CASE LeadGroup(c) \/ LeadTimeout(c) \/ LeadStop(c) \/ LeadClear(c) \/ PushEnds(c)
      BY <1>2, <2>2, Zenon DEF LeadGroup, LeadTimeout, LeadStop, LeadClear, PushEnds
  <2>3. CASE CollectKey(c) \/ StopRun(c)
      BY <1>2, <2>3, Zenon DEF CollectKey, StopRun
  <2>4. CASE \E n \in Participant : CountAnswer(c, n)
      BY <1>2, <2>4, Zenon DEF CountAnswer
  <2> QED
      BY <1>3, <2>1, <2>2, <2>3, <2>4, Zenon DEF LeaderStep
<1>4. CASE KeyTaken
    BY <1>4, KeyTakenSingle, Zenon
<1>5. ASSUME NEW n \in Participant, NEW k \in Command(n),
             \/ SignalDKGParticipant(n, k) \/ WaitDKGInfo(n, k) \/ ReceiveGroup(n, k) \/ CommandEnds(n, k)
             \/ ClearReceiver(n, k) \/ JoinCommand(n, k) \/ SignalFails(n, k)
      PROVE  SingleInv'
    BY <1>5, RunningSingle, WaitSingle, ClearSingle, JoinSingle, Zenon
<1>6. ASSUME NEW n \in Participant, NEW c \in Setup, PushDKGInfo(c, n) \/ PushFails(c, n) PROVE SingleInv'
  <2>1. CASE PushFails(c, n)
      BY <1>2, <2>1, Zenon DEF PushFails
  <2> QED
      BY <1>6, <2>1, PushSingle, Zenon
<1>7. ASSUME NEW n \in Participant, PushTaken(n) PROVE SingleInv'
    BY <1>1, <1>7, Zenon DEF PushTaken
<1>8. CASE UNCHANGED setupVars
    BY <1>2, <1>8, Zenon DEF setupVars
<1>9. CASE \E n \in Participant : \/ NodeStep(n)
                                  \/ \E k \in Command(n) : JoinCommand(n, k) \/ SignalFails(n, k)
                                  \/ \E c \in Setup : PushFails(c, n)
  <2>1. PICK n \in Participant : \/ NodeStep(n)
                                 \/ \E k \in Command(n) : JoinCommand(n, k) \/ SignalFails(n, k)
                                 \/ \E c \in Setup : PushFails(c, n)
      BY <1>9, Zenon
  <2> QED
      BY <2>1, <1>5, <1>6, <1>7, Zenon DEF NodeStep
<1> QED
    BY <1>3, <1>4, <1>8, <1>9, Zenon DEF SetupNext

(* What the reply a of n to setup c may change: n takes the group of c when  *)
(* it answers, and the lock of n is kept by c when the push has to wait.     *)
AcceptsMore(c, n, a) ==
    \A d \in Setup :
        /\ accepted[d] \subseteq accepted'[d]
        /\ \A m \in Participant : m \in accepted'[d] => m \in accepted[d] \/ (d = c /\ m = n /\ a \in {"ok", "error"})

LocksMove(c, n, a) ==
    \A m \in Participant : nodeLock'[m] # 0 =>
        \/ nodeLock'[m] = nodeLock[m] /\ (m = n => nodeLock[m] # c)
        \/ m = n /\ nodeLock'[m] = c /\ a = "pending" /\ \E d \in Setup : d # c /\ n \in accepted[d]

(* Setup c gets the reply a of n, which had not answered it.                 *)
LEMMA ReplyKeeps ==
  ASSUME RepliesInv, NEW c \in Setup, NEW n \in Participant, NEW a, Replied(c, n, a), answer[c][n] \in {"none", "pending"},
         \A m \in Participant : nodeLock[m] # 0 => nodeLock[m] \in Setup,
         AcceptsMore(c, n, a), LocksMove(c, n, a)
  PROVE  RepliesInv'
<1>a. \A d \in Setup : /\ accepted[d] \subseteq accepted'[d]
                       /\ \A m \in Participant : m \in accepted'[d] => m \in accepted[d] \/ (d = c /\ m = n /\ a \in {"ok", "error"})
    BY Zenon DEF AcceptsMore
<1>b. \A m \in Participant : nodeLock'[m] # 0 =>
         \/ nodeLock'[m] = nodeLock[m] /\ (m = n => nodeLock[m] # c)
         \/ m = n /\ nodeLock'[m] = c /\ a = "pending" /\ \E d \in Setup : d # c /\ n \in accepted[d]
    BY Zenon DEF LocksMove
<1>1. answer'[c][n] = a /\ \A d \in Setup : \A m \in Participant : (d # c \/ m # n) => answer'[d][m] = answer[d][m]
    BY Zenon DEF Replied
<1>2. ASSUME NEW d \in Setup, NEW m \in Participant, m \in accepted'[d] PROVE answer'[d][m] \in {"ok", "error"}
  <2>1. CASE d = c /\ m = n /\ a \in {"ok", "error"}
      BY <1>1, <2>1, Zenon
  <2>2. CASE m \in accepted[d]
    <3>1. answer[d][m] \in {"ok", "error"}
        BY <2>2, Zenon DEF RepliesInv
    <3>2. d # c \/ m # n
        BY <3>1
    <3> QED
        BY <1>1, <3>1, <3>2, Zenon
  <2> QED
      BY <1>2, <1>a, <2>1, <2>2, Zenon
<1>3. ASSUME NEW m \in Participant, nodeLock'[m] # 0
      PROVE answer'[nodeLock'[m]][m] = "pending" /\ \E d \in Setup : d # nodeLock'[m] /\ m \in accepted'[d]
  <2>1. CASE nodeLock'[m] = nodeLock[m] /\ (m = n => nodeLock[m] # c)
    <3>1. nodeLock[m] \in Setup /\ answer[nodeLock[m]][m] = "pending" /\ \E d \in Setup : d # nodeLock[m] /\ m \in accepted[d]
        BY <1>3, <2>1, Zenon DEF RepliesInv
    <3>2. answer'[nodeLock[m]][m] = answer[nodeLock[m]][m]
        BY <1>1, <2>1, <3>1, Zenon
    <3> QED
        BY <1>a, <2>1, <3>1, <3>2, Zenon
  <2>2. CASE m = n /\ nodeLock'[m] = c /\ a = "pending" /\ \E d \in Setup : d # c /\ n \in accepted[d]
    <3>1. answer'[nodeLock'[m]][m] = "pending"
        BY <1>1, <2>2, Zenon
    <3>2. \E d \in Setup : d # nodeLock'[m] /\ m \in accepted'[d]
        BY <1>a, <2>2, Zenon
    <3> QED
        BY <3>1, <3>2, Zenon
  <2> QED
      BY <1>3, <1>b, <2>1, <2>2, Zenon
<1> QED
    BY <1>2, <1>3, Zenon DEF RepliesInv

\* A push that waits is of a setup.
LEMMA LockIsSetup ==
  ASSUME SetupInv
  PROVE  /\ \A m \in Participant : nodeLock[m] # 0 => nodeLock[m] \in Setup
         /\ answer \in [Setup -> [Participant -> Answers]] /\ accepted \in [Setup -> SUBSET Participant]
         /\ nodeLock \in [Participant -> 0 .. MaxSetups]
<1>1. nodeLock \in [Participant -> 0 .. MaxSetups]
    BY Zenon DEF SetupInv, ParticipantInv, NodeTypes
<1>2. \A x \in 0 .. MaxSetups : x # 0 => x \in Setup
    BY SetupAssumption DEF Setup
<1>3. \A m \in Participant : nodeLock[m] \in 0 .. MaxSetups
    BY <1>1
<1>4. answer \in [Setup -> [Participant -> Answers]] /\ accepted \in [Setup -> SUBSET Participant]
    BY Zenon DEF SetupInv, ParticipantInv, ReplyTypes, Answers
<1> QED
    BY <1>1, <1>2, <1>3, <1>4, Zenon

\* A push that is refused or fails.
LEMMA RefusedReplies ==
  ASSUME SetupInv, RepliesInv, NEW c \in Setup, NEW n \in Participant, answer[c][n] = "none",
         Answer(c, n, "error"), nodeLock' = nodeLock, accepted' = accepted
  PROVE  RepliesInv'
<1>1. "error" \in Answers /\ "none" # "pending" /\ answer[c][n] \in {"none", "pending"}
    BY DEF Answers
<1>2. Replied(c, n, "error")
    BY <1>1, LockIsSetup, AnswerPut, Zenon
<1>3. \A m \in Participant : nodeLock'[m] # 0 => nodeLock'[m] = nodeLock[m] /\ (m = n => nodeLock[m] # c)
    BY <1>1, Zenon DEF RepliesInv
<1>4. LocksMove(c, n, "error")
    BY <1>3, Zenon DEF LocksMove
<1>5. AcceptsMore(c, n, "error")
    BY Zenon DEF AcceptsMore
<1>6. \A m \in Participant : nodeLock[m] # 0 => nodeLock[m] \in Setup
    BY LockIsSetup, Zenon
<1> QED
    BY <1>1, <1>2, <1>4, <1>5, <1>6, ReplyKeeps, Zenon

\* A push that is taken.
LEMMA TakenReplies ==
  ASSUME SetupInv, RepliesInv, NEW c \in Setup, NEW n \in Participant, answer[c][n] \in {"none", "pending"},
         Reply(c, n), accepted' = [accepted EXCEPT ![c] = accepted[c] \cup {n}],
         nodeLock' = [nodeLock EXCEPT ![n] = 0]
  PROVE  RepliesInv'
<1>1. PICK a \in {"ok", "error"} : Answer(c, n, a)
    BY Zenon DEF Reply
<1>2. a \in Answers
    BY <1>1 DEF Answers
<1>3. Replied(c, n, a)
    BY <1>1, <1>2, LockIsSetup, AnswerPut, Zenon
<1>4. /\ accepted'[c] = accepted[c] \cup {n} /\ \A d \in Setup : d # c => accepted'[d] = accepted[d]
  <2>1. accepted \in [Setup -> SUBSET Participant]
      BY LockIsSetup, Zenon
  <2>2. accepted[c] \cup {n} \in SUBSET Participant
      BY <2>1
  <2> QED
      BY <2>1, <2>2, PutAt, Zenon
<1>5. AcceptsMore(c, n, a)
    BY <1>1, <1>4, Zenon DEF AcceptsMore
<1>6. \A m \in Participant : nodeLock'[m] # 0 => nodeLock'[m] = nodeLock[m] /\ m # n
  <2>1. nodeLock \in [Participant -> 0 .. MaxSetups] /\ 0 \in 0 .. MaxSetups
    <3>1. 0 \in 0 .. MaxSetups
        BY SetupAssumption
    <3> QED
        BY <3>1, LockIsSetup, Zenon
  <2>2. nodeLock'[n] = 0 /\ \A m \in Participant : m # n => nodeLock'[m] = nodeLock[m]
      BY <2>1, PutAt, Zenon
  <2> QED
      BY <2>2, Zenon
<1>7. LocksMove(c, n, a)
    BY <1>6, Zenon DEF LocksMove
<1>8. \A m \in Participant : nodeLock[m] # 0 => nodeLock[m] \in Setup
    BY LockIsSetup, Zenon
<1> QED
    BY <1>3, <1>5, <1>7, <1>8, ReplyKeeps, Zenon

\* A push waits: the receiver holds the group of another setup, which the node took.
LEMMA WaitingReplies ==
  ASSUME SetupInv, RepliesInv, NEW c \in Setup, NEW n \in Participant, answer[c][n] = "none",
         Answer(c, n, "pending"), accepted' = accepted, nodeLock' = [nodeLock EXCEPT ![n] = c],
         receiver[n] # 0, recvCh[n][receiver[n]] # 0
  PROVE  RepliesInv'
<1>1. "pending" \in Answers /\ answer[c][n] \in {"none", "pending"} /\ answer[c][n] \notin {"ok", "error"}
    BY DEF Answers
<1>2. Replied(c, n, "pending")
    BY <1>1, LockIsSetup, AnswerPut, Zenon
<1> DEFINE r == receiver[n]
<1> DEFINE d == recvCh[n][r]
<1>3. r \in Command(n)
  <2>1. r \in 0 .. Commands(n) /\ Commands(n) \in Nat
      BY NodeFacts, SetupAssumption, Zenon DEF SetupInv
  <2>2. r # 0
      OBVIOUS
  <2> HIDE DEF r
  <2> QED
      BY <2>1, <2>2 DEF Command
<1>4. d \in Setup
  <2>1. d \in 0 .. MaxSetups
      BY <1>3, ShapedAt, Zenon DEF SetupInv, ParticipantInv, NodeTypes
  <2>2. d # 0
      OBVIOUS
  <2> HIDE DEF d
  <2> QED
      BY <2>1, <2>2, SetupAssumption DEF Setup
<1>5. n \in accepted[d]
  <2>1. GroupWasPushed
      BY Zenon DEF SetupInv, ParticipantInv
  <2> QED
      BY <1>3, <2>1, Zenon DEF GroupWasPushed
<1> HIDE DEF d, r
<1>6. d # c
    BY <1>1, <1>4, <1>5, Zenon DEF RepliesInv
<1>7. nodeLock'[n] = c /\ \A m \in Participant : m # n => nodeLock'[m] = nodeLock[m]
  <2>1. c \in 0 .. MaxSetups
      BY SetupAssumption DEF Setup
  <2> QED
      BY <2>1, LockIsSetup, PutAt, Zenon
<1>8. \A m \in Participant : nodeLock'[m] # 0 =>
         \/ nodeLock'[m] = nodeLock[m] /\ m # n
         \/ m = n /\ nodeLock'[m] = c /\ \E e \in Setup : e # c /\ n \in accepted[e]
    BY <1>4, <1>5, <1>6, <1>7, Zenon
<1>9. LocksMove(c, n, "pending")
    BY <1>8, Zenon DEF LocksMove
<1>10. AcceptsMore(c, n, "pending")
    BY Zenon DEF AcceptsMore
<1>11. \A m \in Participant : nodeLock[m] # 0 => nodeLock[m] \in Setup
    BY LockIsSetup, Zenon
<1> QED
    BY <1>1, <1>2, <1>9, <1>10, <1>11, ReplyKeeps, Zenon

\* PushDKGInfo at a node.
LEMMA PushReplies ==
  ASSUME SetupInv, RepliesInv, NEW c \in Setup, NEW n \in Participant, PushDKGInfo(c, n)
  PROVE  RepliesInv'
<1>1. answer[c][n] = "none" /\ LockFree(n)
    BY Zenon DEF PushDKGInfo
<1>2. CASE Answer(c, n, "error") /\ nodeLock' = nodeLock /\ accepted' = accepted
    BY <1>1, <1>2, RefusedReplies, Zenon
<1>3. CASE accepted' = [accepted EXCEPT ![c] = accepted[c] \cup {n}] /\ Reply(c, n) /\ nodeLock' = nodeLock
  <2>1. nodeLock[n] = 0
      BY <1>1, Zenon DEF LockFree
  <2>2. nodeLock \in [Participant -> 0 .. MaxSetups]
      BY LockIsSetup, Zenon
  <2>3. nodeLock' = [nodeLock EXCEPT ![n] = 0]
      BY <1>3, <2>1, <2>2
  <2>4. answer[c][n] \in {"none", "pending"}
      BY <1>1, Zenon
  <2> QED
      BY <1>3, <2>3, <2>4, TakenReplies, Zenon
<1>4. CASE /\ receiver[n] # 0 /\ recvCh[n][receiver[n]] # 0 /\ nodeLock' = [nodeLock EXCEPT ![n] = c]
           /\ Answer(c, n, "pending") /\ accepted' = accepted
    BY <1>1, <1>4, WaitingReplies, Zenon
<1> QED
    BY <1>2, <1>3, <1>4, Zenon DEF PushDKGInfo

\* A push that waited is taken.
LEMMA PushTakenReplies ==
  ASSUME SetupInv, RepliesInv, NEW n \in Participant, PushTaken(n)
  PROVE  RepliesInv'
<1>1. /\ nodeLock[n] # 0 /\ accepted' = [accepted EXCEPT ![nodeLock[n]] = accepted[nodeLock[n]] \cup {n}]
      /\ nodeLock' = [nodeLock EXCEPT ![n] = 0] /\ Reply(nodeLock[n], n)
    BY Zenon DEF PushTaken
<1>2. nodeLock[n] \in Setup /\ answer[nodeLock[n]][n] \in {"none", "pending"}
    BY <1>1, LockIsSetup, Zenon DEF RepliesInv
<1> QED
    BY <1>1, <1>2, TakenReplies, Zenon

\* Every step keeps the replies.
LEMMA RepliesKept == SetupInv /\ RepliesInv /\ [SetupNext]_setupVars => RepliesInv'
<1> SUFFICES ASSUME SetupInv, RepliesInv, [SetupNext]_setupVars PROVE RepliesInv'
    OBVIOUS
<1>1. ASSUME nodeLock' = nodeLock, accepted' = accepted, answer' = answer PROVE RepliesInv'
    BY <1>1, Zenon DEF RepliesInv
<1>2. ASSUME UNCHANGED nodeVars, answer' = answer PROVE RepliesInv'
    BY <1>1, <1>2, Zenon DEF nodeVars
<1>3. ASSUME NEW c \in Setup, LeadCommand(c) \/ LeadTimeout(c) \/ LeaderStep(c) PROVE RepliesInv'
  <2>1. CASE LeadCommand(c) \/ Preempt(c)
      BY <1>2, <2>1, Zenon DEF LeadCommand, Preempt
  <2>2. CASE LeadGroup(c) \/ LeadTimeout(c) \/ LeadStop(c) \/ LeadClear(c) \/ PushEnds(c)
      BY <1>2, <2>2, Zenon DEF LeadGroup, LeadTimeout, LeadStop, LeadClear, PushEnds
  <2>3. CASE CollectKey(c) \/ StopRun(c)
      BY <1>2, <2>3, Zenon DEF CollectKey, StopRun
  <2>4. CASE \E n \in Participant : CountAnswer(c, n)
      BY <1>2, <2>4, Zenon DEF CountAnswer
  <2> QED
      BY <1>3, <2>1, <2>2, <2>3, <2>4, Zenon DEF LeaderStep
<1>4. CASE KeyTaken
    BY <1>1, <1>4, Zenon DEF KeyTaken
<1>5. ASSUME NEW n \in Participant, NEW k \in Command(n),
             \/ SignalDKGParticipant(n, k) \/ WaitDKGInfo(n, k) \/ ReceiveGroup(n, k) \/ CommandEnds(n, k)
             \/ ClearReceiver(n, k) \/ JoinCommand(n, k) \/ SignalFails(n, k)
      PROVE  RepliesInv'
  <2>1. CASE SignalDKGParticipant(n, k) \/ SignalFails(n, k) \/ ReceiveGroup(n, k)
      BY <1>1, <2>1, Zenon DEF SignalDKGParticipant, SignalFails, ReceiveGroup
  <2>2. CASE WaitDKGInfo(n, k) \/ CommandEnds(n, k)
      BY <1>1, <2>2, Zenon DEF WaitDKGInfo, CommandEnds
  <2>3. CASE ClearReceiver(n, k) \/ JoinCommand(n, k)
      BY <1>1, <2>3, Zenon DEF ClearReceiver, JoinCommand
  <2> QED
      BY <1>5, <2>1, <2>2, <2>3, Zenon
<1>6. ASSUME NEW n \in Participant, NEW c \in Setup, PushDKGInfo(c, n) \/ PushFails(c, n) PROVE RepliesInv'
  <2>1. CASE PushFails(c, n)
    <3>1. answer[c][n] = "none" /\ Answer(c, n, "error") /\ nodeLock' = nodeLock /\ accepted' = accepted
        BY <2>1, Zenon DEF PushFails, nodeVars
    <3> QED
        BY <3>1, RefusedReplies, Zenon
  <2> QED
      BY <1>6, <2>1, PushReplies, Zenon
<1>7. ASSUME NEW n \in Participant, PushTaken(n) PROVE RepliesInv'
    BY <1>7, PushTakenReplies, Zenon
<1>8. CASE UNCHANGED setupVars
    BY <1>2, <1>8, Zenon DEF setupVars, leaderVars
<1>9. CASE \E n \in Participant : \/ NodeStep(n)
                                  \/ \E k \in Command(n) : JoinCommand(n, k) \/ SignalFails(n, k)
                                  \/ \E c \in Setup : PushFails(c, n)
  <2>1. PICK n \in Participant : \/ NodeStep(n)
                                 \/ \E k \in Command(n) : JoinCommand(n, k) \/ SignalFails(n, k)
                                 \/ \E c \in Setup : PushFails(c, n)
      BY <1>9, Zenon
  <2> QED
      BY <2>1, <1>5, <1>6, <1>7, Zenon DEF NodeStep
<1> QED
    BY <1>3, <1>4, <1>8, <1>9, Zenon DEF SetupNext

(* Setups and commands that overtake each other keep apart, for any number   *)
(* of nodes, setups and commands: a setup that can still get keys is the     *)
(* one d.manager names unless an older command timed out, and a participant  *)
(* given one command neither panics nor waits on another command's receiver. *)
THEOREM SetupsStayApart == SetupSpec => []SetupsKeepApart
<1> DEFINE Inv == SetupInv /\ OrderInv /\ RepliesInv /\ SingleInv
<1>1. SetupInit => Inv
    BY SetupInitInv, OrderInitInv, SingleInitInv, Zenon
<1>2. Inv /\ [SetupNext]_setupVars => Inv'
    BY SetupKept, OrderKept, RepliesKept, SingleKept, Zenon
<1>3. Inv => SetupsKeepApart
  <2> SUFFICES ASSUME Inv PROVE SetupsKeepApart
      OBVIOUS
  <2>1. CollectingIsCurrent
    <3> SUFFICES ASSUME NEW c \in Setup, run[c] = "collecting", ~doneCh[c], lead[c] = "waiting" PROVE Holds(c)
        BY Zenon DEF CollectingIsCurrent, Holds
    <3> QED
        BY Zenon DEF OrderInv, ClaimsHold, Claims
  <2>2. OneCommandIsSafe
    <3> SUFFICES ASSUME NEW n \in Participant, \A k \in Command(n) : k > 1 => cmd[n][k] = "idle"
                 PROVE /\ n \notin crashed
                       /\ nodeLock[n] # 0 => \E c \in Setup : c # nodeLock[n] /\ n \in accepted[c]
                       /\ \A k \in Command(n) : waitsOn[n][k] \in {0, k}
        BY Zenon DEF OneCommandIsSafe
    <3>1. AloneSafe(n)
        BY Zenon DEF SingleInv, Alone
    <3>2. nodeLock[n] # 0 => \E c \in Setup : c # nodeLock[n] /\ n \in accepted[c]
        BY Zenon DEF RepliesInv
    <3> QED
        BY <3>1, <3>2, Zenon DEF AloneSafe
  <2> QED
      BY <2>1, <2>2, Zenon DEF SetupsKeepApart
<1> HIDE DEF Inv
<1>4. SetupInit /\ [][SetupNext]_setupVars => []Inv
    BY <1>1, <1>2, PTL
<1> QED
    BY <1>3, <1>4, PTL DEF SetupSpec
=============================================================================
