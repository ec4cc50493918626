------------------------------ MODULE Commands ------------------------------
(***************************************************************************)
(* From an operator's `drand share` flags to the group the leader creates: *)
(* the command checks its flags (cmd/drand-cli/control.go), the control    *)
(* client turns them into a packet of 32-bit counts of seconds             *)
(* (net/control.go), the daemon validates the packet (core/group_setup.go  *)
(* and core/drand_control.go) and computes genesis or transition time.     *)
(***************************************************************************)
EXTENDS Groups

CONSTANTS
    Counts,        \* values of --nodes and --threshold; 0 is "not given"
    Durations,     \* values of --period and --catchup-period, in ms
    NotGiven,      \* the catchup period of a command without that flag
    Delays,        \* values of --beacon-delay, in s; 0 takes the default
    GenesisOffset, \* DefaultGenesisOffset
    ReshareOffset, \* DefaultResharingOffset
    DKGTimeout,    \* length of a DKG phase
    Clocks,        \* the leader's clock when the keys are complete
    OldGroup       \* the group a resharing starts from

VARIABLES
    flag,    \* the command's flags
    at,      \* "cli", "daemon", "setup", "created", "done", "error" or "crash"
    packet,  \* the request, then the setup manager's parameters
    wall,    \* the leader's clock
    newGroup     \* <<group>> that createAndSend builds

cmdVars == <<flag, at, packet, wall, newGroup>>

\* chain/time.go, as ChainTime models it.
Time == INSTANCE ChainTime
    WITH WordBits <- 8, BufferBits <- 1, Periods <- {}, Geneses <- {},
         MaxNow <- 0, now <- wall, period <- 1, genesis <- 0

Flags ==
    [lead : BOOLEAN, reshare : BOOLEAN, nodes : Counts, thr : Counts,
     period : Durations, catchup : Durations \cup {NotGiven}, delay : Delays,
     secret : {"none", "short", "good"}, connect : BOOLEAN]

NoPacket ==
    [lead |-> FALSE, reshare |-> FALSE, nodes |-> 0, thr |-> 0, period |-> 0,
     changed |-> FALSE, catchup |-> 0, offset |-> 0]

CmdInit ==
    /\ flag \in Flags /\ at = "cli" /\ packet = NoPacket
    /\ wall \in Clocks /\ newGroup = <<>>

\* getShareArgs: loadSecret and getThreshold, whose minimum is that of no
\* arguments, so any given threshold above 0 passes.
ShareArgsValid == flag.secret = "good" /\ flag.thr >= 0

\* leadShareCmd and leadReshareCmd want --nodes and --threshold, the first
\* also --period; the others want --connect.
FlagsValid ==
    /\ ShareArgsValid
    /\ IF flag.lead
       THEN flag.nodes # 0 /\ flag.thr # 0 /\ (flag.reshare \/ flag.period # 0)
       ELSE flag.connect

\* InitDKGLeader, InitReshareLeader, InitDKG and InitReshare of the control
\* client: durations become whole seconds.
Request ==
    [NoPacket EXCEPT
       !.lead = flag.lead, !.reshare = flag.reshare,
       !.nodes = IF flag.lead THEN flag.nodes ELSE 0,
       !.thr = IF flag.lead THEN flag.thr ELSE 0,
       !.period = IF flag.lead /\ ~flag.reshare THEN Seconds(flag.period) ELSE 0,
       !.changed = flag.lead /\ flag.reshare /\ flag.catchup # NotGiven,
       !.catchup = IF flag.lead /\ flag.catchup # NotGiven
                   THEN Seconds(flag.catchup) ELSE 0,
       !.offset = IF flag.lead THEN flag.delay ELSE 0]

ShareCmd ==
    /\ at = "cli"
    /\ IF FlagsValid THEN at' = "daemon" /\ packet' = Request
       ELSE at' = "error" /\ UNCHANGED packet
    /\ UNCHANGED <<flag, wall, newGroup>>

\* Mutant: no minimum.
InitPacketSmall == packet.thr \in 1 .. packet.nodes

\* validInitPacket
InitPacketValid == packet.thr \in MinimumThreshold(packet.nodes) .. packet.nodes

\* newDKGSetup, and newReshareSetup, which takes the old group's periods.
StartSetup ==
    /\ at = "daemon" /\ packet.lead
    /\ IF InitPacketValid
       THEN /\ at' = "setup"
            /\ packet' = IF packet.reshare
                 THEN [packet EXCEPT
                         !.period = Seconds(OldGroup.period),
                         !.catchup = IF packet.changed THEN packet.catchup
                                     ELSE Seconds(OldGroup.catchup),
                         !.offset = IF packet.offset = 0 THEN ReshareOffset ELSE packet.offset]
                 ELSE [packet EXCEPT
                         !.offset = IF packet.offset = 0 THEN GenesisOffset ELSE packet.offset]
       ELSE at' = "error" /\ UNCHANGED packet
    /\ UNCHANGED <<flag, wall, newGroup>>

\* A participant's command waits for the leader's group: see GroupSetup.
Join ==
    /\ at = "daemon" /\ ~packet.lead /\ at' = "done"
    /\ UNCHANGED <<flag, packet, wall, newGroup>>

Total == DKGTimeout * 3 + packet.offset

\* The genesis of a fresh chain: the next multiple of the period.
GenesisAfter(t, p) == t + (p - (t % p))

\* createAndSend, once all keys are there.  A period of 0 s makes the modulo
\* of the genesis computation panic and the daemon with it.
CreateAndSend ==
    /\ at = "setup"
    /\ LET keys == [i \in 1 .. packet.nodes |-> i]
           New(genesis) == NewGroup(keys, packet.thr, genesis, packet.period * 1000,
                                    packet.catchup * 1000)
       IN  IF packet.reshare
           THEN /\ newGroup' = <<[New(OldGroup.genesis) EXCEPT
                      !.transition = Time!NextRound(wall + Total, packet.period,
                                                    OldGroup.genesis).time,
                      !.seed = WithSeed(OldGroup).seed]>>
                /\ at' = "created"
           ELSE IF packet.period = 0 THEN at' = "crash" /\ UNCHANGED newGroup
           ELSE /\ newGroup' = <<New(GenesisAfter(wall + Total, packet.period))>>
                /\ at' = "created"
    /\ UNCHANGED <<flag, packet, wall>>

\* The assertions of InitReshare on the new group, then the push.
CheckNewGroup ==
    /\ at = "created"
    /\ LET g == Head(newGroup)
       IN  at' = IF packet.reshare /\ ~(/\ OldGroup.genesis = g.genesis
                                        /\ OldGroup.genesis <= wall
                                        /\ OldGroup.period = g.period
                                        /\ g.transition >= wall
                                        /\ g.seed = WithSeed(OldGroup).seed)
                 THEN "error" ELSE "done"
    /\ UNCHANGED <<flag, packet, wall, newGroup>>

CmdNext == ShareCmd \/ StartSetup \/ Join \/ CreateAndSend \/ CheckNewGroup

CmdSpec == CmdInit /\ [][CmdNext]_cmdVars

\* Whatever flags pass the checks of the command and of the daemon, the group
\* that comes out is one every participant accepts (GroupFromProto) and can
\* read back from its file (FromTOML), or the request was refused - with one
\* exception: a leader's period below a second is cut to 0 and crashes the
\* daemon in createAndSend.
UsableOrRefused ==
    /\ at = "crash" => flag.period \in 1 .. 999
    /\ \A i \in DOMAIN newGroup :
          ProtoValid(ToProto(newGroup[i])) /\ TOMLValid(TOML(newGroup[i]))

\* The first moment the new group acts on, its genesis or its transition, is
\* the start of a round, and comes after the three DKG phases and the delay
\* asked for are over, however the clock stands to the period.
RoomForDKG ==
    \A i \in DOMAIN newGroup :
        LET g == newGroup[i]
            p == g.period \div 1000
            start == IF packet.reshare THEN g.transition ELSE g.genesis
        IN  /\ start >= wall + Total
            /\ IF packet.reshare THEN (start - g.genesis) % p = 0 ELSE start % p = 0

\* A resharing keeps the chain's parameters whatever flags come with it: the
\* period flag is ignored, and the catchup period changes only on request.
ReshareKeepsChain ==
    \A i \in DOMAIN newGroup :
        packet.reshare =>
            /\ newGroup[i].period = OldGroup.period
            /\ newGroup[i].catchup = IF flag.catchup = NotGiven THEN OldGroup.catchup
                                 ELSE Seconds(flag.catchup) * 1000

(***************************************************************************)
(* A setup command that is not refused leads to a usable group, at a       *)
(* moment that can be met, on the same chain.                              *)
(***************************************************************************)
CommandIsSound ==
    /\ UsableOrRefused
    /\ RoomForDKG
    /\ ReshareKeepsChain
=============================================================================
