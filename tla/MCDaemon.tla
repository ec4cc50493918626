------------------------------ MODULE MCDaemon -------------------------------
(* The daemon's commands and files: the setup of a group, the life cycle of   *)
(* the daemon, the commands of the operator, the files of keys and groups, and *)
(* the integration harness.  They are checked one at a time: focus names the  *)
(* one that moves, the others stay in an initial state.                       *)
EXTENDS MCGroupSetup, Daemon, GroupFile, KeyFiles, Commands, Orchestrator

CONSTANTS t1, t2, f1, f2

\* The commands are interchangeable, and so are the follow requests.
DaemonSymmetry == Permutations({t1, t2}) \cup Permutations({f1, f2})

MCNotGiven == -1
MCOldGroup == [NewGroup(<<1, 2, 3>>, 2, 30, 3000, 1000) EXCEPT !.dist = <<0, 12>>]
AnyFlags == CHOOSE fl \in Flags : TRUE

VARIABLE focus

Init ==
    /\ focus \in {"setup", "daemon", "group", "keys", "commands", "harness"}
    /\ SetupInit /\ (focus # "setup" => <<old, wrongSecret, expected>> = <<{}, {}, 2>>)
    /\ DaemonInit /\ GFInit /\ KeyInit /\ OrchInit
    /\ CmdInit /\ (focus # "commands" => wall = 20 /\ flag = AnyFlags)

SetupStep ==
    /\ focus = "setup" /\ SetupNext
    /\ UNCHANGED <<focus, daemonVars, gfVars, keyVars, cmdVars, orchVars>>

DaemonStep ==
    /\ focus = "daemon" /\ DaemonNext
    /\ UNCHANGED <<focus, setupVars, gfVars, keyVars, cmdVars, orchVars>>

GroupStep ==
    /\ focus = "group" /\ GFNext
    /\ UNCHANGED <<focus, setupVars, daemonVars, keyVars, cmdVars, orchVars>>

KeyStep ==
    /\ focus = "keys" /\ KeyNext
    /\ UNCHANGED <<focus, setupVars, daemonVars, gfVars, cmdVars, orchVars>>

CommandStep ==
    /\ focus = "commands" /\ CmdNext
    /\ UNCHANGED <<focus, setupVars, daemonVars, gfVars, keyVars, orchVars>>

HarnessStep ==
    /\ focus = "harness" /\ OrchNext
    /\ UNCHANGED <<focus, setupVars, daemonVars, gfVars, keyVars, cmdVars>>

Next ==
    \/ SetupStep \/ DaemonStep \/ GroupStep \/ KeyStep \/ CommandStep \/
       HarnessStep

Spec == Init /\ [][Next]_<<focus, setupVars, daemonVars, gfVars, keyVars, cmdVars, orchVars>>
==============================================================================
