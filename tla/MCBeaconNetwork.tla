-------------------------- MODULE MCBeaconNetwork ----------------------------
(***************************************************************************)
(* The instances of BeaconNetwork that TLC checks.  A signature is a pair: *)
(* the round, and whether it extends the chain from the genesis.  Signing  *)
(* anything but the chain's signature of the round before gives a valid    *)
(* signature that is not on the chain.                                     *)
(***************************************************************************)
EXTENDS BeaconNetwork, TLC

CONSTANTS n1, n2, n3

MCGenesisSig == <<0, TRUE>>
MCNoSig == <<0, FALSE>>
MCSignature == (0 .. MaxRound) \X BOOLEAN
MCSig(r, s) == <<r, s = <<r - 1, TRUE>>>>

TwoNodes == {n1, n2}
ThreeNodes == {n1, n2, n3}
OneFaulty == {n3}

Symmetry == Permutations(Honest)

(* n3 signs the second round on the chain, as early as it likes, ...       *)
SecondPartial == {[round |-> 2, prev |-> <<1, TRUE>>, idx |-> n3]}

(* ... and streams a first beacon with the signature of another one.       *)
InvalidBeacon == {[round |-> 1, prev |-> MCGenesisSig, sig |-> <<1, FALSE>>]}

(* n3 signs the chain as early as it likes.                                *)
EarlyPartial ==
    {[round |-> r, prev |-> <<r - 1, TRUE>>, idx |-> n3] : r \in 1 .. 2}

(* Some behaviours of LiveSpec: the network and the run loops are perfect, *)
(* every message of a tick arrives and is treated before the next tick.    *)
(* Only the workers that run the callbacks of the store are slow.          *)
Busy(n) ==
    \/ tick[n] # << >> \/ catchup[n] # << >> \/ sleeping[n] # {}
    \/ aggPut[n] # << >> \/ \E m \in msgs : m.to = n

Prompt ==
    \/ \E n \in Honest :
          /\ \A m \in Honest : ~Busy(m) \/ clock[n1] # clock[n2]
          /\ Tick(n) \/ BeaconStored(n) \/ SyncEnd(n) \/ SyncBeacon(n) \/ BeaconSynced(n)
          /\ TimelyTicks
    \/ \E n \in Honest :
          /\ clock[n1] = clock[n2]
          /\ \/ RunTick(n) \/ RunCatchup(n) \/ CatchupBroadcast(n)
             \/ BeaconAppended(n) \/ \E m \in msgs : ReceivePartial(n, m.p)

PromptSpec == Init /\ [][Prompt \/ TickAgain]_vars /\ Fairness
=============================================================================
