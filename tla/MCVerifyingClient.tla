-------------------------- MODULE MCVerifyingClient --------------------------
(* A chain of four rounds, signatures 11 to 14 after the genesis 10, and a  *)
(* second branch from round 2 on that the same group signed.               *)
EXTENDS VerifyingClient

MCSigs == 11 .. 14 \cup 22 .. 24
MCSigns(s) == <<s - 1, IF s < 20 THEN s - 10 ELSE s - 20>>
MCOnChain == [n \in 0 .. 4 |-> 10 + n]
MCNoTrust == [round |-> 0, sig |-> 0]
MCTrusted == {MCNoTrust} \cup {[round |-> n, sig |-> 10 + n] : n \in 1 .. 2}
==============================================================================
