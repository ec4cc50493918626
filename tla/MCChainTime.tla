----------------------------- MODULE MCChainTime -----------------------------
(* The instance of ChainTime that TLC checks.                              *)
EXTENDS ChainTime

MCPeriods == 1 .. 9
MCGeneses == {0, 1, 5, 20}
=============================================================================
