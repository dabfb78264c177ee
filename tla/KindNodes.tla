------------------------------ MODULE KindNodes ------------------------------
(***************************************************************************)
(* The nodes of a Kind deployment with an offloaded DPU: P host nodes in   *)
(* one cluster, each paired with a DPU node in the other.                  *)
(***************************************************************************)
EXTENDS Naturals

CONSTANT P      \* the pairs are 1..P, as GetHostDPUPairs orders them

ASSUME PairsAssumption == P \in Nat \ {0}

Pair == 1..P
Cluster == {"host", "dpu"}
=============================================================================
