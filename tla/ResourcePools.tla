----------------------------- MODULE ResourcePools -----------------------------
(***************************************************************************)
(* How the simulated VFs of a DPU host are shared out: the normalisation   *)
(* and validation of a HostToDpu network (pkg/config) and the resource     *)
(* pools the device plugin builds from it (pkg/deviceplugin).  A host data *)
(* interface eth0-<i> is its index i.                                      *)
(***************************************************************************)
EXTENDS Integers

GatewayIndex            == 0   \* dpusim.HostGatewayInterfaceIndex
DefaultMgmtPortVFsCount == 2

-----------------------------------------------------------------------------
(* Config.validateAndSetDefaults, HostToDpu networks, with offload_dpu. *)

NormNumPairs(np) == IF np <= 0 THEN 1 ELSE np
Available(np)    == NormNumPairs(np) - 2
NormUplink(u)    == IF u < 0 THEN 0 ELSE u

AtMost(x, y)  == IF x > y THEN y ELSE x
AtLeast(x, y) == IF x < y THEN y ELSE x

(* defaultDPUHostMgmtPortVFs *)
DefaultMgmt(np) == IF Available(np) <= 0 THEN 0 ELSE AtMost(DefaultMgmtPortVFsCount, Available(np))

NormMgmt(np, m, u) ==
  IF m > 0 THEN m
  ELSE AtLeast(AtMost(DefaultMgmt(np), Available(np) - NormUplink(u)), 0)

\* Mutant: the budget forgets that the gateway interface takes an index.
AcceptedCountsGateway(np, m, u) ==
  /\ m > 0 => m <= Available(np)
  /\ u >= 0
  /\ NormMgmt(np, m, u) >= 1
  /\ NormUplink(u) > 0 => NormUplink(u) <= Available(np) + 1 - NormMgmt(np, m, u)

(* The network raises none of the errors of the VF counts.  The last check  *)
(* is skipped when the mgmt count is over budget, which the first reports.  *)
Accepted(np, m, u) ==
  /\ m > 0 => m <= Available(np)
  /\ u >= 0
  /\ NormMgmt(np, m, u) >= 1
  /\ NormUplink(u) > 0 /\ NormMgmt(np, m, u) <= Available(np)
       => NormUplink(u) <= Available(np) - NormMgmt(np, m, u)

(* DPUHostUplinkInterfaces: what FRR is told to use as uplinks. *)
IsUplinkVF(m, u, i) == m + 1 <= i /\ i <= m + u

-----------------------------------------------------------------------------
(* BuildResourcePools.  numPairs = 0 stands for an unset NUM_PAIRS. *)

MgmtVFStart == GatewayIndex + 1

\* Mutant: the pod range starts right after the mgmt range.
PodVFStartIgnoresUplink(m, u) == m + 1

PodVFStart(m, u) == m + u + 1

PoolsBuild(m, u, np) == m >= 1 /\ u >= 0 /\ ~(np > 0 /\ np - 1 < PodVFStart(m, u))

(* hostDataIfIndex refuses the gateway and anything below. *)
IsHostDataVF(i) == i > GatewayIndex

InMgmtPool(m, i) == IsHostDataVF(i) /\ MgmtVFStart <= i /\ i <= m

\* Mutant: the last VF of num_pairs is left out.
InPodPoolShort(m, u, np, i) ==
  IsHostDataVF(i) /\ PodVFStart(m, u) <= i /\ (np > 0 => i < np - 1)

(* podVFMatcher *)
InPodPool(m, u, np, i) ==
  IsHostDataVF(i) /\ PodVFStart(m, u) <= i /\ (np > 0 => i <= np - 1)
=============================================================================
