---------------------------- MODULE HostNetworks ----------------------------
(***************************************************************************)
(* The libvirt networks of a VM deployment and the OVS bridges under them  *)
(* (pkg/vm/network.go), with the firewall backend libvirt must run with    *)
(* before it can start a NAT network on a Debian-like host.                *)
(***************************************************************************)
EXTENDS Naturals

CONSTANTS
  NumNat,       \* the networks in the order they are made: NAT ones first,
  NumOVS,       \* then the configured ones on an OVS bridge,
  NumChannels,  \* then the host-to-DPU channels, an OVS bridge each
  DebianLike    \* TRUE on a host whose libvirt needs the other backend

ASSUME NetworkAssumption ==
  /\ NumNat \in Nat \ {0} /\ NumOVS \in Nat /\ NumChannels \in Nat \ {0}
  /\ DebianLike \in BOOLEAN

NumNets == NumNat + NumOVS + NumChannels
Net == 1..NumNets
IsNat(n) == n <= NumNat
IsChannel(n) == n > NumNat + NumOVS

VARIABLES
  conf, backend,  \* the firewall backend: network.conf's, running libvirt's
  net,            \* the libvirt networks: "absent", "defined", "active"
  bridge          \* the OVS bridges: "absent", "down", "up"

networkVars == <<conf, backend, net, bridge>>

NetworkTypeOK ==
  /\ conf \in {"old", "new"} /\ backend \in {"old", "new"}
  /\ net \in [Net -> {"absent", "defined", "active"}]
  /\ bridge \in [{n \in Net : ~IsNat(n)} -> {"absent", "down", "up"}]

NetworkInit ==
  /\ conf = "old" /\ backend = "old"
  /\ net = [n \in Net |-> "absent"]
  /\ bridge = [n \in {m \in Net : ~IsNat(m)} |-> "absent"]

-----------------------------------------------------------------------------
(* ensureLibvirtNATFirewallBackend acts on the file alone: the service is  *)
(* restarted only by the run that changes it.                              *)
MustConfigure == DebianLike /\ conf = "old"
InstallConf == conf' = "new" /\ UNCHANGED <<backend, net, bridge>>
RestartLibvirt == backend' = conf /\ UNCHANGED <<conf, net, bridge>>

(* A file installed by a run whose restart failed, or that was killed      *)
(* before it.                                                              *)
StaleBackend == DebianLike /\ conf # backend

-----------------------------------------------------------------------------
(* CreateNetwork skips a network that is there, started or not;            *)
(* CreateHostToDPUNetwork fails on one.                                    *)
Exists(n) == net[n] # "absent"

(* CreateOVSBridge: a bridge that is there is taken as it is.              *)
AddBridge(n) ==
  /\ bridge' = [bridge EXCEPT ![n] = IF @ = "absent" THEN "up" ELSE @]
  /\ UNCHANGED <<conf, backend, net>>

(* ip link set up failed, on a bridge just added.                          *)
AddBridgeDown(n) ==
  /\ bridge[n] = "absent" /\ bridge' = [bridge EXCEPT ![n] = "down"]
  /\ UNCHANGED <<conf, backend, net>>

(* libvirt cannot probe and fill the nat table with the wrong backend.     *)
CanStart(n) == (DebianLike /\ IsNat(n)) => backend = "new"

SetNetwork(n, s) == net' = [net EXCEPT ![n] = s] /\ UNCHANGED <<conf, backend, bridge>>

DeleteBridge(n) ==
  bridge' = [bridge EXCEPT ![n] = "absent"] /\ UNCHANGED <<conf, backend, net>>

(* What the interfaces of a VM are plugged into when it starts.            *)
Pluggable == \A n \in Net : net[n] = "active" /\ (~IsNat(n) => bridge[n] # "absent")
=============================================================================
