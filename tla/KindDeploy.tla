----------------------------- MODULE KindDeploy -----------------------------
(***************************************************************************)
(* Successive runs of dpu-sim in Kind mode with an offloaded DPU and a     *)
(* local registry (cmd/dpu-sim/main.go, pkg/kind): registry, clean-up,     *)
(* clusters, registry connection, gateway network and routing, veth        *)
(* channels, CNI.  Every command may fail, the process may be killed       *)
(* between two commands, and a run begins with what the last ones left.    *)
(***************************************************************************)
EXTENDS VethTopology, GatewayNetwork, LocalRegistry

CONSTANTS
  Debug,      \* TRUE with --log-level debug
  MaxFaults   \* bound: failing commands, kills, registry stops in all

ASSUME KindAssumption ==
  /\ Debug \in BOOLEAN /\ MaxFaults \in Nat

(* The clusters in the order of the configuration.                         *)
Order == <<"host", "dpu">>

Flags == [cleanup : BOOLEAN, only : BOOLEAN, deploy : BOOLEAN]
RealFlags == {f \in Flags : f.only => f.cleanup /\ f.deploy}

Steps == {"idle", "start", "ready", "push", "reuse", "unroute", "delete", "netrm",
          "regstop", "create", "connect", "nodes", "cleanlinks", "network",
          "attach", "route", "add", "stage", "address", "cni"}

(* How a run ends.  "unready": with an error too, as the images could not  *)
(* be pushed to a registry that an earlier run started and that does not   *)
(* answer yet.                                                             *)
Results == {"none", "done", "failed", "killed", "unready"}

VARIABLES
  pc, at,       \* the step of the run in progress, and the element of its loop
  idx, stage,   \* the channel and the stage createDataVeths is at
  flags,        \* the flags of the run
  result,       \* how the last run ended
  errors,       \* TRUE when this run's clean-up collected an error
  cluster,      \* the Kind clusters: "absent", "partial", "ready"
  faulted,      \* TRUE when a command of this run failed
  failedEver,   \* TRUE when a command of any run failed
  faults

own == <<flags, failedEver, faults>>
vars == <<pc, at, idx, stage, flags, result, errors, cluster, faulted,
          failedEver, faults, veth, gatewayVars, registryVars>>

TypeOK ==
  /\ pc \in Steps
  /\ at \in 1..(Len(SetupOrder) + P + 2) /\ idx \in Idx /\ stage \in 1..Len(Stages)
  /\ flags \in RealFlags /\ result \in Results
  /\ errors \in BOOLEAN /\ faulted \in BOOLEAN /\ failedEver \in BOOLEAN
  /\ faults \in 0..MaxFaults
  /\ cluster \in [Cluster -> {"absent", "partial", "ready"}]
  /\ veth \subseteq Veth
  /\ gateway \in BOOLEAN
  /\ dpuIP \in [Pair -> 0..MaxIP] /\ hostIP \in [Pair -> 0..MaxIP]
  /\ rules \subseteq RuleKinds /\ oldRules \subseteq RuleKinds
  /\ reg \in {"absent", "stopped", "booting", "ready"}
  /\ onKind \in BOOLEAN /\ images \in BOOLEAN
  /\ hosts \in [Cluster -> {"none", "current", "stale"}]

Init ==
  /\ pc = "idle" /\ at = 1 /\ idx = 0 /\ stage = 1
  /\ flags = [cleanup |-> TRUE, only |-> FALSE, deploy |-> TRUE]
  /\ result = "none" /\ errors = FALSE /\ faulted = FALSE /\ failedEver = FALSE
  /\ faults = 0
  /\ cluster = [c \in Cluster |-> "absent"]
  /\ veth = {}
  /\ gateway = FALSE /\ dpuIP = [d \in Pair |-> 0] /\ hostIP = [d \in Pair |-> 0]
  /\ rules = {} /\ oldRules = {}
  /\ reg = "absent" /\ onKind = FALSE /\ images = FALSE
  /\ hosts = [c \in Cluster |-> "none"]

-----------------------------------------------------------------------------
Goto(step) == pc' = step /\ at' = 1 /\ UNCHANGED <<idx, stage, result, errors>>

(* The next element of a loop of n, or the step after it.                  *)
Advance(n, after) ==
  IF at < n THEN at' = at + 1 /\ UNCHANGED <<pc, idx, stage, result, errors>>
  ELSE Goto(after)

(* The run ends, and the process with it.                                  *)
End(r) ==
  /\ pc' = "idle" /\ at' = 1 /\ idx' = 0 /\ stage' = 1
  /\ result' = r /\ errors' = FALSE

Collect(n, after, error) ==
  /\ IF at < n THEN at' = at + 1 /\ UNCHANGED pc ELSE at' = 1 /\ pc' = after
  /\ errors' = (errors \/ error)
  /\ UNCHANGED <<idx, stage, result>>

Ran == UNCHANGED <<own, faulted>>
Failed ==
  /\ faults < MaxFaults /\ faults' = faults + 1
  /\ faulted' = TRUE /\ failedEver' = TRUE /\ UNCHANGED flags

Done == result = "done"

(* A run that leaves a deployment, and ends in success.                    *)
Deployed == Done /\ flags.deploy /\ ~flags.only

-----------------------------------------------------------------------------
(* The user runs dpu-sim.                                                  *)
Run(f) ==
  /\ pc = "idle" /\ flags' = f /\ result' = "none"
  /\ pc' = IF f.only THEN "unroute" ELSE "start"
  /\ faulted' = FALSE
  /\ UNCHANGED <<at, idx, stage, errors, cluster, failedEver, faults, veth,
                 gatewayVars, registryVars>>

(* RegistryManager.SetupAll: Start, which waits for a container of its own *)
(* but not for one that it reuses, build and push.                         *)
StartRegistry ==
  /\ pc = "start"
  /\ IF Running THEN Goto("reuse") /\ UNCHANGED registryVars
     ELSE Goto("ready") /\ RunContainer
  /\ Ran /\ UNCHANGED <<cluster, veth, gatewayVars>>

RegistryReady ==
  /\ pc = "ready" /\ reg = "ready" /\ Goto("push")
  /\ Ran /\ UNCHANGED <<cluster, veth, gatewayVars, registryVars>>

PushImages ==
  /\ pc \in {"push", "reuse"}
  /\ IF CanPush
     THEN /\ Push
          /\ Goto(IF flags.cleanup THEN "unroute"
                  ELSE IF flags.deploy THEN "create" ELSE "cni")
     ELSE End(IF pc = "reuse" THEN "unready" ELSE "failed") /\ UNCHANGED registryVars
  /\ Ran /\ UNCHANGED <<cluster, veth, gatewayVars>>

-----------------------------------------------------------------------------
(* KindManager.CleanupAll collects the errors of its steps.  Routing goes  *)
(* first, while the networks can be asked for their bridges.               *)
Unroute ==
  /\ pc = "unroute"
  /\ IF gateway THEN DeleteRule(CleanupOrder[at]) /\ Advance(Len(SetupOrder), "delete")
     ELSE Goto("delete") /\ UNCHANGED gatewayVars
  /\ Ran /\ UNCHANGED <<cluster, veth, registryVars>>

ClusterGone(c) == ContainersGone(c) /\ DetachAll(c) /\ NodesGone(c)

DeleteCluster ==
  /\ pc = "delete"
  /\ cluster' = [cluster EXCEPT ![Order[at]] = "absent"]
  /\ IF cluster[Order[at]] # "absent" THEN ClusterGone(Order[at])
     ELSE UNCHANGED <<veth, gatewayVars, registryVars>>
  /\ Advance(2, "netrm") /\ Ran

AfterCleanup == IF flags.only THEN "regstop" ELSE IF flags.deploy THEN "create" ELSE "cni"

(* Removing a network that is not there is no error, if its text can be    *)
(* read: at the debug level RunCmd streams it to the terminal instead.     *)
RemoveGateway ==
  /\ pc = "netrm"
  /\ LET ok == CanRemoveNetwork /\ (gateway \/ ~Debug)
     IN  IF ok /\ ~errors THEN Goto(AfterCleanup) ELSE End("failed")
  /\ IF CanRemoveNetwork THEN RemoveNetwork ELSE UNCHANGED gatewayVars
  /\ Ran /\ UNCHANGED <<cluster, veth, registryVars>>

StopRegistry ==
  /\ pc = "regstop" /\ End("done")
  /\ IF reg # "absent" THEN RemoveContainer ELSE UNCHANGED registryVars
  /\ Ran /\ UNCHANGED <<cluster, veth, gatewayVars>>

-----------------------------------------------------------------------------
(* createCluster takes a cluster that exists as it is.  The kubeconfig of  *)
(* one whose creation was cut short may or may not be there.               *)
CreateCluster ==
  /\ pc = "create"
  /\ LET c == Order[at]
     IN  /\ cluster' = [cluster EXCEPT ![c] = IF @ = "absent" THEN "ready" ELSE @]
         /\ \/ Advance(2, "connect")
            \/ cluster[c] = "partial" /\ End("failed")
  /\ Ran /\ UNCHANGED <<veth, gatewayVars, registryVars>>

ConnectRegistry ==
  /\ pc = "connect"
  /\ IF Running THEN Connect /\ Goto("nodes")
     ELSE End("failed") /\ UNCHANGED registryVars
  /\ Ran /\ UNCHANGED <<cluster, veth, gatewayVars>>

(* InstallDependencies and ConfigureRegistryOnNode on a cluster's nodes.   *)
ConfigureNodes ==
  /\ pc = "nodes"
  /\ ConfigureNode(Order[at]) /\ Advance(2, "cleanlinks")
  /\ Ran /\ UNCHANGED <<cluster, veth, gatewayVars>>

(* SetupHostToDpuNetwork.                                                  *)
CleanupVeths ==
  /\ pc = "cleanlinks" /\ CleanLinks /\ Goto("network")
  /\ Ran /\ UNCHANGED <<cluster, gatewayVars, registryVars>>

EnsureNetwork ==
  /\ pc = "network" /\ CreateNetwork /\ Goto("attach")
  /\ Ran /\ UNCHANGED <<cluster, veth, registryVars>>

AttachDPU ==
  /\ pc = "attach" /\ Attach(at) /\ Advance(P, "route")
  /\ Ran /\ UNCHANGED <<cluster, veth, registryVars>>

Route ==
  /\ pc = "route" /\ EnsureRule(SetupOrder[at]) /\ Advance(Len(SetupOrder), "add")
  /\ Ran /\ UNCHANGED <<cluster, veth, registryVars>>

(* createDataVeths, for pair at.                                           *)
AddVeth ==
  /\ pc = "add"
  /\ IF CanAdd(at, idx)
     THEN Add(at, idx) /\ pc' = "stage" /\ UNCHANGED <<at, idx, stage, result, errors>>
     ELSE End("failed") /\ UNCHANGED veth
  /\ Ran /\ UNCHANGED <<cluster, gatewayVars, registryVars>>

AfterChannel ==
  /\ stage' = 1
  /\ IF idx + 1 < NumPairs THEN pc' = "add" /\ idx' = idx + 1
     ELSE pc' = "address" /\ idx' = 0
  /\ UNCHANGED <<at, result, errors>>

StageVeth ==
  /\ pc = "stage"
  /\ IF CanStage(at, idx, Stages[stage])
     THEN /\ Stage(at, idx, Stages[stage])
          /\ IF stage < Len(Stages)
             THEN stage' = stage + 1 /\ UNCHANGED <<pc, at, idx, result, errors>>
             ELSE AfterChannel
     ELSE End("failed") /\ UNCHANGED veth
  /\ Ran /\ UNCHANGED <<cluster, gatewayVars, registryVars>>

AssignAddress ==
  /\ pc = "address" /\ AssignHostIP(at)
  /\ IF at < P THEN pc' = "add" /\ at' = at + 1 /\ UNCHANGED <<idx, stage, result, errors>>
     ELSE Goto("cni")
  /\ Ran /\ UNCHANGED <<cluster, veth, registryVars>>

(* KindManager.InstallCNI needs every cluster.                             *)
InstallCNI ==
  /\ pc = "cni"
  /\ End(IF \A c \in Cluster : cluster[c] # "absent" THEN "done" ELSE "failed")
  /\ Ran /\ UNCHANGED <<cluster, veth, gatewayVars, registryVars>>

-----------------------------------------------------------------------------
(* A command whose error the run returns at once.  A cluster whose         *)
(* creation fails is deleted by kind itself.                               *)
CommandFails ==
  /\ pc \in Steps \ {"idle", "unroute", "delete", "netrm", "regstop", "cleanlinks"}
  /\ Failed /\ End("failed")
  /\ UNCHANGED <<cluster, veth, gatewayVars, registryVars>>

(* A rule that cannot be looked up or deleted is left; when a network      *)
(* cannot be inspected all are.  No error is returned.                     *)
UnrouteFails ==
  /\ pc = "unroute" /\ gateway /\ Failed
  /\ \/ Advance(Len(SetupOrder), "delete")
     \/ at = 1 /\ Goto("delete")
  /\ UNCHANGED <<cluster, veth, gatewayVars, registryVars>>

(* A list of clusters that fails is taken for an empty one: no error.      *)
DeleteFails ==
  /\ pc = "delete" /\ cluster[Order[at]] # "absent" /\ Failed
  /\ \/ Collect(2, "netrm", TRUE) /\ cluster' \in {cluster, [cluster EXCEPT ![Order[at]] = "partial"]}
     \/ Collect(2, "netrm", FALSE) /\ UNCHANGED cluster
  /\ UNCHANGED <<veth, gatewayVars, registryVars>>

RemoveGatewayFails ==
  /\ pc = "netrm" /\ gateway /\ Failed /\ End("failed")
  /\ UNCHANGED <<cluster, veth, gatewayVars, registryVars>>

StopRegistryFails ==
  /\ pc = "regstop" /\ Failed /\ End("done")
  /\ UNCHANGED <<cluster, veth, gatewayVars, registryVars>>

(* GetClusterInfo fails, or returns no nodes: a warning, and the nodes are *)
(* not configured.  The deletion of a leftover link fails: not noticed.    *)
NodesSkipped ==
  /\ pc = "nodes" /\ Failed /\ Advance(2, "cleanlinks")
  /\ UNCHANGED <<cluster, veth, gatewayVars, registryVars>>
CleanupVethsFails ==
  /\ pc = "cleanlinks" /\ Failed /\ Goto("network")
  /\ UNCHANGED <<cluster, veth, gatewayVars, registryVars>>

(* The process is killed, in the middle of a creation perhaps.             *)
Kill ==
  /\ pc # "idle" /\ faults < MaxFaults /\ faults' = faults + 1
  /\ End("killed")
  /\ \/ UNCHANGED cluster
     \/ /\ \/ pc = "create" /\ cluster[Order[at]] = "absent"
           \/ pc = "delete" /\ cluster[Order[at]] = "ready"
        /\ cluster' = [cluster EXCEPT ![Order[at]] = "partial"]
  /\ UNCHANGED <<flags, faulted, failedEver, veth, gatewayVars, registryVars>>

(* The registry comes up while the run polls it or after it gave up, and   *)
(* may be stopped by somebody else.                                        *)
RegistryBoots ==
  /\ BecomesReady
  /\ UNCHANGED <<pc, at, idx, stage, flags, result, errors, cluster, faulted,
                 failedEver, faults, veth, gatewayVars>>
RegistryStops ==
  /\ pc = "idle" /\ faults < MaxFaults /\ faults' = faults + 1 /\ Stops
  /\ UNCHANGED <<pc, at, idx, stage, flags, result, errors, cluster, faulted,
                 failedEver, veth, gatewayVars>>

-----------------------------------------------------------------------------
SetupRegistry == StartRegistry \/ RegistryReady \/ PushImages
Cleanup == Unroute \/ DeleteCluster \/ RemoveGateway \/ StopRegistry
DeployClusters == CreateCluster \/ ConnectRegistry \/ ConfigureNodes
SetupGateway == CleanupVeths \/ EnsureNetwork \/ AttachDPU \/ Route
CreateVeths == AddVeth \/ StageVeth \/ AssignAddress

Process == \/ SetupRegistry \/ Cleanup \/ DeployClusters \/ SetupGateway
           \/ CreateVeths \/ InstallCNI

Disturbance ==
  \/ CommandFails \/ UnrouteFails \/ DeleteFails \/ RemoveGatewayFails
  \/ StopRegistryFails \/ NodesSkipped \/ CleanupVethsFails
  \/ Kill \/ RegistryBoots \/ RegistryStops

Next == (\E f \in RealFlags : Run(f)) \/ Process \/ Disturbance

Spec == Init /\ [][Next]_vars

-----------------------------------------------------------------------------
(* The application is idempotent by default (README of dpu-sim): whatever  *)
(* kills, failures and --skip-cleanup runs left on the host, a run that    *)
(* cleans up first, and in which no command fails by itself, succeeds.     *)
(* One case is excepted, "unready": the run aborts when the registry it    *)
(* reuses was started by a run killed or failed before it answered, and    *)
(* does not answer yet.                                                    *)
IdempotentByDefault ==
  flags.cleanup /\ flags.deploy /\ ~faulted => result # "failed"

(* A deployment that succeeds is whole, even when commands whose errors    *)
(* are ignored failed and even over leftovers: every channel has both ends *)
(* up under their final names, every DPU is attached and every host has an *)
(* address, and all rules are there for the bridge there is now.  When     *)
(* nothing failed, the registry holds the images and every node pulls from *)
(* the address the registry has now.                                       *)
RegistryReachable == onKind /\ images /\ \A c \in Cluster : hosts[c] = "current"
DeploymentComplete ==
  Deployed =>
    /\ \A p \in Pair, i \in Idx : Complete(p, i)
    /\ gateway /\ Attached = Pair /\ \A p \in Pair : hostIP[p] # 0
    /\ rules = RuleKinds
    /\ ~faulted => RegistryReachable

(* In the gateway subnet no host's address is the bridge's, a DPU's or     *)
(* another host's, at any time and over any number of runs.                *)
AddressesDistinct ==
  \A p \in Pair : hostIP[p] # 0 =>
     /\ hostIP[p] # 1
     /\ \A q \in Pair : hostIP[p] # dpuIP[q] /\ (p # q => hostIP[p] # hostIP[q])

(* Kills alone never leak a routing rule: as long as no command has failed,*)
(* no rule names a removed bridge, and none is left without the network.   *)
KillsNeverLeak ==
  ~failedEver => oldRules = {} /\ (~gateway => rules = {})

(* A channel in service is never taken away, or renamed, but with a        *)
(* container at one of its ends: not by a rerun that skips the clean-up.   *)
EstablishedLinksSurvive ==
  [][\A v \in veth : v.host = "up" /\ v.dpu = "up" /\ v \notin veth' =>
        \E c \in Cluster : cluster[c] # "absent" /\ cluster'[c] = "absent"]_vars
=============================================================================
