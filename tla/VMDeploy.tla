------------------------------ MODULE VMDeploy ------------------------------
(***************************************************************************)
(* Successive runs of dpu-sim in VM mode (runVMDeploymentWorkflow of       *)
(* cmd/dpu-sim/main.go, pkg/vm, pkg/k8s): clean-up, networks, VMs, the     *)
(* kubeadm clusters on them, a bare-metal worker adopted into the first,   *)
(* CNI.  Any command may fail, the process may be killed between two, and  *)
(* a run begins with what the last ones left.  The files of a VM are       *)
(* VMProvision's; here a VM is its domain and the node running in it.      *)
(***************************************************************************)
EXTENDS HostNetworks, BareMetalNode

CONSTANTS
  Masters, Workers,  \* the VMs of the host cluster: control plane, then workers
  MaxFaults          \* bound: failing commands and kills in all

ASSUME DeployAssumption ==
  /\ Masters \in Nat \ {0} /\ Workers \in Nat /\ MaxFaults \in Nat

(* The host cluster's VMs come first, then the DPU cluster's only one.     *)
NumVMs == Masters + Workers + 1
VM == 1..NumVMs
Cluster == {"host", "dpu"}
ClusterOf(v) == IF v = NumVMs THEN "dpu" ELSE "host"
Master(c) == IF c = "host" THEN 1 ELSE NumVMs   \* its first master
GatewayVM == 1                                  \* the DPU's host

Flags == [cleanup : BOOLEAN, only : BOOLEAN, deploy : BOOLEAN, k8s : BOOLEAN]
RealFlags == {f \in Flags : f.only => f.cleanup /\ f.deploy /\ f.k8s}
Default == [cleanup |-> TRUE, only |-> FALSE, deploy |-> TRUE, k8s |-> TRUE]

Steps == {"idle", "kubeconfigs", "conf", "restart", "rmvm", "rmnet", "rmbr",
          "mknet", "define", "startnet", "mkvm", "boot", "gwip", "install",
          "prepare", "init", "save", "masters", "adopt", "workers", "align",
          "ready", "cni", "post", "report"}

VARIABLES
  pc, at,      \* the step of the run in progress, and the element of its loop
  cl,          \* the cluster it sets up
  flags,       \* the flags of the run
  result,      \* how the last run ended
  dom,         \* the VMs' domains: "absent", "defined", "running"
  kube,        \* their kubeadm state: "none", "partial", "current", "old"
  nodeIP,      \* kubelet's --node-ip on them: "default", "written", "used"
  gwIP,        \* TRUE when the DPU's host has its gateway address
  kubeconfig,  \* the files on the host: "none", "current", "old"
  misread,     \* the networks a failed lookup made a clean-up take for absent
  faulted,     \* TRUE when a command of this run failed
  failedEver,  \* TRUE when a command of any run failed
  faults

own == <<flags, failedEver, faults, misread>>
nodes == <<dom, kube, nodeIP, gwIP, kubeconfig>>
vars == <<pc, at, cl, result, faulted, own, nodes, networkVars, bareMetalVars>>

TypeOK ==
  /\ pc \in Steps /\ at \in 1..(NumNets + NumVMs + Len(AdoptStages))
  /\ cl \in Cluster /\ flags \in RealFlags
  /\ result \in {"none", "done", "failed", "killed"}
  /\ dom \in [VM -> {"absent", "defined", "running"}]
  /\ kube \in [VM -> {"none", "partial", "current", "old"}]
  /\ nodeIP \in [VM -> {"default", "written", "used"}]
  /\ gwIP \in BOOLEAN
  /\ kubeconfig \in [Cluster -> {"none", "current", "old"}]
  /\ misread \subseteq Net
  /\ faulted \in BOOLEAN /\ failedEver \in BOOLEAN /\ faults \in 0..MaxFaults
  /\ NetworkTypeOK /\ BareMetalTypeOK

Init ==
  /\ pc = "idle" /\ at = 1 /\ cl = "host" /\ flags = Default /\ result = "none"
  /\ dom = [v \in VM |-> "absent"] /\ kube = [v \in VM |-> "none"]
  /\ nodeIP = [v \in VM |-> "default"] /\ gwIP = FALSE
  /\ kubeconfig = [c \in Cluster |-> "none"]
  /\ faulted = FALSE /\ failedEver = FALSE /\ faults = 0 /\ misread = {}
  /\ NetworkInit /\ BareMetalInit

-----------------------------------------------------------------------------
Goto(step) == pc' = step /\ at' = 1 /\ UNCHANGED <<cl, result>>
Within(step) == pc' = step /\ UNCHANGED <<at, cl, result>>

(* The next element of a loop of n that begins at step, or what follows it.*)
Advance(step, n, after) ==
  IF at < n THEN pc' = step /\ at' = at + 1 /\ UNCHANGED <<cl, result>>
  ELSE Goto(after)

(* The run ends, and the process with it.                                  *)
End(r) == pc' = "idle" /\ at' = 1 /\ cl' = "host" /\ result' = r

Ran == UNCHANGED <<own, faulted>>
Failed ==
  /\ faults < MaxFaults /\ faults' = faults + 1
  /\ faulted' = TRUE /\ failedEver' = TRUE /\ UNCHANGED flags

Errored == Failed /\ UNCHANGED misread

AfterDeploy == IF flags.k8s THEN "install" ELSE "report"
AfterCleanup == IF flags.only THEN "report" ELSE IF flags.deploy THEN "mknet" ELSE AfterDeploy
AfterPrerequisites == IF flags.cleanup THEN "rmvm" ELSE AfterCleanup

-----------------------------------------------------------------------------
(* The user runs dpu-sim: runDeploy's own clean-up is k8s.CleanupAll.      *)
Run(f) ==
  /\ pc = "idle" /\ flags' = f /\ result' = "none"
  /\ pc' = IF f.cleanup THEN "kubeconfigs" ELSE "conf"
  /\ faulted' = FALSE
  /\ UNCHANGED <<at, cl, failedEver, faults, misread, nodes, networkVars, bareMetalVars>>

ForgetNothing == UNCHANGED kubeconfig
ForgetKubeconfigs == kubeconfig' = [c \in Cluster |-> "none"]

CleanKubeconfigs ==
  /\ pc = "kubeconfigs" /\ ForgetKubeconfigs /\ Goto("conf")
  /\ Ran /\ UNCHANGED <<dom, kube, nodeIP, gwIP, networkVars, bareMetalVars>>

(* EnsureHostNetworkPrerequisites.                                         *)
Configure ==
  /\ pc = "conf"
  /\ IF MustConfigure THEN InstallConf /\ Goto("restart")
     ELSE Goto(AfterPrerequisites) /\ UNCHANGED networkVars
  /\ Ran /\ UNCHANGED <<nodes, bareMetalVars>>

Restart ==
  /\ pc = "restart" /\ RestartLibvirt /\ Goto(AfterPrerequisites)
  /\ Ran /\ UNCHANGED <<nodes, bareMetalVars>>

-----------------------------------------------------------------------------
(* VMManager.CleanupAll: the VMs, then the networks; errors are collected, *)
(* and the workflow only warns of them.                                    *)
VMGone(v) ==
  /\ dom' = [dom EXCEPT ![v] = "absent"]
  /\ nodeIP' = [nodeIP EXCEPT ![v] = "default"]
  /\ gwIP' = (gwIP /\ v # GatewayVM)
  /\ LET c == ClusterOf(v)
         lost == v = Master(c) /\ kube[v] = "current"
     IN /\ kube' = [w \in VM |-> IF w = v THEN "none"
                                 ELSE IF lost /\ ClusterOf(w) = c THEN Orphan(kube[w])
                                 ELSE kube[w]]
        /\ kubeconfig' = IF lost THEN [kubeconfig EXCEPT ![c] = Orphan(@)] ELSE kubeconfig
        /\ IF lost /\ c = "host" THEN ClusterLost ELSE UNCHANGED bareMetalVars

RemoveVM ==
  /\ pc = "rmvm" /\ Advance("rmvm", NumVMs, "rmnet")
  /\ IF dom[at] = "absent" THEN UNCHANGED <<nodes, bareMetalVars>> ELSE VMGone(at)
  /\ Ran /\ UNCHANGED networkVars

NextNetwork == Advance("rmnet", NumNets, AfterCleanup)

RemoveOnlyExisting ==
  /\ pc = "rmnet" /\ SetNetwork(at, "absent")
  /\ IF IsNat(at) \/ ~Exists(at) THEN NextNetwork ELSE Within("rmbr")
  /\ Ran /\ UNCHANGED <<nodes, bareMetalVars>>

RemoveNetwork ==
  /\ pc = "rmnet" /\ SetNetwork(at, "absent")
  /\ IF IsNat(at) THEN NextNetwork ELSE Within("rmbr")
  /\ Ran /\ UNCHANGED <<nodes, bareMetalVars>>

RemoveBridge ==
  /\ pc = "rmbr" /\ DeleteBridge(at) /\ NextNetwork
  /\ Ran /\ UNCHANGED <<nodes, bareMetalVars>>

(* DeleteNetwork returned an error: its bridge is left alone.              *)
ThenBridge == IF IsNat(at) THEN NextNetwork ELSE Within("rmbr")
SkipBridge == NextNetwork

-----------------------------------------------------------------------------
(* CreateAllNetworks.                                                      *)
CreateNetwork ==
  /\ pc = "mknet"
  /\ IF ~Exists(at)
     THEN /\ Within("define")
          /\ IF IsNat(at) THEN UNCHANGED networkVars ELSE AddBridge(at)
     ELSE /\ UNCHANGED networkVars
          /\ IF IsChannel(at) THEN End("failed") ELSE Advance("mknet", NumNets, "mkvm")
  /\ Ran /\ UNCHANGED <<nodes, bareMetalVars>>

DefineNetwork ==
  /\ pc = "define" /\ SetNetwork(at, "defined") /\ Within("startnet")
  /\ Ran /\ UNCHANGED <<nodes, bareMetalVars>>

StartNetwork ==
  /\ pc = "startnet"
  /\ IF CanStart(at) THEN SetNetwork(at, "active") /\ Advance("mknet", NumNets, "mkvm")
     ELSE End("failed") /\ UNCHANGED networkVars
  /\ Ran /\ UNCHANGED <<nodes, bareMetalVars>>

(* CreateAllVMs: a VM that is there already is an error.                   *)
CreateVM ==
  /\ pc = "mkvm"
  /\ IF dom[at] = "absent" /\ Pluggable
     THEN dom' = [dom EXCEPT ![at] = "running"] /\ Advance("mkvm", NumVMs, "boot")
     ELSE /\ dom' = [dom EXCEPT ![at] = IF @ = "absent" THEN "defined" ELSE @]
          /\ End("failed")
  /\ Ran /\ UNCHANGED <<kube, nodeIP, gwIP, kubeconfig, networkVars, bareMetalVars>>

(* The steps that ask every VM for something: its address, a login, the    *)
(* end of cloud-init; later the packages of InstallKubernetes.             *)
AskVM(step, after) ==
  /\ pc = step
  /\ IF dom[at] = "running" THEN Advance(step, NumVMs, after) ELSE End("failed")
  /\ Ran /\ UNCHANGED <<nodes, networkVars, bareMetalVars>>

WaitForVM == AskVM("boot", "gwip")
InstallKubernetes == AskVM("install", "prepare")

(* AssignDpuHostGatewayIPs: ip addr add fails on an address that is there. *)
AssignGatewayIP ==
  /\ pc = "gwip" /\ gwIP' = TRUE
  /\ IF gwIP THEN End("failed") ELSE Goto(AfterDeploy)
  /\ Ran /\ UNCHANGED <<dom, kube, nodeIP, kubeconfig, networkVars, bareMetalVars>>

-----------------------------------------------------------------------------
(* setupK8sCluster, for the host cluster and then for the DPU's.  OVS on   *)
(* the cluster's VMs first: it leaves no state a later step reads.         *)
Prepare ==
  /\ pc = "prepare" /\ Goto("init")
  /\ Ran /\ UNCHANGED <<nodes, networkVars, bareMetalVars>>

(* kubeadm init refuses a node that has been initialised.                  *)
InitControlPlane ==
  /\ pc = "init"
  /\ LET m == Master(cl)
     IN IF kube[m] = "none" THEN kube' = [kube EXCEPT ![m] = "current"] /\ Goto("save")
        ELSE End("failed") /\ UNCHANGED kube
  /\ Ran /\ UNCHANGED <<dom, nodeIP, gwIP, kubeconfig, networkVars, bareMetalVars>>

SaveKubeconfig ==
  /\ pc = "save" /\ kubeconfig' = [kubeconfig EXCEPT ![cl] = "current"]
  /\ Goto("masters")
  /\ Ran /\ UNCHANGED <<dom, kube, nodeIP, gwIP, networkVars, bareMetalVars>>

(* The VMs that join a cluster after its first master.                     *)
ExtraMasters(c) == IF c = "host" THEN 2..Masters ELSE {}
WorkerVMs(c) == IF c = "host" THEN (Masters + 1)..(Masters + Workers) ELSE {}

JoinVMs(step, vs, after) ==
  /\ pc = step
  /\ IF \A v \in vs : kube[v] = "none" /\ dom[v] = "running"
     THEN kube' = [v \in VM |-> IF v \in vs THEN "current" ELSE kube[v]] /\ Goto(after)
     ELSE End("failed") /\ UNCHANGED kube
  /\ Ran /\ UNCHANGED <<dom, nodeIP, gwIP, kubeconfig, networkVars, bareMetalVars>>

JoinMasters == JoinVMs("masters", ExtraMasters(cl), IF cl = "host" THEN "adopt" ELSE "workers")
JoinWorkers == JoinVMs("workers", WorkerVMs(cl), "align")

(* adoptAndJoinBareMetalWorkers, one stage at a time.                      *)
Stage == AdoptStages[at]
NextStage == Advance("adopt", Len(AdoptStages), "workers")

Adopt ==
  /\ pc = "adopt"
  /\ CASE Stage = "ssh"      -> InstallKey /\ NextStage
       [] Stage = "bootc"    -> ApplyBootc /\ NextStage
       [] Stage = "stop"     -> StopServices /\ NextStage
       [] Stage = "wipe"     -> WipeState /\ NextStage
       [] Stage = "validate" -> /\ UNCHANGED bareMetalVars
                                /\ IF ResetIsValid THEN NextStage ELSE End("failed")
       [] Stage = "nodeip"   -> SetKubeletNodeIP /\ NextStage
       [] Stage = "forward"  -> AllowForwarding /\ NextStage
       [] Stage = "routes"   -> AddRoutes /\ NextStage
       [] Stage = "join"     -> IF CanJoin THEN JoinNode /\ NextStage
                                ELSE End("failed") /\ UNCHANGED bareMetalVars
  /\ Ran /\ UNCHANGED <<nodes, networkVars>>

PatchWorkers(c) == [i \in 1..(IF c = "dpu" THEN 1 ELSE Workers) |->
                      IF c = "dpu" THEN NumVMs ELSE Masters + i]

(* ensureKubeletUsesK8sNodeIP: the workers, the extra masters, and the     *)
(* first master last; flags that are as wanted are not applied again.      *)
PatchOrder(c) ==
  IF c = "dpu" THEN <<NumVMs>>
  ELSE [i \in 1..(Masters + Workers) |->
          IF i <= Workers THEN Masters + i
          ELSE IF i < Masters + Workers THEN i - Workers + 1 ELSE 1]

Align ==
  /\ pc = "align"
  /\ LET v == PatchOrder(cl)[at]
     IN nodeIP' = [nodeIP EXCEPT ![v] = IF @ = "default" THEN "used" ELSE @]
  /\ Advance("align", Len(PatchOrder(cl)), "ready")
  /\ Ran /\ UNCHANGED <<dom, kube, gwIP, kubeconfig, networkVars, bareMetalVars>>

(* WaitAllNodesReady: a bare-metal worker must still reach the master.     *)
NodesReady ==
  /\ pc = "ready"
  /\ IF cl = "host" /\ Joined => routed THEN Goto("cni") ELSE End("failed")
  /\ Ran /\ UNCHANGED <<nodes, networkVars, bareMetalVars>>

(* InstallCNIAndAddons and PostInstallPerCluster: CNIInstall's.            *)
InstallCNI ==
  /\ pc = "cni" /\ UNCHANGED result
  /\ at' = 1
  /\ IF cl = "host" THEN pc' = "prepare" /\ cl' = "dpu" ELSE pc' = "post" /\ UNCHANGED cl
  /\ Ran /\ UNCHANGED <<nodes, networkVars, bareMetalVars>>

PostInstall ==
  /\ pc = "post" /\ Goto("report")
  /\ Ran /\ UNCHANGED <<nodes, networkVars, bareMetalVars>>

Report ==
  /\ pc = "report" /\ End("done")
  /\ Ran /\ UNCHANGED <<nodes, networkVars, bareMetalVars>>

-----------------------------------------------------------------------------
(* A command failed that the workflow only warns of.  A VM or a network    *)
(* that could not be undefined has been stopped.                           *)
CleanupFails ==
  /\ Errored /\ UNCHANGED <<conf, backend, bridge, bareMetalVars, kube, nodeIP, gwIP>>
  /\ \/ /\ pc = "kubeconfigs" /\ Goto("conf")
        /\ \E kept \in {{"host"}, Cluster} :
             kubeconfig' = [c \in Cluster |-> IF c \in kept THEN kubeconfig[c] ELSE "none"]
        /\ UNCHANGED <<dom, net>>
     \/ /\ pc = "rmvm" /\ dom[at] # "absent" /\ Advance("rmvm", NumVMs, "rmnet")
        /\ dom' = [dom EXCEPT ![at] = "defined"] /\ UNCHANGED <<kubeconfig, net>>
     \/ /\ pc = "rmnet" /\ Exists(at) /\ SkipBridge
        /\ net' = [net EXCEPT ![at] = "defined"] /\ UNCHANGED <<kubeconfig, dom>>
     \/ /\ pc = "rmbr" /\ bridge[at] # "absent" /\ NextNetwork
        /\ UNCHANGED <<kubeconfig, dom, net>>

(* DeleteNetwork takes any failed lookup for a network that is not there.  *)
LookupFails ==
  /\ Failed /\ pc = "rmnet" /\ Exists(at) /\ ~IsNat(at)
  /\ misread' = misread \cup {at} /\ Within("rmbr")
  /\ UNCHANGED <<nodes, networkVars, bareMetalVars>>

(* A command failed, and the run with it; some of what it does is done.    *)
Half ==
  \/ pc = "mknet" /\ ~Exists(at) /\ ~IsNat(at) /\ AddBridgeDown(at) /\ UNCHANGED <<nodes, bareMetalVars>>
  \/ /\ pc = "init" /\ kube[Master(cl)] = "none"
     /\ kube' = [kube EXCEPT ![Master(cl)] = "partial"]
     /\ UNCHANGED <<dom, nodeIP, gwIP, kubeconfig, networkVars, bareMetalVars>>
  \/ /\ pc = "align" /\ nodeIP[PatchOrder(cl)[at]] = "default"
     /\ nodeIP' = [nodeIP EXCEPT ![PatchOrder(cl)[at]] = "written"]
     /\ UNCHANGED <<dom, kube, gwIP, kubeconfig, networkVars, bareMetalVars>>
  \/ /\ pc = "adopt" /\ Stage = "forward" /\ InsertForward({"mgmt"})
     /\ UNCHANGED <<key, files, kubelet, extraIP, routed, nodes, networkVars>>

RunFails ==
  /\ Errored /\ End("failed")
  /\ pc \notin {"idle", "kubeconfigs", "rmvm", "rmnet", "rmbr", "report"}
  /\ \/ Half
     \/ UNCHANGED <<nodes, networkVars, bareMetalVars>>

(* systemctl stop kubelet || true: the reset goes on, to its validation.   *)
StopRefused ==
  /\ Errored /\ pc = "adopt" /\ Stage = "stop" /\ kubelet # "stopped" /\ NextStage
  /\ UNCHANGED <<nodes, networkVars, bareMetalVars>>

Kill ==
  /\ pc # "idle" /\ faults < MaxFaults /\ faults' = faults + 1
  /\ End("killed")
  /\ UNCHANGED <<flags, faulted, failedEver, misread, nodes, networkVars, bareMetalVars>>

Cleaning == CleanKubeconfigs \/ RemoveVM \/ RemoveNetwork \/ RemoveBridge
Deploying ==
  \/ Configure \/ Restart
  \/ CreateNetwork \/ DefineNetwork \/ StartNetwork
  \/ CreateVM \/ WaitForVM \/ AssignGatewayIP
Installing ==
  \/ InstallKubernetes \/ Prepare \/ InitControlPlane \/ SaveKubeconfig
  \/ JoinMasters \/ Adopt \/ JoinWorkers \/ Align \/ NodesReady
  \/ InstallCNI \/ PostInstall
Faults == CleanupFails \/ LookupFails \/ RunFails \/ StopRefused \/ Kill

Next ==
  \/ \E f \in RealFlags : Run(f)
  \/ Cleaning \/ Deploying \/ Installing \/ Report
  \/ Faults

Spec == Init /\ [][Next]_vars

-----------------------------------------------------------------------------
Ended == pc = "idle" /\ result \in {"done", "failed"}

(* A run with the default flags in which no command fails ends in success, *)
(* whatever the runs before it left: failed or killed anywhere, a network  *)
(* defined and never started, a bridge left down, VMs half removed, a      *)
(* bare-metal worker still in a cluster that is gone (CleanupAll,          *)
(* resetBareMetalNode).  Excepted is a host whose libvirt was never        *)
(* restarted with the backend its configuration file names.                *)
IdempotentByDefault == Ended /\ flags = Default /\ ~faulted /\ ~StaleBackend => result = "done"

(* A run that ends in success leaves what its flags asked for: every       *)
(* network active on a bridge that exists, every VM running, the gateway   *)
(* address assigned; every VM and the bare-metal worker in the cluster of  *)
(* this deployment, kubelet using the address of the k8s network, and a    *)
(* kubeconfig for that cluster and no other (doVMDeploy, doVMInstallK8s).  *)
InfrastructureComplete == Pluggable /\ gwIP /\ \A v \in VM : dom[v] = "running"
ClustersComplete ==
  /\ \A v \in VM : dom[v] = "running" /\ kube[v] = "current" /\ nodeIP[v] = "used"
  /\ \A c \in Cluster : kubeconfig[c] = "current"
  /\ Joined /\ extraIP
DeploymentComplete ==
  Ended /\ result = "done" /\ ~flags.only =>
    (flags.deploy => InfrastructureComplete) /\ (flags.k8s => ClustersComplete)

(* A clean-up run in which no command fails removes every network, bridge, *)
(* VM and kubeconfig, also those of a deployment cut short between the     *)
(* bridge and its network (CleanupNetworks).                               *)
CleanupComplete ==
  Ended /\ flags.only /\ ~faulted =>
    /\ \A n \in Net : ~Exists(n) /\ (~IsNat(n) => bridge[n] = "absent")
    /\ \A v \in VM : dom[v] = "absent"
    /\ \A c \in Cluster : kubeconfig[c] = "none"

(* As long as no command fails, whenever runs are killed, a kubeconfig on  *)
(* the host is that of a cluster whose control plane is there: it is       *)
(* removed before, and written after (runDeploy, SaveKubeconfigToFile).    *)
KubeconfigHasCluster ==
  ~failedEver => \A c \in Cluster : kubeconfig[c] # "none" =>
    kubeconfig[c] = "current" /\ kube[Master(c)] = "current" /\ dom[Master(c)] = "running"

(* A bare-metal worker that is in the cluster has routes to its VMs, the   *)
(* host forwards between them, and its kubelet uses its own address: the   *)
(* reboot of bootc and the reset come before (adoptAndJoinBareMetalWorkers).*)
MemberIsReachable == Joined => routed /\ Forwarded /\ extraIP

(* A network stands on a bridge at every step of every run: the bridge is  *)
(* made first and removed last, and stays when its network could not be    *)
(* deleted.  Excepted are the networks a failed lookup hid.                *)
NetworkHasBridge == \A n \in Net : Exists(n) /\ ~IsNat(n) => bridge[n] # "absent" \/ n \in misread
=============================================================================
