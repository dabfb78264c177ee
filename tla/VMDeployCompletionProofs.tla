----------------------- MODULE VMDeployCompletionProofs -----------------------
(***************************************************************************)
(* Proofs about VMDeploy: what a successful run leaves, and that a run with*)
(* the default flags in which no command fails succeeds, whatever the runs *)
(* before it left.                                                         *)
(***************************************************************************)
EXTENDS VMDeployProofs

AllRunning == \A v \in VM : dom[v] = "running"
Members(c) == {v \in VM : ClusterOf(v) = c}
Reported == (pc = "report" \/ (pc = "idle" /\ result = "done")) /\ ~flags.only

-----------------------------------------------------------------------------
LEMMA ClusterMembers ==
  /\ \A c \in Cluster : Members(c) = {Master(c)} \cup ExtraMasters(c) \cup WorkerVMs(c)
  /\ \A c \in Cluster : Master(c) \in VM /\ ExtraMasters(c) \subseteq VM /\ WorkerVMs(c) \subseteq VM
  /\ Members("host") \cup Members("dpu") = VM
  /\ Members("dpu") = {NumVMs} /\ NumVMs \notin Members("host")
<1> USE Sizes DEF Members, Master, ExtraMasters, WorkerVMs, ClusterOf, VM, Cluster
<1>1. Members("dpu") = {NumVMs} /\ Members("host") = 1..(Masters + Workers)
  OBVIOUS
<1>2. 1..(Masters + Workers) = {1} \cup (2..Masters) \cup ((Masters + 1)..(Masters + Workers))
  OBVIOUS
<1> HIDE DEF Members
<1> QED BY <1>1, <1>2

LEMMA PatchedAreMembers ==
  ASSUME NEW c \in Cluster, NEW i \in 1..Len(PatchOrder(c))
  PROVE  PatchOrder(c)[i] \in Members(c)
<1>1. CASE c = "dpu"
  <2>1. PatchOrder(c) = <<NumVMs>>
    BY <1>1 DEF PatchOrder
  <2> QED BY <1>1, <2>1, ClusterMembers
<1>2. CASE c = "host"
  <2> DEFINE f == [j \in 1..(Masters + Workers) |->
          IF j <= Workers THEN Masters + j
          ELSE IF j < Masters + Workers THEN j - Workers + 1 ELSE 1]
  <2>1. PatchOrder(c) = f
    BY <1>2 DEF PatchOrder
  <2>2. f \in Seq(Nat) /\ Len(f) = Masters + Workers
    <3>1. DOMAIN f = 1..(Masters + Workers)
      OBVIOUS
    <3>2. f \in Seq(Nat)
      BY Sizes
    <3> QED BY <3>1, <3>2, Sizes
  <2>3. i \in 1..(Masters + Workers)
    BY <2>1, <2>2
  <2>4. f[i] \in 1..(Masters + Workers)
    BY <2>3, Sizes
  <2> QED BY <1>2, <2>1, <2>4, Sizes DEF Members, ClusterOf, VM
<1> QED BY <1>1, <1>2 DEF Cluster

(* ensureKubeletUsesK8sNodeIP leaves no VM of the cluster out.             *)
LEMMA PatchOrderIsComplete ==
  ASSUME NEW c \in Cluster, NEW v \in Members(c)
  PROVE  \E i \in 1..Len(PatchOrder(c)) : PatchOrder(c)[i] = v
<1>1. CASE c = "dpu"
  <2>1. PatchOrder(c) = <<NumVMs>> /\ v = NumVMs
    BY <1>1, ClusterMembers DEF PatchOrder
  <2> QED BY <2>1
<1>2. CASE c = "host"
  <2> DEFINE f == [j \in 1..(Masters + Workers) |->
          IF j <= Workers THEN Masters + j
          ELSE IF j < Masters + Workers THEN j - Workers + 1 ELSE 1]
  <2>1. PatchOrder(c) = f
    BY <1>2 DEF PatchOrder
  <2>2. Len(f) = Masters + Workers
    <3>1. DOMAIN f = 1..(Masters + Workers)
      OBVIOUS
    <3>2. f \in Seq(Nat)
      BY Sizes
    <3> QED BY <3>1, <3>2, Sizes
  <2>3. v \in 1..(Masters + Workers)
    BY <1>2, Sizes DEF Members, ClusterOf, VM
  <2>4. CASE v > Masters
    <3>1. v - Masters \in 1..(Masters + Workers) /\ f[v - Masters] = v
      BY <2>3, <2>4, Sizes
    <3> QED BY <2>1, <2>2, <3>1
  <2>5. CASE v = 1
    <3>1. Masters + Workers \in 1..(Masters + Workers) /\ f[Masters + Workers] = 1
      BY <2>3, <2>5, Sizes
    <3> QED BY <2>1, <2>2, <2>5, <3>1
  <2>6. CASE v \in 2..Masters
    <3>1. v + Workers - 1 \in 1..(Masters + Workers) /\ f[v + Workers - 1] = v
      BY <2>6, Sizes
    <3> QED BY <2>1, <2>2, <3>1
  <2> QED BY <2>3, <2>4, <2>5, <2>6, Sizes
<1> QED BY <1>1, <1>2 DEF Cluster

-----------------------------------------------------------------------------
(* What a deployment has of the infrastructure at each of its steps.       *)
AfterInfrastructure == Known \cup {"install", "post"}
Built ==
  /\ pc = "mkvm" => (at > 1 => Pluggable) /\ \A v \in VM : v < at => dom[v] = "running"
  /\ pc \in {"boot", "gwip"} => Pluggable /\ AllRunning
  /\ flags.deploy /\ (pc \in AfterInfrastructure \/ Reported) => InfrastructureComplete

LEMMA BuiltStep == ASSUME Typed, Bounded, Built, [Next]_vars PROVE Built'
<1> USE DEF Built, AfterInfrastructure, Known, Reported, InfrastructureComplete, AllRunning,
            Pluggable, Goto, Within, Advance, End, Ran, own, nodes, networkVars
<1>a. /\ dom \in [VM -> {"absent", "defined", "running"}]
      /\ flags \in RealFlags
  BY DEF Typed, TypedRun, TypedNodes
<1>b. \A v \in VM : ~(v < 1)
  BY DEF VM
<1>1. ASSUME NEW f \in RealFlags, Run(f) PROVE Built'
  BY <1>1 DEF Run
<1>2. CASE CleanKubeconfigs \/ RemoveVM
  BY <1>2 DEF CleanKubeconfigs, RemoveVM
<1>3. CASE RemoveNetwork \/ RemoveBridge
  BY <1>3, <1>b DEF RemoveNetwork, RemoveBridge, NextNetwork, AfterCleanup, AfterDeploy
<1>4. CASE Configure \/ Restart
  BY <1>4, <1>b DEF Configure, Restart, AfterPrerequisites, AfterCleanup, AfterDeploy
<1>5. CASE CreateNetwork \/ DefineNetwork \/ StartNetwork
  BY <1>5, <1>b DEF CreateNetwork, DefineNetwork, StartNetwork
<1>6. CASE CreateVM
  <2>1. pc = "mkvm" /\ at \in VM /\ UNCHANGED networkVars
    BY <1>6 DEF CreateVM, Bounded, VMLoops, VM
  <2>2. CASE pc' = "idle" /\ result' = "failed"
    BY <2>2
  <2>3. CASE Pluggable /\ dom' = [dom EXCEPT ![at] = "running"] /\ Advance("mkvm", NumVMs, "boot")
    <3>1. \A v \in VM : v <= at => dom'[v] = "running"
      BY <2>1, <2>3, <1>a DEF VM
    <3>2. CASE pc' = "mkvm" /\ at' = at + 1
      BY <2>1, <2>3, <3>1, <3>2 DEF VM
    <3>3. CASE pc' = "boot" /\ ~(at < NumVMs)
      <4>1. \A v \in VM : dom'[v] = "running"
        BY <2>1, <3>1, <3>3, Sizes DEF VM
      <4> QED BY <2>1, <2>3, <3>3, <4>1
    <3> QED BY <2>3, <3>2, <3>3
  <2> QED BY <1>6, <2>2, <2>3 DEF CreateVM
<1>7. CASE WaitForVM
  BY <1>7 DEF WaitForVM, AskVM
<1>8. CASE AssignGatewayIP
  BY <1>8 DEF AssignGatewayIP, AfterDeploy
<1>9. CASE InstallKubernetes \/ Prepare \/ InitControlPlane \/ SaveKubeconfig
  BY <1>9 DEF InstallKubernetes, AskVM, Prepare, InitControlPlane, SaveKubeconfig
<1>10. CASE JoinMasters \/ JoinWorkers
  BY <1>10 DEF JoinMasters, JoinWorkers, JoinVMs
<1>11. CASE Adopt
  <2>1. pc = "adopt" /\ at \in 1..9
    BY <1>11 DEF Adopt, Bounded
  <2>2. Stays \/ End("failed")
    BY <1>11, <2>1, StageByStage DEF StageEffect
  <2> QED BY <1>11, <2>1, <2>2 DEF Adopt, Stays
<1>12. CASE Align \/ NodesReady \/ InstallCNI \/ PostInstall \/ Report
  BY <1>12 DEF Align, NodesReady, InstallCNI, PostInstall, Report
<1>13. CASE CleanupFails
  <2>1. \/ pc' \in {"conf", "rmvm", "rmnet"}
        \/ pc' = AfterCleanup /\ at' = 1
    BY <1>13 DEF CleanupFails, SkipBridge, NextNetwork
  <2>2. UNCHANGED flags
    BY <1>13 DEF CleanupFails, Errored, Failed
  <2> QED BY <2>1, <2>2, <1>b DEF AfterCleanup, AfterDeploy
<1>14. CASE LookupFails \/ RunFails \/ Kill
  BY <1>14 DEF LookupFails, RunFails, Kill
<1>15. CASE StopRefused
  BY <1>15 DEF StopRefused, NextStage, Errored, Failed
<1>16. CASE UNCHANGED vars
  BY <1>16 DEF vars
<1> QED
  BY <1>1, <1>2, <1>3, <1>4, <1>5, <1>6, <1>7, <1>8, <1>9, <1>10, <1>11, <1>12, <1>13, <1>14,
     <1>15, <1>16
  DEF Next, Cleaning, Deploying, Installing, Faults

-----------------------------------------------------------------------------
(* How far the clusters are at each step.  A VM whose kubelet was told its *)
(* address but not restarted is one of a failed run, and no cluster's: a   *)
(* VM that joins has the default.                                          *)
Unpatched == \A v \in VM : kube[v] = "none" => nodeIP[v] = "default"
Joins(v) == kube[v] = "current" /\ nodeIP[v] \in {"default", "used"}
Whole(c) ==
  /\ kubeconfig[c] = "current"
  /\ \A v \in Members(c) : kube[v] = "current" /\ nodeIP[v] = "used"
  /\ c = "host" => Joined
Started == {"save", "masters", "adopt", "workers", "align", "ready", "cni"}

Installed ==
  /\ Unpatched
  /\ cl = "dpu" => pc \in Known \cup {"post", "report"}
  /\ pc \in Started => Joins(Master(cl))
  /\ pc \in Started \ {"save"} => kubeconfig[cl] = "current"
  /\ pc \in Started \ {"save", "masters"} => \A v \in ExtraMasters(cl) : Joins(v)
  /\ pc \in {"align", "ready", "cni"} => \A v \in WorkerVMs(cl) : Joins(v)
  /\ pc \in {"workers", "align", "ready", "cni"} /\ cl = "host" => Joined
  /\ pc = "align" =>
       \A i \in 1..Len(PatchOrder(cl)) : i < at => nodeIP[PatchOrder(cl)[i]] = "used"
  /\ pc \in {"ready", "cni"} => \A v \in Members(cl) : nodeIP[v] = "used"
  /\ pc \in Known \cup {"post"} /\ cl = "dpu" => Whole("host")
  /\ pc = "post" => cl = "dpu" /\ Whole("dpu") /\ AllRunning
  /\ Reported /\ flags.k8s => Whole("host") /\ Whole("dpu") /\ AllRunning

LEMMA InstalledStep ==
  ASSUME Typed, Bounded, Matched, Installed, [Next]_vars
  PROVE  Installed'
<1> USE DEF Goto, Within, Advance, End, Ran, own, nodes
<1>a. /\ kube \in [VM -> {"none", "partial", "current", "old"}] /\ cl \in Cluster
      /\ nodeIP \in [VM -> {"default", "written", "used"}]
      /\ kubeconfig \in [Cluster -> {"none", "current", "old"}]
      /\ flags \in RealFlags
  BY DEF Typed, TypedRun, TypedNodes
<1>b. /\ \A c \in Cluster : Master(c) \in VM /\ ExtraMasters(c) \subseteq VM /\ WorkerVMs(c) \subseteq VM
      /\ \A c \in Cluster : Members(c) = {Master(c)} \cup ExtraMasters(c) \cup WorkerVMs(c)
      /\ \A c \in Cluster : Members(c) \subseteq VM
  BY ClusterMembers DEF Members
<1>c. Unpatched
  BY DEF Installed
(* A step that leaves the clusters alone and begins nothing.               *)
<1>d. ASSUME UNCHANGED <<kube, nodeIP, kubeconfig, cl, flags, bareMetalVars>>,
             cl = "host", pc' \notin Started \cup {"post"}, ~(Reported /\ flags.k8s)'
      PROVE  Installed'
  BY <1>d DEF Installed, Unpatched, Started, Known
(* A run that ends without success.                                        *)
<1>e. ASSUME pc' = "idle", cl' = "host", result' # "done", Unpatched'
      PROVE  Installed'
  BY <1>e DEF Installed, Started, Known, Reported
(* A cluster is whole as long as none of its VMs changes.                  *)
<1>f. ASSUME cl = "dpu", Whole("host"), UNCHANGED <<files, kubelet, kubeconfig["host"]>>,
             \A v \in VM \ {NumVMs} : UNCHANGED <<kube[v], nodeIP[v]>>
      PROVE  Whole("host")'
  BY <1>f, ClusterMembers DEF Whole, Joined, Members
<1>1. ASSUME NEW f \in RealFlags, Run(f) PROVE Installed'
  BY <1>1 DEF Run, Installed, Unpatched, Started, Reported, Known
<1>2. CASE CleanKubeconfigs
  BY <1>2 DEF CleanKubeconfigs, Installed, Unpatched, Started, Reported, Known
<1>3. CASE RemoveVM
  <2>1. pc = "rmvm" /\ pc' \in {"rmvm", "rmnet"} /\ UNCHANGED cl
    BY <1>3 DEF RemoveVM
  <2>2. cl = "host"
    BY <2>1, <1>a DEF Installed, Known, Cluster
  <2>3. Unpatched'
    BY <1>3, <1>a, <1>c DEF RemoveVM, VMGone, Orphan, Unpatched
  <2> QED BY <2>1, <2>2, <2>3 DEF Installed, Started, Reported, Known
<1>4. CASE RemoveNetwork \/ RemoveBridge \/ Configure \/ Restart
  <2>1. pc \in {"rmnet", "rmbr", "conf", "restart"} /\ UNCHANGED <<nodes, cl, flags, result, bareMetalVars>>
    BY <1>4 DEF RemoveNetwork, RemoveBridge, Configure, Restart, NextNetwork
  <2>2. cl = "host"
    BY <2>1, <1>a DEF Installed, Known, Cluster
  <2>3. pc' \in {"rmvm", "rmnet", "rmbr", "restart", AfterCleanup}
    BY <1>4 DEF RemoveNetwork, RemoveBridge, Configure, Restart, NextNetwork, AfterPrerequisites
  <2>4. pc' \notin Started \cup {"post"} /\ ~(Reported /\ flags.k8s)'
    BY <2>1, <2>3 DEF AfterCleanup, AfterDeploy, Started, Reported
  <2> QED BY <2>1, <2>2, <2>4, <1>d
<1>5. CASE CreateNetwork \/ DefineNetwork \/ StartNetwork
  <2>1. pc \in {"mknet", "define", "startnet"} /\ UNCHANGED <<nodes, flags, bareMetalVars>>
    BY <1>5 DEF CreateNetwork, DefineNetwork, StartNetwork
  <2>2. cl = "host"
    BY <2>1, <1>a DEF Installed, Known, Cluster
  <2>3. \/ pc' \in {"mknet", "define", "startnet", "mkvm"} /\ UNCHANGED cl
        \/ pc' = "idle" /\ cl' = "host" /\ result' = "failed"
    BY <1>5 DEF CreateNetwork, DefineNetwork, StartNetwork
  <2> QED BY <2>1, <2>2, <2>3, <1>d DEF Started, Reported
<1>6. CASE CreateVM \/ WaitForVM \/ AssignGatewayIP
  <2>1. /\ pc \in {"mkvm", "boot", "gwip"}
        /\ UNCHANGED <<kube, nodeIP, kubeconfig, flags, bareMetalVars>>
    BY <1>6 DEF CreateVM, WaitForVM, AskVM, AssignGatewayIP
  <2>2. cl = "host"
    BY <2>1, <1>a DEF Installed, Known, Cluster
  <2>3. \/ pc' \in {"mkvm", "boot", "gwip", AfterDeploy} /\ UNCHANGED cl
        \/ pc' = "idle" /\ cl' = "host" /\ result' = "failed"
    BY <1>6 DEF CreateVM, WaitForVM, AskVM, AssignGatewayIP
  <2> QED BY <2>1, <2>2, <2>3, <1>d DEF Started, Reported, AfterDeploy
<1>7. CASE InstallKubernetes
  <2>1. pc = "install" /\ UNCHANGED <<nodes, flags, bareMetalVars>>
    BY <1>7 DEF InstallKubernetes, AskVM
  <2>2. cl = "host"
    BY <2>1, <1>a DEF Installed, Known, Cluster
  <2>3. \/ pc' \in {"install", "prepare"} /\ UNCHANGED cl
        \/ pc' = "idle" /\ cl' = "host" /\ result' = "failed"
    BY <1>7 DEF InstallKubernetes, AskVM
  <2> QED BY <2>1, <2>2, <2>3, <1>d DEF Started, Reported
<1>8. CASE Prepare
  BY <1>8 DEF Prepare, Installed, Unpatched, Started, Reported, Known, Whole, Joined, bareMetalVars
<1>9. CASE InitControlPlane
  <2> DEFINE m == Master(cl)
  <2>0. m \in VM /\ (cl = "dpu" => m = NumVMs)
    BY <1>a, <1>b DEF Master
  <2>1. CASE End("failed") /\ UNCHANGED <<kube, nodeIP>>
    BY <2>1, <1>c, <1>e DEF Unpatched
  <2>2. CASE kube[m] = "none" /\ kube' = [kube EXCEPT ![m] = "current"] /\ Goto("save")
             /\ UNCHANGED <<nodeIP, kubeconfig, bareMetalVars, flags>> /\ pc = "init"
    <3>1. Unpatched' /\ Joins(m)'
      BY <2>0, <2>2, <1>a, <1>c DEF Unpatched, Joins
    <3>2. cl = "dpu" => Whole("host")'
      BY <2>0, <2>2, <1>a, <1>f DEF Installed, Known, bareMetalVars
    <3> HIDE DEF m
    <3>3. Joins(Master(cl))'
      BY <2>2, <3>1 DEF m, Master
    <3> QED BY <2>2, <3>1, <3>2, <3>3 DEF Installed, Started, Reported, Known
  <2> QED BY <1>9, <2>1, <2>2 DEF InitControlPlane
<1>10. CASE SaveKubeconfig
  <2>1. /\ pc = "save" /\ Goto("masters") /\ kubeconfig' = [kubeconfig EXCEPT ![cl] = "current"]
        /\ UNCHANGED <<kube, nodeIP, flags, bareMetalVars>>
    BY <1>10 DEF SaveKubeconfig
  <2>2. Unpatched' /\ Joins(Master(cl))' /\ kubeconfig'[cl] = "current"
    BY <2>1, <1>a, <1>c DEF Unpatched, Joins, Installed, Started, Master
  <2>3. cl = "dpu" => Whole("host")'
    BY <2>1, <1>a, <1>f DEF Installed, Known, bareMetalVars, Cluster
  <2> QED BY <2>1, <2>2, <2>3 DEF Installed, Started, Reported, Known
<1>11. ASSUME NEW vs \in SUBSET VM, NEW step \in {"masters", "workers"},
              NEW after \in {"adopt", "workers", "align"}, JoinVMs(step, vs, after),
              cl = "dpu" => vs = {}
       PROVE  \/ Installed'
              \/ /\ pc = step /\ pc' = after /\ at' = 1 /\ UNCHANGED <<cl, result, flags, nodeIP>>
                 /\ UNCHANGED <<kubeconfig, bareMetalVars>>
                 /\ Unpatched' /\ \A v \in vs : Joins(v)'
                 /\ \A v \in VM : Joins(v) => Joins(v)'
                 /\ cl = "dpu" => Whole("host")'
  <2>1. CASE End("failed") /\ UNCHANGED <<kube, nodeIP>>
    BY <2>1, <1>c, <1>e DEF Unpatched
  <2>2. CASE /\ \A v \in vs : kube[v] = "none"
             /\ kube' = [v \in VM |-> IF v \in vs THEN "current" ELSE kube[v]] /\ Goto(after)
    <3>1. /\ pc = step /\ pc' = after /\ at' = 1 /\ UNCHANGED <<cl, result, flags, nodeIP>>
          /\ UNCHANGED <<kubeconfig, bareMetalVars>>
      BY <1>11, <2>2 DEF JoinVMs
    <3>2. Unpatched' /\ \A v \in vs : Joins(v)'
      BY <2>2, <3>1, <1>a, <1>c DEF Unpatched, Joins
    <3>3. \A v \in VM : Joins(v) => Joins(v)'
      BY <2>2, <3>1, <1>a DEF Joins
    <3>4. cl = "dpu" => Whole("host")'
      BY <1>11, <2>2, <3>1, <1>a, <1>f DEF Installed, Known, bareMetalVars
    <3> QED BY <3>1, <3>2, <3>3, <3>4
  <2> QED BY <1>11, <2>1, <2>2 DEF JoinVMs
<1>12. CASE JoinMasters
  <2> DEFINE after == IF cl = "host" THEN "adopt" ELSE "workers"
  <2>1. \/ Installed'
        \/ /\ pc = "masters" /\ pc' = after /\ at' = 1 /\ UNCHANGED <<cl, result, flags, nodeIP>>
           /\ UNCHANGED <<kubeconfig, bareMetalVars>>
           /\ Unpatched' /\ \A v \in ExtraMasters(cl) : Joins(v)'
           /\ \A v \in VM : Joins(v) => Joins(v)'
           /\ cl = "dpu" => Whole("host")'
    <3>1. JoinVMs("masters", ExtraMasters(cl), after)
      BY <1>12 DEF JoinMasters
    <3>2. ExtraMasters(cl) \in SUBSET VM /\ (cl = "dpu" => ExtraMasters(cl) = {})
      BY <1>a, <1>b DEF ExtraMasters
    <3> QED BY <3>1, <3>2, <1>11
  <2>2. Joins(Master(cl)) /\ Master(cl) \in VM /\ (pc = "masters" => kubeconfig[cl] = "current")
    BY <1>12, <1>a, <1>b DEF JoinMasters, JoinVMs, Installed, Started
  <2> QED BY <2>1, <2>2 DEF Installed, Started, Reported, Known, ExtraMasters, Master, Joins
<1>13. CASE JoinWorkers
  <2>1. \/ Installed'
        \/ /\ pc = "workers" /\ pc' = "align" /\ at' = 1 /\ UNCHANGED <<cl, result, flags, nodeIP>>
           /\ UNCHANGED <<kubeconfig, bareMetalVars>>
           /\ Unpatched' /\ \A v \in WorkerVMs(cl) : Joins(v)'
           /\ \A v \in VM : Joins(v) => Joins(v)'
           /\ cl = "dpu" => Whole("host")'
    <3>1. JoinVMs("workers", WorkerVMs(cl), "align")
      BY <1>13 DEF JoinWorkers
    <3>2. WorkerVMs(cl) \in SUBSET VM /\ (cl = "dpu" => WorkerVMs(cl) = {})
      BY <1>a, <1>b DEF WorkerVMs
    <3> QED BY <3>1, <3>2, <1>11
  <2>2. /\ Joins(Master(cl)) /\ Master(cl) \in VM /\ kubeconfig[cl] = "current"
        /\ \A v \in ExtraMasters(cl) : v \in VM /\ Joins(v)
        /\ cl = "host" => Joined
    BY <1>13, <1>a, <1>b DEF JoinWorkers, JoinVMs, Installed, Started
  <2>3. CASE Installed'
    BY <2>3
  <2>4. CASE ~Installed'
    <3>1. Joined = Joined'
      BY <2>1, <2>4 DEF Joined, bareMetalVars
    <3>2. \A i \in 1..Len(PatchOrder(cl)') : ~(i < at')
      BY <2>1, <2>4
    <3> QED BY <2>1, <2>2, <2>4, <3>1, <3>2
         DEF Installed, Started, Reported, Known, ExtraMasters, WorkerVMs, Master, Joins, PatchOrder
  <2> QED BY <2>3, <2>4
<1>14. CASE Adopt
  <2>1. pc = "adopt" /\ at \in 1..9 /\ cl = "host" /\ UNCHANGED <<kube, nodeIP, kubeconfig, flags>>
    BY <1>14 DEF Adopt, Bounded
  <2>2. StageEffect
    BY <1>14, <2>1, StageByStage
  <2>3. Unpatched'
    BY <2>1, <1>c DEF Unpatched
  <2>4. CASE End("failed")
    BY <2>3, <2>4, <1>e
  <2>5. CASE pc' = "adopt" /\ cl' = cl
    BY <2>1, <2>3, <2>5 DEF Installed, Started, Known, Reported, Joins
  <2>6. CASE pc' = "workers" /\ cl' = cl /\ JoinNode
    BY <2>1, <2>3, <2>6 DEF Installed, Started, Known, Reported, Joins, JoinNode, Joined
  <2>7. \/ End("failed")
        \/ pc' = "adopt" /\ cl' = cl
        \/ pc' = "workers" /\ cl' = cl /\ JoinNode
    BY <2>1, <2>2 DEF StageEffect, Stays
  <2> QED BY <2>4, <2>5, <2>6, <2>7
<1>15. CASE Align
  <2> DEFINE v == PatchOrder(cl)[at]
  <2>1. /\ pc = "align" /\ at \in 1..Len(PatchOrder(cl)) /\ UNCHANGED <<cl, result, flags>>
        /\ UNCHANGED <<kube, kubeconfig, bareMetalVars>>
        /\ nodeIP' = [nodeIP EXCEPT ![v] = IF @ = "default" THEN "used" ELSE @]
    BY <1>15, <1>a, PatchOrders DEF Align, Bounded
  <2>2. v \in VM /\ (cl = "dpu" => v = NumVMs)
    <3>1. CASE cl = "dpu"
      <4>1. PatchOrder(cl) = <<NumVMs>>
        BY <3>1 DEF PatchOrder
      <4>2. at = 1
        BY <2>1, <4>1
      <4> QED BY <4>1, <4>2, Sizes DEF VM
    <3> QED BY <2>1, <1>a, <3>1, PatchOrderIsVMs
  <2>3. \A w \in Members(cl) : Joins(w)
    BY <2>1, <1>a, <1>b DEF Installed, Started
  <2>4. v \in Members(cl)
    BY <2>1, <1>a, PatchedAreMembers
  <2>5. nodeIP'[v] = "used" /\ \A w \in VM : w # v => nodeIP'[w] = nodeIP[w]
    BY <2>1, <2>2, <2>3, <2>4, <1>a DEF Joins
  <2>6. Unpatched' /\ \A w \in Members(cl) : Joins(w)'
    BY <2>1, <2>3, <2>4, <2>5, <1>b, <1>a, <1>c DEF Unpatched, Joins
  <2>7. cl = "dpu" => Whole("host")'
    BY <2>1, <2>2, <2>5, <1>a, <1>f DEF Installed, Known, bareMetalVars
  <2>8. \A i \in 1..Len(PatchOrder(cl)) : i <= at => nodeIP'[PatchOrder(cl)[i]] = "used"
    <3> SUFFICES ASSUME NEW i \in 1..Len(PatchOrder(cl)), i <= at
                 PROVE  nodeIP'[PatchOrder(cl)[i]] = "used"
      OBVIOUS
    <3>1. CASE i = at
      BY <3>1, <2>5
    <3>2. CASE i < at
      BY <3>2, <2>1, <2>5, <1>a, PatchOrderIsVMs DEF Installed
    <3> QED BY <3>1, <3>2, <2>1
  <2>9. cl = "host" => Joined'
    BY <2>1 DEF Installed, Joined, bareMetalVars
  <2>10. CASE pc' = "align" /\ at' = at + 1
    <3>1. \A i \in 1..Len(PatchOrder(cl)) : i < at' => i <= at
      BY <2>10, <2>1
    <3>2. \A i \in 1..Len(PatchOrder(cl)) : i < at' => nodeIP'[PatchOrder(cl)[i]] = "used"
      BY <3>1, <2>8
    <3>3. \A i \in 1..Len(PatchOrder(cl)') : i < at' => nodeIP'[PatchOrder(cl)'[i]] = "used"
      BY <2>1, <3>2 DEF PatchOrder
    <3> HIDE DEF v
    <3>4. /\ \A w \in ExtraMasters(cl)' : Joins(w)'
          /\ \A w \in WorkerVMs(cl)' : Joins(w)'
          /\ Joins(Master(cl))' /\ kubeconfig'[cl'] = "current"
      BY <2>1, <2>6, <1>a, <1>b DEF Joins, Master, ExtraMasters, WorkerVMs, Installed, Started
    <3> QED BY <2>1, <2>6, <2>7, <2>9, <2>10, <3>3, <3>4 DEF Installed, Started, Known, Reported
  <2>11. CASE pc' = "ready" /\ at >= Len(PatchOrder(cl))
    <3>1. ASSUME NEW w \in Members(cl) PROVE nodeIP'[w] = "used"
      <4>1. PICK i \in 1..Len(PatchOrder(cl)) : PatchOrder(cl)[i] = w
        BY PatchOrderIsComplete, <1>a
      <4>2. i <= at
        BY <2>1, <2>11
      <4> QED BY <4>1, <4>2, <2>8
    <3> HIDE DEF v
    <3> QED BY <2>1, <2>6, <2>7, <2>9, <2>11, <3>1, <1>a, <1>b DEF Installed, Started, Known, Reported, Joins,
         Master, ExtraMasters, WorkerVMs, Members
  <2> QED BY <1>15, <2>1, <2>10, <2>11 DEF Align
<1>16. CASE NodesReady
  <2>1. pc = "ready" /\ UNCHANGED <<kube, nodeIP, kubeconfig, flags, bareMetalVars>>
    BY <1>16 DEF NodesReady
  <2>2. CASE End("failed")
    BY <2>1, <2>2, <1>c, <1>e DEF Unpatched
  <2>3. CASE Goto("cni")
    BY <2>1, <2>3 DEF Installed, Unpatched, Started, Known, Reported, Joins, Whole, Joined, bareMetalVars,
       Master, ExtraMasters, WorkerVMs, Members
  <2> QED BY <1>16, <2>2, <2>3 DEF NodesReady
<1>17. CASE InstallCNI
  <2>1. pc = "cni" /\ UNCHANGED <<dom, kube, nodeIP, kubeconfig, flags, result, bareMetalVars>> /\ at' = 1
    BY <1>17 DEF InstallCNI
  <2>2. Whole(cl)
    <3>1. \A v \in Members(cl) : Joins(v) /\ nodeIP[v] = "used"
      BY <2>1, <1>a, <1>b DEF Installed, Started
    <3> QED BY <2>1, <3>1 DEF Whole, Joins, Installed, Started
  <2>3. AllRunning' /\ Unpatched'
    BY <2>1, <1>c DEF AllRunning, Unpatched, Matched, Known
  <2>4. \A c \in Cluster : Whole(c) => Whole(c)'
    BY <2>1 DEF Whole, Joined, bareMetalVars, Members
  <2>5. CASE cl = "host"
    <3>1. Whole("host")'
      BY <2>2, <2>4, <2>5 DEF Cluster
    <3>2. pc' = "prepare" /\ cl' = "dpu"
      BY <1>17, <2>5 DEF InstallCNI
    <3> QED BY <2>1, <2>3, <3>1, <3>2 DEF Installed, Started, Known, Reported
  <2>6. CASE cl = "dpu"
    <3>1. Whole("dpu")' /\ Whole("host")'
      BY <2>1, <2>2, <2>4, <2>6 DEF Cluster, Installed, Known
    <3>2. pc' = "post" /\ cl' = "dpu"
      BY <1>17, <2>6 DEF InstallCNI
    <3> QED BY <2>1, <2>3, <3>1, <3>2 DEF Installed, Started, Known, Reported
  <2> QED BY <2>5, <2>6, <1>a DEF Cluster
<1>18. CASE PostInstall \/ Report
  <2>1. UNCHANGED <<dom, kube, nodeIP, kubeconfig, flags, bareMetalVars>>
    BY <1>18 DEF PostInstall, Report
  <2>2. \A c \in Cluster : Whole(c) => Whole(c)'
    BY <2>1 DEF Whole, Joined, bareMetalVars, Members
  <2>3. Unpatched' /\ (AllRunning => AllRunning')
    BY <2>1, <1>c DEF Unpatched, AllRunning
  <2>4. CASE PostInstall
    <3>1. Whole("host") /\ Whole("dpu") /\ AllRunning
      BY <2>4 DEF PostInstall, Installed, Known
    <3>2. pc' = "report" /\ cl' = cl
      BY <2>4 DEF PostInstall
    <3> QED BY <2>2, <2>3, <3>1, <3>2, <1>a DEF Installed, Started, Known, Reported, Cluster
  <2>5. CASE Report
    <3>1. pc = "report" /\ pc' = "idle" /\ cl' = "host" /\ result' = "done"
      BY <2>5 DEF Report
    <3>2. (Reported /\ flags.k8s)' => Whole("host") /\ Whole("dpu") /\ AllRunning
      BY <2>1, <3>1 DEF Reported, Installed
    <3> QED BY <2>2, <2>3, <3>1, <3>2 DEF Installed, Started, Known, Cluster
  <2> QED BY <1>18, <2>4, <2>5
<1>19. CASE CleanupFails
  <2>1. /\ pc \in {"kubeconfigs", "rmvm", "rmnet", "rmbr"} /\ UNCHANGED <<kube, nodeIP, flags, bareMetalVars>>
        /\ UNCHANGED <<cl, result>>
    BY <1>19 DEF CleanupFails, Errored, Failed, SkipBridge, NextNetwork
  <2>2. cl = "host"
    BY <2>1, <1>a DEF Installed, Known, Cluster
  <2>3. pc' \in {"conf", "rmvm", "rmnet", AfterCleanup}
    BY <1>19 DEF CleanupFails, SkipBridge, NextNetwork
  <2>4. pc' \notin Started \cup {"post"} /\ ~(Reported /\ flags.k8s)'
    BY <2>1, <2>3 DEF AfterCleanup, AfterDeploy, Started, Reported
  <2>5. Unpatched'
    BY <2>1, <1>c DEF Unpatched
  <2> QED BY <2>1, <2>2, <2>4, <2>5 DEF Installed, Started, Known
<1>20. CASE LookupFails
  <2>1. /\ pc = "rmnet" /\ pc' = "rmbr" /\ UNCHANGED <<nodes, cl, flags, result, bareMetalVars>>
    BY <1>20 DEF LookupFails, Failed
  <2>2. cl = "host"
    BY <2>1, <1>a DEF Installed, Known, Cluster
  <2> QED BY <2>1, <2>2, <1>d DEF Started, Reported
<1>21. CASE RunFails
  <2>1. Unpatched'
    <3>1. CASE UNCHANGED <<kube, nodeIP>>
      BY <3>1, <1>c DEF Unpatched
    <3>2. CASE kube' = [kube EXCEPT ![Master(cl)] = "partial"] /\ UNCHANGED nodeIP
      BY <3>2, <1>a, <1>b, <1>c DEF Unpatched
    <3>3. CASE /\ pc = "align" /\ UNCHANGED kube
               /\ nodeIP' = [nodeIP EXCEPT ![PatchOrder(cl)[at]] = "written"]
      <4>1. PatchOrder(cl)[at] \in VM /\ at \in 1..Len(PatchOrder(cl))
        BY <3>3, <1>a, PatchOrderIsVMs, PatchOrders DEF Bounded
      <4>2. kube[PatchOrder(cl)[at]] = "current"
        BY <3>3, <4>1, PatchedAreMembers, <1>a, <1>b DEF Installed, Started, Joins
      <4> QED BY <3>3, <4>1, <4>2, <1>a, <1>c DEF Unpatched
    <3> QED BY <1>21, <3>1, <3>2, <3>3 DEF RunFails, Half
  <2>2. pc' = "idle" /\ cl' = "host" /\ result' = "failed"
    BY <1>21 DEF RunFails
  <2> QED BY <2>1, <2>2, <1>e
<1>22. CASE StopRefused
  <2>1. pc = "adopt" /\ at \in 1..9 /\ Stage = "stop" /\ UNCHANGED <<nodes, flags, bareMetalVars>>
    BY <1>22 DEF StopRefused, Bounded, Errored, Failed
  <2>2. at = 3
    BY <2>1, Stages DEF Stage
  <2>3. pc' = "adopt" /\ cl' = cl
    BY <1>22, <2>1, <2>2, Stages DEF StopRefused, NextStage
  <2> QED BY <2>1, <2>3 DEF Installed, Unpatched, Started, Known, Reported, Joins, Bounded, Whole
<1>23. CASE Kill
  BY <1>23, <1>c, <1>e DEF Kill, Unpatched
<1>24. CASE UNCHANGED vars
  BY <1>24 DEF vars, Installed, Unpatched, Reported, Joins, Whole, Joined, bareMetalVars, AllRunning
<1> QED
  BY <1>1, <1>2, <1>3, <1>4, <1>5, <1>6, <1>7, <1>8, <1>9, <1>10, <1>12, <1>13, <1>14, <1>15,
     <1>16, <1>17, <1>18, <1>19, <1>20, <1>21, <1>22, <1>23, <1>24
  DEF Next, Cleaning, Deploying, Installing, Faults

-----------------------------------------------------------------------------
LEMMA AlwaysBuilt == Spec => []Built
<1>1. Init => Built
  BY DEF Init, Default, Built, AfterInfrastructure, Known, Reported
<1>2. Typed /\ Bounded /\ Built /\ [Next]_vars => Built'
  BY BuiltStep
<1> QED BY <1>1, <1>2, AlwaysTyped, PTL DEF Spec

LEMMA AlwaysInstalled == Spec => []Installed
<1>1. Init => Installed
  BY DEF Init, Installed, Unpatched, Started, Known, Reported
<1>2. Typed /\ Bounded /\ Matched /\ Installed /\ [Next]_vars => Installed'
  BY InstalledStep
<1> QED BY <1>1, <1>2, AlwaysTyped, AlwaysMatched, PTL DEF Spec

(* A run that ends in success leaves what its flags asked for, whatever it *)
(* found: networks, VMs and the gateway address; both clusters with all of *)
(* their nodes patched, their kubeconfigs, and the bare-metal worker.      *)
THEOREM DeploymentsComplete == Spec => []DeploymentComplete
<1>1. Built /\ Installed /\ Reachable => DeploymentComplete
  <2> SUFFICES ASSUME Built, Installed, Reachable, Ended, result = "done", ~flags.only
               PROVE  /\ flags.deploy => InfrastructureComplete
                      /\ flags.k8s => ClustersComplete
    BY DEF DeploymentComplete
  <2>1. Reported
    BY DEF Reported, Ended
  <2>2. flags.deploy => InfrastructureComplete
    BY <2>1 DEF Built
  <2>3. ASSUME flags.k8s PROVE ClustersComplete
    <3>1. Whole("host") /\ Whole("dpu") /\ AllRunning
      BY <2>1, <2>3 DEF Installed
    <3>2. \A v \in VM : v \in Members("host") \/ v \in Members("dpu")
      BY ClusterMembers
    <3> QED BY <3>1, <3>2 DEF Whole, AllRunning, ClustersComplete, Cluster, Reachable, MemberIsReachable
  <2> QED BY <2>2, <2>3
<1> QED BY <1>1, AlwaysBuilt, AlwaysInstalled, AlwaysReachable, PTL

-----------------------------------------------------------------------------
(* A run with the default flags in which nothing has failed: what each of  *)
(* its steps finds, whatever the runs before it left.                      *)
Clean == flags = Default /\ ~faulted

Kept ==   \* what there is of a VM, only its domain's removal takes away
  /\ \A v \in VM : dom[v] = "absent" => kube[v] = "none"
  /\ gwIP => dom[1] # "absent"
ActiveNetwork(n) == net[n] = "active" /\ (~IsNat(n) => bridge[n] # "absent")

Emptied ==
  /\ pc = "rmvm" => \A v \in VM : v < at => dom[v] = "absent"
  /\ pc \in {"rmnet", "rmbr"} => NoVM /\ \A n \in Net : n < at => GoneNetwork(n)
  /\ pc = "rmbr" => net[at] = "absent"
  /\ pc \notin {"idle", "kubeconfigs", "conf"} => (DebianLike => conf = "new")
Raised ==
  /\ pc \in {"mknet", "define", "startnet"} =>
       /\ NoVM /\ (\A n \in Net : n < at => ActiveNetwork(n))
       /\ \A n \in Net : n > at => net[n] = "absent"
  /\ pc \in {"mknet", "define"} => net[at] = "absent"
  /\ pc \in {"define", "startnet"} /\ ~IsNat(at) => bridge[at] # "absent"
  /\ pc = "mkvm" => /\ \A n \in Net : ActiveNetwork(n)
                    /\ \A v \in VM : v >= at => dom[v] = "absent"
  /\ pc \in {"boot", "gwip", "install"} => AllRunning
Blank ==
  /\ pc \in {"mkvm", "boot", "gwip"} => ~gwIP
  /\ pc \in {"mkvm", "boot", "gwip", "install"} => \A v \in VM : kube[v] = "none"
  /\ pc \in Known /\ cl = "host" => kube[NumVMs] = "none"
  /\ pc \in {"prepare", "init"} => \A v \in Members(cl) : kube[v] = "none"
  /\ pc \in {"save", "masters"} => \A v \in ExtraMasters(cl) \cup WorkerVMs(cl) : kube[v] = "none"
  /\ pc \in {"adopt", "workers"} => \A v \in WorkerVMs(cl) : kube[v] = "none"
Adopted ==
  pc = "adopt" =>
    /\ at \in 4..5 => kubelet = "stopped"
    /\ at > 4 => files = "none"
    /\ at > 7 => Forwarded
    /\ at > 8 => routed
Succeeding == Emptied /\ Raised /\ Blank /\ Adopted /\ (Ended /\ result = "failed" => StaleBackend)
Smooth == Kept /\ (Clean => Succeeding)

LEMMA KeptStep == ASSUME Typed, Bounded, Matched, Built, Kept, [Next]_vars PROVE Kept'
<1> USE DEF Kept, Ran, own, nodes
<1>a. /\ dom \in [VM -> {"absent", "defined", "running"}]
      /\ kube \in [VM -> {"none", "partial", "current", "old"}] /\ cl \in Cluster
  BY DEF Typed, TypedRun, TypedNodes
<1>b. 1 \in VM /\ \A c \in Cluster : Master(c) \in VM
  BY FirstMasters, Sizes DEF VM, Cluster
<1>c. pc \in Known => \A v \in VM : dom[v] = "running"
  BY DEF Matched
<1>1. ASSUME UNCHANGED <<dom, kube, gwIP>> PROVE Kept'
  BY <1>1
<1>2. CASE RemoveVM
  <2>1. at \in VM
    BY <1>2 DEF RemoveVM, Bounded, VMLoops, VM
  <2> QED BY <1>2, <2>1, <1>a, <1>b DEF RemoveVM, VMGone, Orphan, GatewayVM
<1>3. CASE CreateVM
  <2>1. ASSUME NEW v \in VM, dom'[v] = "absent" PROVE dom[v] = "absent"
    BY <1>3, <1>a, <2>1 DEF CreateVM
  <2> QED BY <1>3, <1>b, <2>1 DEF CreateVM
<1>4. CASE AssignGatewayIP
  <2>1. dom[1] = "running"
    BY <1>4, <1>b DEF AssignGatewayIP, Built, AllRunning
  <2> QED BY <1>4, <2>1 DEF AssignGatewayIP
<1>5. ASSUME pc \in Known, UNCHANGED <<dom, gwIP>> PROVE Kept'
  BY <1>5, <1>b, <1>c
<1>6. CASE CleanupFails
  BY <1>6, <1>a, <1>b DEF CleanupFails
<1>7. CASE CleanKubeconfigs \/ RemoveNetwork \/ RemoveBridge \/ Configure \/ Restart
  BY <1>7, <1>1 DEF CleanKubeconfigs, RemoveNetwork, RemoveBridge, Configure, Restart
<1>8. CASE CreateNetwork \/ DefineNetwork \/ StartNetwork \/ WaitForVM
  BY <1>8, <1>1 DEF CreateNetwork, DefineNetwork, StartNetwork, WaitForVM, AskVM
<1>9. CASE InstallKubernetes \/ Prepare \/ SaveKubeconfig \/ Adopt \/ Align
  BY <1>9, <1>1 DEF InstallKubernetes, AskVM, Prepare, SaveKubeconfig, Adopt, Align
<1>10. CASE InitControlPlane \/ JoinMasters \/ JoinWorkers
  BY <1>10, <1>5 DEF InitControlPlane, JoinMasters, JoinWorkers, JoinVMs, Known
<1>11. CASE NodesReady \/ InstallCNI \/ PostInstall \/ Report
  BY <1>11, <1>1 DEF NodesReady, InstallCNI, PostInstall, Report
<1>12. CASE LookupFails \/ StopRefused \/ Kill
  BY <1>12, <1>1 DEF LookupFails, StopRefused, Kill
<1>13. CASE RunFails
  <2>1. UNCHANGED <<dom, kube, gwIP>> \/ (pc = "init" /\ UNCHANGED <<dom, gwIP>>)
    BY <1>13 DEF RunFails, Half
  <2> QED BY <2>1, <1>1, <1>5 DEF Known
<1>14. CASE \E f \in RealFlags : Run(f)
  BY <1>14, <1>1 DEF Run
<1>15. CASE UNCHANGED vars
  BY <1>15, <1>1 DEF vars
<1> QED
  BY <1>2, <1>3, <1>4, <1>6, <1>7, <1>8, <1>9, <1>10, <1>11, <1>12, <1>13, <1>14, <1>15
  DEF Next, Cleaning, Deploying, Installing, Faults

LEMMA FaultsShow ==
  ASSUME Next
  PROVE  \/ \E f \in RealFlags : Run(f)
         \/ flags' = flags /\ faulted' = TRUE
         \/ flags' = flags /\ faulted' = faulted /\ (Cleaning \/ Deploying \/ Installing \/ Report \/ Kill)
<1> USE DEF Ran, own, Errored, Failed
<1>1. CASE Cleaning \/ Deploying \/ Report
  BY <1>1, Zenon DEF Cleaning, Deploying, Report, CleanKubeconfigs, RemoveVM, RemoveNetwork,
     RemoveBridge, Configure, Restart, CreateNetwork, DefineNetwork, StartNetwork, CreateVM,
     WaitForVM, AskVM, AssignGatewayIP
<1>2. CASE Installing
  BY <1>2, Zenon DEF Installing, InstallKubernetes, AskVM, Prepare, InitControlPlane,
     SaveKubeconfig, JoinMasters, JoinWorkers, JoinVMs, Adopt, Align, NodesReady,
     InstallCNI, PostInstall
<1>3. CASE Faults
  BY <1>3, Zenon DEF Faults, CleanupFails, LookupFails, RunFails, StopRefused, Kill
<1> QED BY <1>1, <1>2, <1>3, Zenon DEF Next

(* A step into the clean-up of the next network, or past the last one.     *)
LEMMA CleaningSucceeds ==
  ASSUME Typed, Bounded, Kept, Succeeding, Clean, Clean', Cleaning \/ Configure \/ Restart
  PROVE  Succeeding'
<1> USE DEF Succeeding, Goto, Within, Advance, End, Ran, own, nodes
<1>a. /\ dom \in [VM -> {"absent", "defined", "running"}]
      /\ net \in [Net -> {"absent", "defined", "active"}]
      /\ bridge \in [{n \in Net : ~IsNat(n)} -> {"absent", "down", "up"}]
      /\ conf \in {"old", "new"}
  BY DEF Typed, TypedNodes, NetworkTypeOK
<1>b. AfterCleanup = "mknet" /\ AfterPrerequisites = "rmvm"
  BY DEF Clean, Default, AfterCleanup, AfterPrerequisites
<1>c. \A v \in VM : ~(v < 1)
  BY DEF VM
<1>d. \A n \in Net : ~(n < 1)
  BY DEF Net
(* Of the steps of a clean-up only what Emptied says matters.              *)
<1>e. ASSUME pc' \in {"conf", "restart", "rmvm", "rmnet", "rmbr"}, Emptied' PROVE Succeeding'
  BY <1>e DEF Raised, Blank, Adopted, Ended, Known
<1>1. CASE CleanKubeconfigs
  BY <1>1, <1>e DEF CleanKubeconfigs, Emptied
<1>2. CASE Configure \/ Restart
  BY <1>2, <1>a, <1>b, <1>c, <1>e DEF Configure, Restart, MustConfigure, InstallConf, RestartLibvirt,
     networkVars, Emptied
<1>3. CASE RemoveVM
  <2>1. pc = "rmvm" /\ at \in VM /\ UNCHANGED networkVars
    BY <1>3 DEF RemoveVM, Bounded, VMLoops, VM
  <2>2. DebianLike => conf' = "new"
    BY <2>1 DEF Emptied, networkVars
  <2>3. dom'[at] = "absent"
    BY <2>1, <1>3, <1>a DEF RemoveVM, VMGone
  <2>4. ASSUME NEW v \in VM, v < at PROVE dom'[v] = "absent"
    BY <2>1, <1>3, <1>a, <2>4 DEF RemoveVM, VMGone, Emptied
  <2>5. \A v \in VM : v <= at => dom'[v] = "absent"
    BY <2>1, <2>3, <2>4 DEF VM
  <2>6. CASE pc' = "rmvm" /\ at' = at + 1
    BY <2>1, <2>2, <2>5, <2>6, <1>e DEF Emptied, VM
  <2>7. CASE pc' = "rmnet" /\ at' = 1 /\ at >= NumVMs
    <3>1. NoVM'
      BY <2>1, <2>5, <2>7, Sizes DEF NoVM, VM
    <3> QED BY <2>2, <2>7, <3>1, <1>d, <1>e DEF Emptied
  <2> QED BY <1>3, <2>1, <2>6, <2>7, Sizes DEF RemoveVM, VM
<1>4. ASSUME RemoveNetwork \/ RemoveBridge PROVE Succeeding'
  <2>0. UNCHANGED <<dom, kube, gwIP, conf>> /\ pc \in {"rmnet", "rmbr"} /\ at \in Net /\ at \in Nat
    BY <1>4 DEF RemoveNetwork, RemoveBridge, SetNetwork, DeleteBridge, Bounded, NetLoops, Net
  <2>1. NoVM' /\ (DebianLike => conf' = "new")
    BY <2>0 DEF Emptied, NoVM
  <2>2. \A n \in Net : n < at => GoneNetwork(n)'
    <3> SUFFICES ASSUME NEW n \in Net, n < at PROVE GoneNetwork(n)'
      OBVIOUS
    <3>1. GoneNetwork(n) /\ n # at
      BY <2>0 DEF Emptied, Net
    <3> QED BY <3>1, <1>4, <1>a, <2>0 DEF RemoveNetwork, RemoveBridge, SetNetwork, DeleteBridge, GoneNetwork
  <2> DEFINE gone == net'[at] = "absent" /\ (~IsNat(at) => bridge'[at] = "absent")
  <2>3. net'[at] = "absent"
    BY <1>4, <1>a, <2>0 DEF RemoveNetwork, RemoveBridge, SetNetwork, DeleteBridge, Emptied
  <2>4. CASE NextNetwork /\ gone
    <3>1. \A n \in Net : n <= at => GoneNetwork(n)'
      BY <2>0, <2>2, <2>4 DEF Net, GoneNetwork
    <3>2. CASE pc' = "rmnet" /\ at' = at + 1
      BY <2>0, <2>1, <3>1, <3>2, <1>e DEF Emptied, Net
    <3>3. CASE pc' = "mknet" /\ at' = 1 /\ at >= NumNets
      <4>1. \A n \in Net : net'[n] = "absent"
        BY <2>0, <3>1, <3>3, Sizes DEF Net, GoneNetwork
      <4>2. net'[at'] = "absent"
        BY <4>1, <3>3, Sizes DEF Net
      <4> QED BY <2>1, <3>3, <4>1, <4>2, <1>d DEF Emptied, Raised, Blank, Adopted, Ended, Known
    <3> QED BY <2>0, <1>b, <2>4, <3>2, <3>3, Sizes DEF NextNetwork
  <2>5. CASE pc' = "rmbr" /\ at' = at
    BY <2>1, <2>2, <2>3, <2>5, <1>e DEF Emptied
  <2>6. RemoveBridge => gone
    BY <1>a, <2>0, <2>3 DEF RemoveBridge, DeleteBridge
  <2>7. RemoveNetwork => (NextNetwork /\ gone) \/ (pc' = "rmbr" /\ at' = at)
    BY <2>3 DEF RemoveNetwork
  <2> QED BY <1>4, <2>4, <2>5, <2>6, <2>7 DEF RemoveBridge
<1> QED BY <1>1, <1>2, <1>3, <1>4 DEF Cleaning

LEMMA DeployingSucceeds ==
  ASSUME Typed, Bounded, Built, Installed, Kept, Succeeding, Clean, Clean', Deploying,
         ~(Configure \/ Restart)
  PROVE  Succeeding'
<1> USE DEF Succeeding, Goto, Within, Advance, Ran, own, nodes
<1>a. /\ dom \in [VM -> {"absent", "defined", "running"}]
      /\ net \in [Net -> {"absent", "defined", "active"}]
      /\ bridge \in [{n \in Net : ~IsNat(n)} -> {"absent", "down", "up"}]
      /\ conf \in {"old", "new"} /\ backend \in {"old", "new"} /\ cl \in Cluster
  BY DEF Typed, TypedRun, TypedNodes, NetworkTypeOK
<1>b. AfterDeploy = "install"
  BY DEF Clean, Default, AfterDeploy
<1>c. (pc \in NetLoops => at \in Net /\ at \in Nat) /\ (pc \in VMLoops => at \in VM /\ at \in Nat)
  BY DEF Bounded, Net, VM
<1>d. 1 \in VM /\ (\A v \in VM : ~(v < 1) /\ v \in Nat) /\ \A n \in Net : n \in Nat /\ ~(n < 1)
  BY Sizes DEF VM, Net
<1>e. pc \notin {"idle", "kubeconfigs", "conf"} => (DebianLike => conf = "new")
  BY DEF Emptied
<1>1. CASE CreateNetwork
  <2>1. /\ pc = "mknet" /\ pc' = "define" /\ at' = at /\ UNCHANGED <<nodes, conf, net>> /\ at \in Net
        /\ IF IsNat(at) THEN UNCHANGED bridge
           ELSE bridge' = [bridge EXCEPT ![at] = IF @ = "absent" THEN "up" ELSE @]
    BY <1>1, <1>c DEF CreateNetwork, Raised, Exists, AddBridge, networkVars, NetLoops
  <2>2. ~IsNat(at) => bridge'[at] # "absent"
    BY <2>1, <1>a
  <2>3. \A n \in Net : ActiveNetwork(n) => ActiveNetwork(n)'
    BY <2>1, <1>a DEF ActiveNetwork
  <2> QED BY <1>e, <2>1, <2>2, <2>3 DEF Emptied, Raised, Blank, Adopted, Ended, Known, NoVM
<1>2. CASE DefineNetwork
  <2>1. /\ pc = "define" /\ pc' = "startnet" /\ at' = at /\ UNCHANGED <<nodes, conf, bridge>> /\ at \in Net
        /\ at \in Nat /\ net' = [net EXCEPT ![at] = "defined"]
    BY <1>2, <1>c DEF DefineNetwork, SetNetwork, NetLoops
  <2>2. \A n \in Net : n # at => net'[n] = net[n]
    BY <2>1, <1>a
  <2>3. \A n \in Net : n < at => ActiveNetwork(n)'
    BY <2>1, <2>2, <1>d DEF ActiveNetwork, Raised
  <2>4. \A n \in Net : n > at => net'[n] = "absent"
    BY <2>1, <2>2, <1>d DEF Raised
  <2> QED BY <1>e, <2>1, <2>3, <2>4 DEF Emptied, Raised, Blank, Adopted, Ended, Known, NoVM
<1>3. CASE StartNetwork
  <2>1. pc = "startnet" /\ UNCHANGED <<nodes, conf, backend, bridge>> /\ at \in Net /\ at \in Nat
    BY <1>3, <1>c DEF StartNetwork, SetNetwork, networkVars, NetLoops
  <2>2. CASE End("failed") /\ ~CanStart(at)
    <3>1. StaleBackend'
      BY <2>1, <2>2, <1>a, <1>e DEF StaleBackend, CanStart
    <3> QED BY <2>2, <3>1 DEF End, Emptied, Raised, Blank, Adopted, Known
  <2>3. CASE net' = [net EXCEPT ![at] = "active"] /\ Advance("mknet", NumNets, "mkvm")
    <3>1. \A n \in Net : n <= at => ActiveNetwork(n)'
      BY <2>1, <2>3, <1>a, <1>d DEF ActiveNetwork, Raised
    <3>2. \A n \in Net : n > at => net'[n] = "absent"
      BY <2>1, <2>3, <1>a, <1>d DEF Raised
    <3>3. CASE pc' = "mknet" /\ at' = at + 1 /\ at < NumNets
      <4>1. net'[at + 1] = "absent"
        BY <2>1, <3>2, <3>3, Sizes DEF Net
      <4>2. \A n \in Net : n < at + 1 => n <= at
        BY <2>1, <1>d
      <4>3. \A n \in Net : n > at + 1 => n > at
        BY <2>1, <1>d
      <4> QED BY <1>e, <2>1, <3>1, <3>2, <3>3, <4>1, <4>2, <4>3
           DEF Emptied, Raised, Blank, Adopted, Ended, Known, NoVM
    <3>4. CASE pc' = "mkvm" /\ at' = 1 /\ at >= NumNets
      <4>1. \A n \in Net : ActiveNetwork(n)'
        BY <2>1, <3>1, <3>4, Sizes DEF Net
      <4>2. NoVM
        BY <2>1 DEF Raised
      <4>3. ~gwIP' /\ (\A v \in VM : kube'[v] = "none") /\ \A v \in VM : dom'[v] = "absent"
        BY <2>1, <4>2, <1>d DEF Kept, NoVM
      <4> QED BY <1>e, <2>1, <3>4, <4>1, <4>3 DEF Emptied, Raised, Blank, Adopted, Ended, Known
    <3> QED BY <2>1, <2>3, <3>3, <3>4, Sizes
  <2> QED BY <1>3, <2>2, <2>3 DEF StartNetwork, SetNetwork
<1>4. CASE CreateVM
  <2>1. /\ pc = "mkvm" /\ UNCHANGED <<kube, gwIP, networkVars>> /\ at \in VM /\ at \in Nat
        /\ dom' = [dom EXCEPT ![at] = "running"] /\ Advance("mkvm", NumVMs, "boot")
    <3>1. pc = "mkvm" /\ at \in VM /\ at \in Nat
      BY <1>4, <1>c DEF CreateVM, VMLoops
    <3>2. dom[at] = "absent" /\ Pluggable
      BY <3>1 DEF Raised, ActiveNetwork, Pluggable
    <3> QED BY <1>4, <3>1, <3>2 DEF CreateVM
  <2>2. \A n \in Net : ActiveNetwork(n)'
    BY <2>1 DEF Raised, ActiveNetwork, networkVars
  <2>3. CASE pc' = "mkvm" /\ at' = at + 1
    <3>1. \A v \in VM : v >= at + 1 => dom'[v] = "absent"
      BY <2>1, <1>a, <1>d DEF Raised
    <3> QED BY <1>e, <2>1, <2>2, <2>3, <3>1 DEF Emptied, Raised, Blank, Adopted, Ended, Known, networkVars
  <2>4. CASE pc' = "boot" /\ at >= NumVMs
    <3>1. AllRunning'
      <4>1. \A v \in VM : v < at \/ v = at
        BY <2>1, <2>4, Sizes DEF VM
      <4> QED BY <2>1, <4>1, <1>a DEF AllRunning, Built
    <3> QED BY <1>e, <2>1, <2>4, <3>1 DEF Emptied, Raised, Blank, Adopted, Ended, Known, networkVars
  <2> QED BY <2>1, <2>3, <2>4, Sizes
<1>5. CASE WaitForVM
  <2>1. pc = "boot" /\ UNCHANGED <<nodes, networkVars>> /\ pc' \in {"boot", "gwip"}
    BY <1>5, <1>c DEF WaitForVM, AskVM, Raised, AllRunning, VMLoops
  <2> QED BY <1>e, <2>1 DEF Emptied, Raised, Blank, Adopted, Ended, Known, networkVars, AllRunning
<1>6. CASE AssignGatewayIP
  <2>1. pc = "gwip" /\ pc' = "install" /\ UNCHANGED <<dom, kube, networkVars>>
    BY <1>6, <1>b DEF AssignGatewayIP, Blank
  <2> QED BY <1>e, <2>1 DEF Emptied, Raised, Blank, Adopted, Ended, Known, networkVars, AllRunning
<1> QED BY <1>1, <1>2, <1>3, <1>4, <1>5, <1>6 DEF Deploying

LEMMA InstallingSucceeds ==
  ASSUME Typed, Bounded, Matched, Reachable, Installed, Kept, Succeeding, Clean, Clean',
         Installing \/ Report \/ Kill
  PROVE  Succeeding'
<1> USE DEF Succeeding, Goto, Within, Advance, Ran, own, nodes
<1>a. kube \in [VM -> {"none", "partial", "current", "old"}] /\ cl \in Cluster
  BY DEF Typed, TypedRun, TypedNodes
<1>b. /\ \A c \in Cluster : /\ Master(c) \in Members(c) /\ Master(c) \in VM
                            /\ ExtraMasters(c) \subseteq Members(c) /\ WorkerVMs(c) \subseteq Members(c)
                            /\ Members(c) \subseteq VM
      /\ Members("dpu") = {NumVMs} /\ NumVMs \in VM /\ NumVMs \notin Members("host")
  BY ClusterMembers DEF Members, Cluster
<1>c. \A c \in Cluster : /\ Master(c) \notin ExtraMasters(c) \cup WorkerVMs(c)
                         /\ ExtraMasters(c) \cap WorkerVMs(c) = {}
  BY Sizes DEF Master, ExtraMasters, WorkerVMs
<1>d. UNCHANGED networkVars
  <2>1. CASE Installing
    BY <2>1, Zenon DEF Installing, InstallKubernetes, AskVM, Prepare, InitControlPlane,
       SaveKubeconfig, JoinMasters, JoinWorkers, JoinVMs, Adopt, Align, NodesReady, InstallCNI,
       PostInstall
  <2>2. CASE Report \/ Kill
    BY <2>2 DEF Report, Kill
  <2> QED BY <2>1, <2>2
(* Past the VMs, only the clusters matter.                                 *)
<1>e. ASSUME pc \in Known \cup {"install", "post"}, pc' \in Known \cup {"post", "report"},
             Blank', Adopted'
      PROVE  Succeeding'
  BY <1>d, <1>e DEF Emptied, Raised, Ended, Known, networkVars
<1>f. pc \in Known => \A v \in VM : dom[v] = "running"
  BY DEF Matched
<1>1. CASE InstallKubernetes
  <2>1. pc = "install" /\ dom[at] = "running" /\ UNCHANGED nodes /\ cl' = cl
    <3>1. pc = "install" /\ at \in VM
      BY <1>1 DEF InstallKubernetes, AskVM, Bounded, VMLoops, VM
    <3>2. dom[at] = "running"
      BY <3>1 DEF Raised, AllRunning
    <3> QED BY <1>1, <3>1, <3>2 DEF InstallKubernetes, AskVM
  <2>2. cl = "host"
    BY <2>1, <1>a DEF Installed, Known, Cluster
  <2>3. CASE pc' = "install"
    BY <1>d, <2>1, <2>3 DEF Emptied, Raised, Blank, Adopted, Ended, Known, networkVars, AllRunning
  <2>4. CASE pc' = "prepare"
    <3>1. Blank' /\ Adopted'
      BY <2>1, <2>2, <2>4, <1>b DEF Blank, Adopted, Known, Cluster, Members
    <3> QED BY <2>1, <2>4, <3>1, <1>e DEF Known
  <2> QED BY <1>1, <2>1, <2>3, <2>4 DEF InstallKubernetes, AskVM
<1>2. CASE Prepare
  <2>1. pc = "prepare" /\ pc' = "init" /\ UNCHANGED <<kube, cl, gwIP>>
    BY <1>2 DEF Prepare
  <2>2. Blank' /\ Adopted'
    BY <2>1 DEF Blank, Adopted, Known, Members
  <2> QED BY <2>1, <2>2, <1>e DEF Known
<1>3. CASE InitControlPlane
  <2>1. /\ pc = "init" /\ pc' = "save" /\ cl' = cl /\ kube' = [kube EXCEPT ![Master(cl)] = "current"]
    BY <1>3, <1>a, <1>b DEF InitControlPlane, Blank
  <2>2. \A v \in ExtraMasters(cl) \cup WorkerVMs(cl) : kube'[v] = "none"
    BY <2>1, <1>a, <1>b, <1>c DEF Blank
  <2>3. cl = "host" => kube'[NumVMs] = "none"
    BY <2>1, <1>a, <1>b DEF Blank, Known
  <2>4. ExtraMasters(cl)' = ExtraMasters(cl) /\ WorkerVMs(cl)' = WorkerVMs(cl)
    BY <2>1 DEF ExtraMasters, WorkerVMs
  <2>5. Blank' /\ Adopted'
    BY <2>1, <2>2, <2>3, <2>4 DEF Blank, Adopted, Known
  <2> QED BY <2>1, <2>5, <1>e DEF Known
<1>4. CASE SaveKubeconfig
  <2>1. pc = "save" /\ pc' = "masters" /\ UNCHANGED <<kube, cl>>
    BY <1>4 DEF SaveKubeconfig
  <2>2. Blank' /\ Adopted'
    BY <2>1 DEF Blank, Adopted, Known, ExtraMasters, WorkerVMs
  <2> QED BY <2>1, <2>2, <1>e DEF Known
<1>5. CASE JoinMasters
  <2>1. pc = "masters" /\ \A v \in ExtraMasters(cl) : kube[v] = "none" /\ dom[v] = "running"
    <3>1. pc = "masters"
      BY <1>5 DEF JoinMasters, JoinVMs
    <3> QED BY <3>1, <1>a, <1>b, <1>f DEF Blank, Known
  <2>2. /\ pc' \in {"adopt", "workers"} /\ at' = 1 /\ cl' = cl
        /\ kube' = [v \in VM |-> IF v \in ExtraMasters(cl) THEN "current" ELSE kube[v]]
    BY <1>5, <2>1 DEF JoinMasters, JoinVMs
  <2>3. \A v \in WorkerVMs(cl) : kube'[v] = "none"
    BY <2>1, <2>2, <1>a, <1>b, <1>c DEF Blank
  <2>4. cl = "host" => kube'[NumVMs] = "none"
    BY <2>1, <2>2, <1>a, <1>b DEF Blank, Known, Cluster
  <2>5. WorkerVMs(cl)' = WorkerVMs(cl)
    BY <2>2 DEF WorkerVMs
  <2>6. Blank' /\ Adopted'
    BY <2>2, <2>3, <2>4, <2>5 DEF Blank, Adopted, Known
  <2> QED BY <2>1, <2>2, <2>6, <1>e DEF Known
<1>6. CASE JoinWorkers
  <2>1. pc = "workers" /\ \A v \in WorkerVMs(cl) : kube[v] = "none" /\ dom[v] = "running"
    <3>1. pc = "workers"
      BY <1>6 DEF JoinWorkers, JoinVMs
    <3> QED BY <3>1, <1>a, <1>b, <1>f DEF Blank, Known
  <2>2. /\ pc' = "align" /\ cl' = cl
        /\ kube' = [v \in VM |-> IF v \in WorkerVMs(cl) THEN "current" ELSE kube[v]]
    BY <1>6, <2>1 DEF JoinWorkers, JoinVMs
  <2>3. cl = "host" => kube'[NumVMs] = "none"
    BY <2>1, <2>2, <1>a, <1>b DEF Blank, Known, Cluster
  <2>4. Blank' /\ Adopted'
    BY <2>2, <2>3 DEF Blank, Adopted, Known
  <2> QED BY <2>1, <2>2, <2>4, <1>e DEF Known
<1>7. CASE Adopt
  <2>1. pc = "adopt" /\ cl = "host" /\ at \in 1..9 /\ UNCHANGED <<kube, gwIP>>
    BY <1>7 DEF Adopt, Bounded
  <2>2. StageEffect
    BY <1>7, <2>1, StageByStage
  <2>3. ResetIsValid \/ at # 5
    BY <2>1 DEF Adopted, ResetIsValid
  <2>4. CanJoin \/ at # 9
    BY <2>1 DEF Adopted, CanJoin
  <2>5. Stays
    BY <2>2, <2>3, <2>4 DEF StageEffect
  <2>6. ((pc' = "adopt" /\ at' = at + 1) \/ pc' = "workers") /\ cl' = cl
    BY <2>1, <2>5 DEF Stays
  <2>7. Blank'
    BY <2>1, <2>6 DEF Blank, Known, WorkerVMs
  <2>8. Adopted'
    <3>1. CASE at <= 3
      BY <2>2, <2>6, <3>1 DEF StageEffect, StopServices, Adopted
    <3>2. CASE at \in 4..5
      BY <2>1, <2>2, <2>6, <3>2 DEF StageEffect, WipeState, Adopted, bareMetalVars
    <3>3. CASE at \in 6..7
      BY <2>1, <2>2, <2>6, <3>3 DEF StageEffect, SetKubeletNodeIP, AllowForwarding, InsertForward,
         Forwarded, Adopted
    <3>4. CASE at = 8
      BY <2>1, <2>2, <2>6, <3>4 DEF StageEffect, AddRoutes, Forwarded, Adopted
    <3>5. CASE at = 9
      <4>1. pc' # "adopt"
        BY <2>5, <3>5 DEF Stays
      <4> QED BY <4>1 DEF Adopted
    <3> QED BY <2>1, <3>1, <3>2, <3>3, <3>4, <3>5
  <2> QED BY <2>1, <2>6, <2>7, <2>8, <1>e DEF Known
<1>8. CASE Align
  <2>1. pc = "align" /\ pc' \in {"align", "ready"} /\ UNCHANGED <<kube, cl>>
    BY <1>8 DEF Align
  <2>2. Blank' /\ Adopted'
    BY <2>1 DEF Blank, Adopted, Known
  <2> QED BY <2>1, <2>2, <1>e DEF Known
<1>9. CASE NodesReady
  <2>1. pc = "ready" /\ pc' = "cni" /\ UNCHANGED <<kube, cl>>
    BY <1>9 DEF NodesReady, Reachable, MemberIsReachable
  <2>2. Blank' /\ Adopted'
    BY <2>1 DEF Blank, Adopted, Known
  <2> QED BY <2>1, <2>2, <1>e DEF Known
<1>10. CASE InstallCNI
  <2>1. pc = "cni" /\ UNCHANGED kube
    BY <1>10 DEF InstallCNI
  <2>2. CASE cl = "host"
    <3>1. pc' = "prepare" /\ cl' = "dpu"
      BY <1>10, <2>2 DEF InstallCNI
    <3>2. Members(cl)' = {NumVMs}
      BY <3>1, <1>b DEF Members
    <3>3. Blank' /\ Adopted'
      BY <2>1, <2>2, <3>1, <3>2 DEF Blank, Adopted, Known
    <3> QED BY <2>1, <3>1, <3>3, <1>e DEF Known
  <2>3. CASE cl = "dpu"
    <3>1. pc' = "post"
      BY <1>10, <2>3 DEF InstallCNI
    <3>2. Blank' /\ Adopted'
      BY <3>1 DEF Blank, Adopted, Known
    <3> QED BY <2>1, <3>1, <3>2, <1>e DEF Known
  <2> QED BY <2>2, <2>3, <1>a DEF Cluster
<1>11. CASE PostInstall
  <2>1. pc = "post" /\ pc' = "report"
    BY <1>11 DEF PostInstall
  <2>2. Blank' /\ Adopted'
    BY <2>1 DEF Blank, Adopted, Known
  <2> QED BY <2>1, <2>2, <1>e
<1>12. CASE Report \/ Kill
  <2>1. pc' = "idle" /\ result' \in {"done", "killed"}
    BY <1>12 DEF Report, Kill, End
  <2> QED BY <2>1 DEF Emptied, Raised, Blank, Adopted, Ended, Known
<1> QED
  BY <1>1, <1>2, <1>3, <1>4, <1>5, <1>6, <1>7, <1>8, <1>9, <1>10, <1>11, <1>12 DEF Installing

LEMMA SmoothStep ==
  ASSUME Typed, Bounded, Matched, Reachable, Built, Installed, Smooth, [Next]_vars
  PROVE  Smooth'
<1>1. Kept'
  BY KeptStep DEF Smooth
<1> SUFFICES ASSUME Clean' PROVE Succeeding'
  BY <1>1 DEF Smooth
<1>2. CASE UNCHANGED vars
  BY <1>2 DEF vars, own, nodes, networkVars, bareMetalVars, Smooth, Clean, Succeeding, Emptied, Raised,
     Blank, Adopted, Ended, StaleBackend, NoVM, GoneNetwork, ActiveNetwork, AllRunning, Members,
     Forwarded, ExtraMasters, WorkerVMs
<1>3. ASSUME NEW f \in RealFlags, Run(f) PROVE Succeeding'
  <2>1. pc' \in {"kubeconfigs", "conf"}
    BY <1>3 DEF Run
  <2> QED BY <2>1 DEF Succeeding, Emptied, Raised, Blank, Adopted, Ended, Known
<1>4. ASSUME flags' = flags, faulted' = faulted, Cleaning \/ Deploying \/ Installing \/ Report \/ Kill
      PROVE  Succeeding'
  <2>1. Clean /\ Kept /\ Succeeding
    BY <1>4 DEF Clean, Smooth
  <2>2. CASE Cleaning \/ Configure \/ Restart
    BY <2>1, <2>2, CleaningSucceeds
  <2>3. CASE Deploying /\ ~(Configure \/ Restart)
    BY <2>1, <2>3, DeployingSucceeds
  <2>4. CASE Installing \/ Report \/ Kill
    BY <2>1, <2>4, InstallingSucceeds
  <2> QED BY <1>4, <2>2, <2>3, <2>4
<1>5. CASE flags' = flags /\ faulted' = TRUE
  BY <1>5 DEF Clean
<1> QED BY <1>2, <1>3, <1>4, <1>5, FaultsShow

(* A run with the default flags in which no command fails ends in success, *)
(* whatever state the failed and killed runs before it left, but where     *)
(* libvirt was never restarted with the backend its file names.            *)
THEOREM DefaultRunsSucceed == Spec => []IdempotentByDefault
<1>1. Init => Smooth
  BY DEF Init, Smooth, Kept, Clean, Succeeding, Emptied, Raised, Blank, Adopted, Ended, Known
<1>2. Typed /\ Bounded /\ Matched /\ Reachable /\ Built /\ Installed /\ Smooth /\ [Next]_vars => Smooth'
  BY SmoothStep
<1>3. Smooth /\ Typed => IdempotentByDefault
  <2> SUFFICES ASSUME Smooth, Ended, flags = Default, ~faulted, ~StaleBackend PROVE result = "done"
    BY DEF IdempotentByDefault
  <2>1. result # "failed"
    BY DEF Smooth, Clean, Succeeding
  <2> QED BY <2>1 DEF Ended
<1> QED
  BY <1>1, <1>2, <1>3, AlwaysTyped, AlwaysMatched, AlwaysReachable, AlwaysBuilt, AlwaysInstalled, PTL
  DEF Spec
=============================================================================
