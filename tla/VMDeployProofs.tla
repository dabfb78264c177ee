--------------------------- MODULE VMDeployProofs ---------------------------
(***************************************************************************)
(* Proofs about VMDeploy: its type invariant, that a network never stands  *)
(* without its bridge, that a bare-metal worker in the cluster is          *)
(* reachable, that a kubeconfig is that of a cluster that is there, and    *)
(* that a clean-up run removes everything.                                 *)
(***************************************************************************)
EXTENDS VMDeploy, TLAPS

Assumptions == NetworkAssumption /\ BareMetalAssumption /\ DeployAssumption

LEMMA AssumptionsHold == Assumptions
  BY NetworkAssumption, BareMetalAssumption, DeployAssumption DEF Assumptions

(* The loops of a run, and what they count up to.                          *)
VMLoops == {"rmvm", "mkvm", "boot", "install"}
NetLoops == {"rmnet", "rmbr", "mknet", "define", "startnet"}

Bounded ==
  /\ at \in Nat \ {0}
  /\ pc \in VMLoops => at <= NumVMs
  /\ pc \in NetLoops => at <= NumNets
  /\ pc = "adopt" => at <= 9 /\ cl = "host"
  /\ pc = "align" => at <= Len(PatchOrder(cl))
  /\ pc \notin VMLoops \cup NetLoops \cup {"adopt", "align"} => at = 1

(* Everything TypeOK says but the bound of at.                             *)
TypedRun ==
  /\ pc \in Steps /\ cl \in Cluster /\ flags \in RealFlags
  /\ result \in {"none", "done", "failed", "killed"}
  /\ misread \subseteq Net
  /\ faulted \in BOOLEAN /\ failedEver \in BOOLEAN /\ faults \in 0..MaxFaults
TypedNodes ==
  /\ dom \in [VM -> {"absent", "defined", "running"}]
  /\ kube \in [VM -> {"none", "partial", "current", "old"}]
  /\ nodeIP \in [VM -> {"default", "written", "used"}]
  /\ gwIP \in BOOLEAN
  /\ kubeconfig \in [Cluster -> {"none", "current", "old"}]
Typed == TypedRun /\ TypedNodes /\ NetworkTypeOK /\ BareMetalTypeOK

-----------------------------------------------------------------------------
LEMMA Sizes ==
  /\ NumNets \in Nat /\ NumNets >= 2 /\ NumVMs \in Nat /\ NumVMs >= 2
  /\ Masters \in Nat \ {0} /\ Workers \in Nat
  /\ NumVMs = Masters + Workers + 1
<1> USE AssumptionsHold DEF Assumptions, NetworkAssumption, DeployAssumption, NumNets, NumVMs
<1> QED OBVIOUS

LEMMA FirstMasters ==
  /\ Master("host") = 1 /\ Master("dpu") = NumVMs
  /\ Master("host") \in VM /\ Master("dpu") \in VM
  /\ ClusterOf(Master("host")) = "host" /\ ClusterOf(Master("dpu")) = "dpu"
  BY Sizes DEF Master, VM, ClusterOf

(* ensureKubeletUsesK8sNodeIP's order is one of VMs, and ends.             *)
LEMMA PatchOrders ==
  ASSUME NEW c \in Cluster
  PROVE  Len(PatchOrder(c)) \in 1..NumVMs
<1>1. CASE c = "dpu"
  <2>1. PatchOrder(c) = <<NumVMs>>
    BY <1>1 DEF PatchOrder
  <2> QED BY <2>1, Sizes
<1>2. CASE c = "host"
  <2> DEFINE f == [i \in 1..(Masters + Workers) |->
          IF i <= Workers THEN Masters + i
          ELSE IF i < Masters + Workers THEN i - Workers + 1 ELSE 1]
  <2>1. PatchOrder(c) = f
    BY <1>2 DEF PatchOrder
  <2>2. DOMAIN f = 1..(Masters + Workers)
    OBVIOUS
  <2>3. f \in Seq(Nat)
    BY Sizes
  <2>4. Len(f) = Masters + Workers
    BY <2>2, <2>3, Sizes
  <2> QED BY <2>1, <2>4, Sizes
<1> QED BY <1>1, <1>2 DEF Cluster

LEMMA Stages ==
  /\ Len(AdoptStages) = 9
  /\ AdoptStages[1] = "ssh" /\ AdoptStages[2] = "bootc" /\ AdoptStages[3] = "stop"
  /\ AdoptStages[4] = "wipe" /\ AdoptStages[5] = "validate" /\ AdoptStages[6] = "nodeip"
  /\ AdoptStages[7] = "forward" /\ AdoptStages[8] = "routes" /\ AdoptStages[9] = "join"
  BY DEF AdoptStages

(* A stage of an adoption changes the node, or ends the run.               *)
Stays == Advance("adopt", 9, "workers")
StageEffect ==
  \/ at = 1 /\ InstallKey /\ Stays
  \/ at = 2 /\ ApplyBootc /\ Stays
  \/ at = 3 /\ StopServices /\ Stays
  \/ at = 4 /\ WipeState /\ Stays
  \/ at = 5 /\ UNCHANGED bareMetalVars /\ (IF ResetIsValid THEN Stays ELSE End("failed"))
  \/ at = 6 /\ SetKubeletNodeIP /\ Stays
  \/ at = 7 /\ AllowForwarding /\ Stays
  \/ at = 8 /\ AddRoutes /\ Stays
  \/ at = 9 /\ CanJoin /\ JoinNode /\ Stays
  \/ at = 9 /\ ~CanJoin /\ UNCHANGED bareMetalVars /\ End("failed")

LEMMA StageByStage ==
  ASSUME Adopt, at \in 1..9
  PROVE  StageEffect
<1> USE Stages DEF Stage, NextStage, Stays, StageEffect
<1>1. CASE at = 1
  BY <1>1 DEF Adopt
<1>2. CASE at = 2
  BY <1>2 DEF Adopt
<1>3. CASE at = 3
  BY <1>3 DEF Adopt
<1>4. CASE at = 4
  BY <1>4 DEF Adopt
<1>5. CASE at = 5
  BY <1>5 DEF Adopt
<1>6. CASE at = 6
  BY <1>6 DEF Adopt
<1>7. CASE at = 7
  BY <1>7 DEF Adopt
<1>8. CASE at = 8
  BY <1>8 DEF Adopt
<1>9. CASE at = 9
  BY <1>9 DEF Adopt
<1> QED BY <1>1, <1>2, <1>3, <1>4, <1>5, <1>6, <1>7, <1>8, <1>9

-----------------------------------------------------------------------------
LEMMA BoundedStep ==
  ASSUME Typed, Bounded, [Next]_vars
  PROVE  Bounded'
<1> USE DEF Bounded, VMLoops, NetLoops, Goto, Within, Advance, End
<1> USE Sizes
<1>a. cl \in Cluster
  BY DEF Typed, TypedRun
<1>b. Len(PatchOrder("host")) \in 1..NumVMs /\ Len(PatchOrder("dpu")) \in 1..NumVMs
  BY PatchOrders DEF Cluster
<1>1. ASSUME NEW f \in RealFlags, Run(f) PROVE Bounded'
  BY <1>1 DEF Run
<1>2. CASE Cleaning
  BY <1>2 DEF Cleaning, CleanKubeconfigs, RemoveVM, RemoveNetwork, RemoveBridge,
     NextNetwork, AfterCleanup, AfterDeploy
<1>3. CASE Configure \/ Restart
  BY <1>3 DEF Configure, Restart, AfterPrerequisites, AfterCleanup, AfterDeploy
<1>4. CASE CreateNetwork \/ DefineNetwork \/ StartNetwork
  BY <1>4 DEF CreateNetwork, DefineNetwork, StartNetwork
<1>5. CASE CreateVM \/ WaitForVM \/ AssignGatewayIP
  BY <1>5 DEF CreateVM, WaitForVM, AskVM, AssignGatewayIP, AfterDeploy
<1>6. CASE InstallKubernetes \/ Prepare \/ InitControlPlane \/ SaveKubeconfig
  BY <1>6 DEF InstallKubernetes, AskVM, Prepare, InitControlPlane, SaveKubeconfig
<1>7. CASE JoinMasters \/ JoinWorkers
  BY <1>7, <1>a, <1>b DEF JoinMasters, JoinWorkers, JoinVMs, Cluster
<1>8. CASE Adopt
  <2>1. pc = "adopt" /\ at \in 1..9
    BY <1>8 DEF Adopt
  <2>2. Stays \/ End("failed")
    BY <1>8, <2>1, StageByStage DEF StageEffect
  <2> QED BY <2>1, <2>2 DEF Stays
<1>9. CASE Align
  BY <1>9 DEF Align
<1>10. CASE NodesReady \/ InstallCNI \/ PostInstall \/ Report
  BY <1>10 DEF NodesReady, InstallCNI, PostInstall, Report
<1>11. CASE CleanupFails
  BY <1>11 DEF CleanupFails, SkipBridge, NextNetwork, AfterCleanup, AfterDeploy
<1>12. CASE LookupFails \/ RunFails \/ Kill
  BY <1>12 DEF LookupFails, RunFails, Kill
<1>13. CASE StopRefused
  BY <1>13, Stages DEF StopRefused, NextStage
<1>14. CASE UNCHANGED vars
  BY <1>14 DEF vars
<1> QED
  BY <1>1, <1>2, <1>3, <1>4, <1>5, <1>6, <1>7, <1>8, <1>9, <1>10, <1>11, <1>12, <1>13, <1>14
  DEF Next, Deploying, Installing, Faults

-----------------------------------------------------------------------------
LEMMA PatchOrderIsVMs ==
  ASSUME NEW c \in Cluster, NEW i \in 1..Len(PatchOrder(c))
  PROVE  PatchOrder(c)[i] \in VM
<1>1. CASE c = "dpu"
  <2>1. PatchOrder(c) = <<NumVMs>>
    BY <1>1 DEF PatchOrder
  <2> QED BY <2>1, Sizes DEF VM
<1>2. CASE c = "host"
  <2> DEFINE f == [j \in 1..(Masters + Workers) |->
          IF j <= Workers THEN Masters + j
          ELSE IF j < Masters + Workers THEN j - Workers + 1 ELSE 1]
  <2>1. PatchOrder(c) = f
    BY <1>2 DEF PatchOrder
  <2>2. f \in Seq(Nat) /\ Len(f) = Masters + Workers
    <3>1. DOMAIN f = 1..(Masters + Workers)
      OBVIOUS
    <3>2. f \in Seq(Nat)
      BY Sizes
    <3> QED BY <3>1, <3>2, Sizes
  <2>3. i \in 1..(Masters + Workers)
    BY <2>1, <2>2
  <2>4. f[i] \in 1..NumVMs
    BY <2>3, Sizes
  <2> QED BY <2>1, <2>4 DEF VM
<1> QED BY <1>1, <1>2 DEF Cluster

(* The part of Typed about the run: every step keeps it.                   *)
LEMMA TypedRunStep ==
  ASSUME Typed, Bounded, [Next]_vars
  PROVE  TypedRun'
<1> USE DEF Typed, TypedRun, Goto, Within, Advance, End, Ran, own, Steps, Cluster
<1>a. MaxFaults \in Nat
  BY AssumptionsHold DEF Assumptions, DeployAssumption
<1>1. ASSUME NEW f \in RealFlags, Run(f) PROVE TypedRun'
  BY <1>1 DEF Run
<1>2. CASE Cleaning
  BY <1>2 DEF Cleaning, CleanKubeconfigs, RemoveVM, RemoveNetwork, RemoveBridge,
     NextNetwork, AfterCleanup, AfterDeploy
<1>3. CASE Configure \/ Restart
  BY <1>3 DEF Configure, Restart, AfterPrerequisites, AfterCleanup, AfterDeploy
<1>4. CASE CreateNetwork \/ DefineNetwork \/ StartNetwork
  BY <1>4 DEF CreateNetwork, DefineNetwork, StartNetwork
<1>5. CASE CreateVM \/ WaitForVM \/ AssignGatewayIP
  BY <1>5 DEF CreateVM, WaitForVM, AskVM, AssignGatewayIP, AfterDeploy
<1>6. CASE InstallKubernetes \/ Prepare \/ InitControlPlane \/ SaveKubeconfig
  BY <1>6 DEF InstallKubernetes, AskVM, Prepare, InitControlPlane, SaveKubeconfig
<1>7. CASE JoinMasters \/ JoinWorkers
  BY <1>7 DEF JoinMasters, JoinWorkers, JoinVMs
<1>8. CASE Adopt
  <2>1. pc = "adopt" /\ at \in 1..9
    BY <1>8 DEF Adopt, Bounded
  <2>2. Stays \/ End("failed")
    BY <1>8, <2>1, StageByStage DEF StageEffect
  <2>3. Ran
    BY <1>8 DEF Adopt
  <2> QED BY <2>1, <2>2, <2>3 DEF Stays
<1>9. CASE Align
  BY <1>9 DEF Align
<1>10. CASE NodesReady \/ InstallCNI \/ PostInstall \/ Report
  BY <1>10 DEF NodesReady, InstallCNI, PostInstall, Report
<1>11. CASE CleanupFails
  BY <1>11, <1>a DEF CleanupFails, SkipBridge, NextNetwork, AfterCleanup, AfterDeploy,
     Errored, Failed
<1>12. CASE LookupFails
  <2>1. at \in Net
    BY <1>12 DEF LookupFails, Bounded, NetLoops, Net
  <2> QED BY <1>12, <1>a, <2>1 DEF LookupFails, Failed
<1>13. CASE RunFails \/ Kill \/ StopRefused
  <2>1. CASE RunFails
    BY <2>1, <1>a DEF RunFails, Errored, Failed
  <2>2. CASE Kill
    BY <2>2, <1>a DEF Kill
  <2>3. CASE StopRefused
    BY <2>3, <1>a DEF StopRefused, NextStage, Errored, Failed
  <2> QED BY <1>13, <2>1, <2>2, <2>3
<1>14. CASE UNCHANGED vars
  BY <1>14 DEF vars
<1> QED
  BY <1>1, <1>2, <1>3, <1>4, <1>5, <1>6, <1>7, <1>8, <1>9, <1>10, <1>11, <1>12, <1>13, <1>14
  DEF Next, Deploying, Installing, Faults

(* The part about the VMs.                                                 *)
LEMMA TypedNodesStep ==
  ASSUME Typed, Bounded, [Next]_vars
  PROVE  TypedNodes'
<1> USE DEF Typed, TypedNodes, nodes, vars
<1>1. ASSUME NEW f \in RealFlags, Run(f) PROVE TypedNodes'
  BY <1>1 DEF Run
<1>2. CASE CleanKubeconfigs
  BY <1>2 DEF CleanKubeconfigs, ForgetKubeconfigs
<1>3. CASE RemoveVM
  <2>1. CASE dom[at] = "absent"
    BY <1>3, <2>1 DEF RemoveVM
  <2>2. CASE VMGone(at)
    <3>1. dom' \in [VM -> {"absent", "defined", "running"}]
      BY <2>2 DEF VMGone
    <3>2. kube' \in [VM -> {"none", "partial", "current", "old"}]
      BY <2>2 DEF VMGone, Orphan
    <3>3. nodeIP' \in [VM -> {"default", "written", "used"}] /\ gwIP' \in BOOLEAN
      BY <2>2 DEF VMGone
    <3>4. kubeconfig' \in [Cluster -> {"none", "current", "old"}]
      BY <2>2 DEF VMGone, Orphan, ClusterOf, Cluster
    <3> QED BY <3>1, <3>2, <3>3, <3>4
  <2> QED BY <1>3, <2>1, <2>2 DEF RemoveVM
<1>4. CASE RemoveNetwork \/ RemoveBridge \/ Configure \/ Restart
  BY <1>4 DEF RemoveNetwork, RemoveBridge, Configure, Restart
<1>5. CASE CreateNetwork \/ DefineNetwork \/ StartNetwork
  BY <1>5 DEF CreateNetwork, DefineNetwork, StartNetwork
<1>6. CASE CreateVM \/ AssignGatewayIP
  BY <1>6 DEF CreateVM, AssignGatewayIP
<1>7. CASE WaitForVM \/ InstallKubernetes \/ Prepare
  BY <1>7 DEF WaitForVM, InstallKubernetes, AskVM, Prepare
<1>8. CASE InitControlPlane \/ SaveKubeconfig
  BY <1>8 DEF InitControlPlane, SaveKubeconfig
<1>9. CASE JoinMasters \/ JoinWorkers
  BY <1>9 DEF JoinMasters, JoinWorkers, JoinVMs
<1>10. CASE Align
  BY <1>10 DEF Align
<1>11. CASE Adopt \/ NodesReady \/ InstallCNI \/ PostInstall \/ Report
  BY <1>11 DEF Adopt, NodesReady, InstallCNI, PostInstall, Report
<1>12. CASE CleanupFails
  BY <1>12 DEF CleanupFails
<1>13. CASE LookupFails \/ StopRefused \/ Kill
  BY <1>13 DEF LookupFails, StopRefused, Kill
<1>14. CASE RunFails
  BY <1>14 DEF RunFails, Half
<1>15. CASE UNCHANGED vars
  BY <1>15
<1> QED
  BY <1>1, <1>2, <1>3, <1>4, <1>5, <1>6, <1>7, <1>8, <1>9, <1>10, <1>11, <1>12, <1>13, <1>14,
     <1>15
  DEF Next, Cleaning, Deploying, Installing, Faults

(* The part about the networks.                                            *)
LEMMA NetworkStep ==
  ASSUME Typed, Bounded, [Next]_vars
  PROVE  NetworkTypeOK'
<1> USE DEF Typed, NetworkTypeOK, networkVars
<1>1. ASSUME NEW f \in RealFlags, Run(f) PROVE NetworkTypeOK'
  BY <1>1 DEF Run
<1>2. CASE Cleaning
  BY <1>2 DEF Cleaning, CleanKubeconfigs, RemoveVM, RemoveNetwork, RemoveBridge,
     SetNetwork, DeleteBridge
<1>3. CASE Configure \/ Restart
  BY <1>3 DEF Configure, Restart, InstallConf, RestartLibvirt
<1>4. CASE CreateNetwork \/ DefineNetwork \/ StartNetwork
  BY <1>4 DEF CreateNetwork, DefineNetwork, StartNetwork, AddBridge, SetNetwork
<1>5. CASE CreateVM \/ WaitForVM \/ AssignGatewayIP
  BY <1>5 DEF CreateVM, WaitForVM, AskVM, AssignGatewayIP
<1>6. CASE Installing \/ Report
  BY <1>6 DEF Installing, Report, InstallKubernetes, AskVM, Prepare, InitControlPlane,
     SaveKubeconfig, JoinMasters, JoinWorkers, JoinVMs, Adopt, Align, NodesReady,
     InstallCNI, PostInstall
<1>7. CASE CleanupFails
  BY <1>7 DEF CleanupFails
<1>8. CASE LookupFails \/ StopRefused \/ Kill
  BY <1>8 DEF LookupFails, StopRefused, Kill
<1>9. CASE RunFails
  BY <1>9 DEF RunFails, Half, AddBridgeDown
<1>10. CASE UNCHANGED vars
  BY <1>10 DEF vars
<1> QED
  BY <1>1, <1>2, <1>3, <1>4, <1>5, <1>6, <1>7, <1>8, <1>9, <1>10
  DEF Next, Deploying, Faults

(* The part about the bare-metal worker.                                   *)
LEMMA BareMetalStep ==
  ASSUME Typed, Bounded, [Next]_vars
  PROVE  BareMetalTypeOK'
<1> USE DEF Typed, BareMetalTypeOK, bareMetalVars
<1>1. ASSUME NEW f \in RealFlags, Run(f) PROVE BareMetalTypeOK'
  BY <1>1 DEF Run
<1>2. CASE CleanKubeconfigs \/ RemoveNetwork \/ RemoveBridge
  BY <1>2 DEF CleanKubeconfigs, RemoveNetwork, RemoveBridge
<1>3. CASE RemoveVM
  BY <1>3 DEF RemoveVM, VMGone, ClusterLost, Orphan
<1>4. CASE Deploying
  BY <1>4 DEF Deploying, Configure, Restart, CreateNetwork, DefineNetwork, StartNetwork,
     CreateVM, WaitForVM, AskVM, AssignGatewayIP
<1>5. CASE InstallKubernetes \/ Prepare \/ InitControlPlane \/ SaveKubeconfig
  BY <1>5 DEF InstallKubernetes, AskVM, Prepare, InitControlPlane, SaveKubeconfig
<1>6. CASE JoinMasters \/ JoinWorkers \/ Align
  BY <1>6 DEF JoinMasters, JoinWorkers, JoinVMs, Align
<1>7. CASE Adopt
  <2>0. at \in 1..9
    BY <1>7 DEF Bounded, Adopt
  <2>1. StageEffect
    BY <1>7, <2>0, StageByStage
  <2>2. CASE InstallKey \/ ApplyBootc \/ StopServices \/ WipeState
    BY <2>2 DEF InstallKey, ApplyBootc, StopServices, WipeState
  <2>3. CASE SetKubeletNodeIP \/ AddRoutes \/ JoinNode \/ UNCHANGED bareMetalVars
    BY <2>3 DEF SetKubeletNodeIP, AddRoutes, JoinNode
  <2>4. CASE AllowForwarding
    BY <2>4 DEF AllowForwarding, InsertForward
  <2> QED BY <2>1, <2>2, <2>3, <2>4 DEF StageEffect
<1>8. CASE NodesReady \/ InstallCNI \/ PostInstall \/ Report
  BY <1>8 DEF NodesReady, InstallCNI, PostInstall, Report
<1>9. CASE CleanupFails \/ LookupFails \/ StopRefused \/ Kill
  BY <1>9 DEF CleanupFails, LookupFails, StopRefused, Kill
<1>10. CASE RunFails
  BY <1>10 DEF RunFails, Half, InsertForward
<1>11. CASE UNCHANGED vars
  BY <1>11 DEF vars
<1> QED
  BY <1>1, <1>2, <1>3, <1>4, <1>5, <1>6, <1>7, <1>8, <1>9, <1>10, <1>11
  DEF Next, Cleaning, Installing, Faults

-----------------------------------------------------------------------------
LEMMA TypedInit == Init => Typed /\ Bounded
<1> SUFFICES ASSUME Init PROVE Typed /\ Bounded
  OBVIOUS
<1>1. TypedRun
  <2>1. Default \in RealFlags
    BY DEF Default, RealFlags, Flags
  <2>2. 0 \in 0..MaxFaults
    BY AssumptionsHold DEF Assumptions, DeployAssumption
  <2>3. "idle" \in Steps /\ "host" \in Cluster
    BY DEF Steps, Cluster
  <2> QED BY <2>1, <2>2, <2>3 DEF Init, TypedRun
<1>2. TypedNodes
  BY DEF Init, TypedNodes
<1>3. NetworkTypeOK
  BY DEF Init, NetworkInit, NetworkTypeOK
<1>5. BareMetalTypeOK
  <2>1. \A r \in Rules : forward[r] \in 0..1
    BY DEF Init, BareMetalInit
  <2> QED BY <2>1, Zenon DEF Init, BareMetalInit, BareMetalTypeOK
<1>4. Bounded
  BY DEF Init, Bounded, VMLoops, NetLoops
<1> QED BY <1>1, <1>2, <1>3, <1>4, <1>5 DEF Typed

LEMMA TypedStep == ASSUME Typed, Bounded, [Next]_vars PROVE Typed' /\ Bounded'
  BY BoundedStep, TypedRunStep, TypedNodesStep, NetworkStep, BareMetalStep DEF Typed

LEMMA TypedImplies == ASSUME Typed, Bounded PROVE TypeOK
<1>1. at \in 1..(NumNets + NumVMs + Len(AdoptStages))
  <2>1. cl \in Cluster
    BY DEF Typed, TypedRun
  <2>2. Len(PatchOrder(cl)) \in 1..NumVMs
    BY <2>1, PatchOrders
  <2> QED BY <2>2, Sizes, Stages DEF Bounded
<1> QED BY <1>1 DEF Typed, TypedRun, TypedNodes, TypeOK

LEMMA AlwaysTyped == Spec => [](Typed /\ Bounded)
<1>1. Typed /\ Bounded /\ [Next]_vars => (Typed /\ Bounded)'
  BY TypedStep
<1> QED BY <1>1, TypedInit, PTL DEF Spec

(* The variables keep their types, and the place of a run in the loop it is*)
(* in stays within that loop, whatever fails and wherever runs are killed. *)
THEOREM TypeCorrect == Spec => []TypeOK
<1>1. Typed /\ Bounded => TypeOK
  BY TypedImplies
<1> QED BY <1>1, AlwaysTyped, PTL

-----------------------------------------------------------------------------
(* What NetworkHasBridge rests on: a network is defined after its bridge   *)
(* was added in the same turn of the loop, and the bridge is removed after *)
(* the network, or what the lookup took for no network.                    *)
Bridged ==
  /\ NetworkHasBridge
  /\ pc \in {"define", "startnet"} /\ ~IsNat(at) => bridge[at] # "absent"
  /\ pc = "rmbr" => net[at] = "absent" \/ at \in misread

LEMMA BridgedStep == ASSUME Typed, Bounded, Bridged, [Next]_vars PROVE Bridged'
<1> USE DEF Bridged, NetworkHasBridge, Goto, Within, Advance, End, Exists, Ran, own,
            networkVars
<1>a. /\ net \in [Net -> {"absent", "defined", "active"}]
      /\ bridge \in [{n \in Net : ~IsNat(n)} -> {"absent", "down", "up"}]
  BY DEF Typed, NetworkTypeOK
<1>b. pc \in NetLoops => at \in Net
  BY DEF Bounded, Net
<1>1. ASSUME NEW f \in RealFlags, Run(f) PROVE Bridged'
  BY <1>1 DEF Run
<1>2. CASE CleanKubeconfigs \/ RemoveVM
  BY <1>2 DEF CleanKubeconfigs, RemoveVM
<1>3. CASE RemoveNetwork
  BY <1>3, <1>a, <1>b DEF RemoveNetwork, SetNetwork, NextNetwork, AfterCleanup, AfterDeploy,
     NetLoops
<1>4. CASE RemoveBridge
  BY <1>4, <1>a, <1>b DEF RemoveBridge, DeleteBridge, NextNetwork, AfterCleanup,
     AfterDeploy, NetLoops
<1>5. CASE Configure \/ Restart
  BY <1>5 DEF Configure, Restart, InstallConf, RestartLibvirt, AfterPrerequisites,
     AfterCleanup, AfterDeploy
<1>6. CASE CreateNetwork
  BY <1>6, <1>a, <1>b DEF CreateNetwork, AddBridge, NetLoops
<1>7. CASE DefineNetwork
  BY <1>7, <1>a, <1>b DEF DefineNetwork, SetNetwork, NetLoops
<1>8. CASE StartNetwork
  BY <1>8, <1>a, <1>b DEF StartNetwork, SetNetwork, NetLoops
<1>9. CASE CreateVM \/ WaitForVM \/ AssignGatewayIP
  BY <1>9 DEF CreateVM, WaitForVM, AskVM, AssignGatewayIP, AfterDeploy
<1>10. CASE InstallKubernetes \/ Prepare \/ InitControlPlane \/ SaveKubeconfig
  BY <1>10 DEF InstallKubernetes, AskVM, Prepare, InitControlPlane, SaveKubeconfig
<1>11. CASE JoinMasters \/ JoinWorkers \/ Align
  BY <1>11 DEF JoinMasters, JoinWorkers, JoinVMs, Align
<1>12. CASE Adopt
  <2>1. pc = "adopt" /\ at \in 1..9
    BY <1>12 DEF Adopt, Bounded
  <2>2. Stays \/ End("failed")
    BY <1>12, <2>1, StageByStage DEF StageEffect
  <2> QED BY <1>12, <2>2 DEF Adopt, Stays
<1>13. CASE NodesReady \/ InstallCNI \/ PostInstall \/ Report
  BY <1>13 DEF NodesReady, InstallCNI, PostInstall, Report
<1>14. CASE CleanupFails
  BY <1>14, <1>a, <1>b DEF CleanupFails, Errored, Failed, SkipBridge, NextNetwork,
     AfterCleanup, AfterDeploy, NetLoops
<1>15. CASE LookupFails
  BY <1>15, <1>a, <1>b DEF LookupFails, Failed
<1>16. CASE RunFails
  BY <1>16, <1>a, <1>b DEF RunFails, Half, Errored, Failed, AddBridgeDown
<1>17. CASE StopRefused \/ Kill
  BY <1>17 DEF StopRefused, NextStage, Errored, Failed, Kill
<1>18. CASE UNCHANGED vars
  BY <1>18 DEF vars
<1> QED
  BY <1>1, <1>2, <1>3, <1>4, <1>5, <1>6, <1>7, <1>8, <1>9, <1>10, <1>11, <1>12, <1>13, <1>14,
     <1>15, <1>16, <1>17, <1>18
  DEF Next, Cleaning, Deploying, Installing, Faults

(* A network stands on a bridge at every step of every run, failing, killed*)
(* or not, but for networks a failed lookup hid from a clean-up.           *)
THEOREM NetworksStandOnBridges == Spec => []NetworkHasBridge
<1>1. Init => Bridged
  BY DEF Init, NetworkInit, Bridged, NetworkHasBridge, Exists
<1>2. Typed /\ Bounded /\ Bridged /\ [Next]_vars => Bridged'
  BY BridgedStep
<1>3. Bridged => NetworkHasBridge
  BY DEF Bridged
<1> QED BY <1>1, <1>2, <1>3, AlwaysTyped, PTL DEF Spec

-----------------------------------------------------------------------------
(* What MemberIsReachable rests on: a worker holds files of this cluster   *)
(* only while the control plane they came from is there, so none in the    *)
(* stages before the join; and its node IP is set before that.             *)
Reachable ==
  /\ MemberIsReachable
  /\ files = "current" => kube[1] = "current"
  /\ pc \in {"save", "masters", "adopt"} /\ cl = "host" =>
       files # "current" /\ kube[1] = "current"
  /\ pc = "adopt" /\ at > 6 => extraIP

LEMMA ReachableStep == ASSUME Typed, Bounded, Reachable, [Next]_vars PROVE Reachable'
<1> USE DEF Reachable, MemberIsReachable, Joined, Forwarded, Goto, Within, Advance, End, Ran,
            own, nodes, bareMetalVars
<1>a. /\ kube \in [VM -> {"none", "partial", "current", "old"}] /\ cl \in Cluster
      /\ 1 \in VM /\ Master("host") = 1 /\ Master("dpu") \in VM /\ Master("dpu") # 1
  BY FirstMasters, Sizes DEF Typed, TypedRun, TypedNodes
<1>1. ASSUME NEW f \in RealFlags, Run(f) PROVE Reachable'
  BY <1>1 DEF Run
<1>2. CASE CleanKubeconfigs \/ RemoveNetwork \/ RemoveBridge
  BY <1>2 DEF CleanKubeconfigs, RemoveNetwork, RemoveBridge, NextNetwork, AfterCleanup,
     AfterDeploy
<1>3. CASE RemoveVM
  <2>1. pc' \in {"rmvm", "rmnet"} /\ at \in VM
    BY <1>3 DEF RemoveVM, Bounded, VMLoops, VM
  <2>2. CASE dom[at] = "absent"
    BY <1>3, <2>1, <2>2 DEF RemoveVM
  <2>3. CASE VMGone(at) /\ at = 1 /\ kube[1] = "current"
    <3>1. ClusterLost
      BY <2>3, <1>a, FirstMasters DEF VMGone
    <3> QED BY <3>1, <2>1 DEF ClusterLost, Orphan
  <2>4. CASE VMGone(at) /\ ~(at = 1 /\ kube[1] = "current")
    <3>1. UNCHANGED bareMetalVars
      BY <2>4, <1>a, <2>1 DEF VMGone, ClusterOf, Master
    <3>2. kube[1] = "current" => kube'[1] = "current"
      <4>1. ASSUME kube[1] = "current" PROVE at # 1
        BY <4>1, <2>4
      <4>2. ASSUME at = Master(ClusterOf(at)), at # 1 PROVE ClusterOf(at) # ClusterOf(1)
        BY <4>2, Sizes DEF Master, ClusterOf
      <4> QED BY <4>1, <4>2, <2>4, <1>a DEF VMGone
    <3> QED BY <3>1, <3>2, <2>1
  <2> QED BY <1>3, <2>2, <2>3, <2>4 DEF RemoveVM
<1>4. CASE Configure \/ Restart
  BY <1>4 DEF Configure, Restart, AfterPrerequisites, AfterCleanup, AfterDeploy
<1>5. CASE CreateNetwork \/ DefineNetwork \/ StartNetwork
  BY <1>5 DEF CreateNetwork, DefineNetwork, StartNetwork
<1>6. CASE CreateVM \/ WaitForVM \/ AssignGatewayIP
  BY <1>6 DEF CreateVM, WaitForVM, AskVM, AssignGatewayIP, AfterDeploy
<1>7. CASE InstallKubernetes \/ Prepare
  BY <1>7 DEF InstallKubernetes, AskVM, Prepare
<1>8. CASE InitControlPlane
  BY <1>8, <1>a DEF InitControlPlane, Cluster
<1>9. CASE SaveKubeconfig
  BY <1>9 DEF SaveKubeconfig
<1>10. CASE JoinMasters
  BY <1>10, <1>a DEF JoinMasters, JoinVMs, Cluster
<1>11. CASE JoinWorkers
  BY <1>11, <1>a DEF JoinWorkers, JoinVMs
<1>12. CASE Adopt
  <2>1. pc = "adopt" /\ cl = "host" /\ at \in 1..9 /\ UNCHANGED kube
    BY <1>12 DEF Adopt, Bounded
  <2>2. StageEffect
    BY <1>12, <2>1, StageByStage
  <2>3. CASE at # 9 /\ (InstallKey \/ ApplyBootc \/ StopServices \/ WipeState) /\ Stays /\ at < 6
    BY <2>1, <2>3 DEF InstallKey, ApplyBootc, StopServices, WipeState, Stays
  <2>4. CASE at = 6 /\ SetKubeletNodeIP /\ Stays
    BY <2>1, <2>4 DEF SetKubeletNodeIP, Stays
  <2>5. CASE at \in {7, 8} /\ (AllowForwarding \/ AddRoutes) /\ Stays
    BY <2>1, <2>5 DEF AllowForwarding, AddRoutes, Stays
  <2>6. CASE at = 9 /\ CanJoin /\ JoinNode /\ Stays
    <3>1. pc' = "workers" /\ cl' = cl
      BY <2>6 DEF Stays
    <3>2. kube[1] = "current"
      BY <2>1 DEF Bounded
    <3> QED BY <2>1, <2>6, <3>1, <3>2 DEF CanJoin, JoinNode
  <2>7. CASE UNCHANGED bareMetalVars /\ ((at = 5 /\ Stays) \/ End("failed"))
    BY <2>1, <2>7 DEF Stays
  <2> QED BY <2>2, <2>3, <2>4, <2>5, <2>6, <2>7 DEF StageEffect
<1>13. CASE Align \/ NodesReady \/ InstallCNI \/ PostInstall \/ Report
  BY <1>13 DEF Align, NodesReady, InstallCNI, PostInstall, Report
<1>14. CASE CleanupFails
  BY <1>14 DEF CleanupFails, Errored, Failed, SkipBridge, NextNetwork, AfterCleanup,
     AfterDeploy
<1>15. CASE LookupFails \/ Kill
  BY <1>15 DEF LookupFails, Kill
<1>16. CASE RunFails
  <2>1. pc' = "idle"
    BY <1>16 DEF RunFails
  <2>2. CASE UNCHANGED <<kube, bareMetalVars>>
    BY <2>1, <2>2
  <2>3. CASE pc = "init" /\ kube[Master(cl)] = "none" /\ UNCHANGED bareMetalVars
             /\ kube' = [kube EXCEPT ![Master(cl)] = "partial"]
    BY <2>1, <2>3, <1>a DEF Cluster
  <2>4. CASE pc = "adopt" /\ InsertForward({"mgmt"}) /\ UNCHANGED <<files, kubelet, extraIP, routed, kube>>
    BY <2>1, <2>4 DEF Bounded
  <2> QED BY <1>16, <2>2, <2>3, <2>4 DEF RunFails, Half
<1>17. CASE StopRefused
  <2>1. pc = "adopt" /\ cl = "host" /\ at \in 1..9 /\ Stage = "stop"
    BY <1>17 DEF StopRefused, Bounded
  <2>2. at < 6
    BY <2>1, Stages DEF Stage
  <2> QED BY <1>17, <2>1, <2>2, Stages DEF StopRefused, NextStage
<1>18. CASE UNCHANGED vars
  BY <1>18 DEF vars
<1> QED
  BY <1>1, <1>2, <1>3, <1>4, <1>5, <1>6, <1>7, <1>8, <1>9, <1>10, <1>11, <1>12, <1>13, <1>14,
     <1>15, <1>16, <1>17, <1>18
  DEF Next, Cleaning, Deploying, Installing, Faults

LEMMA AlwaysReachable == Spec => []Reachable
<1>1. Init => Reachable
  BY DEF Init, BareMetalInit, Reachable, MemberIsReachable, Joined
<1>2. Typed /\ Bounded /\ Reachable /\ [Next]_vars => Reachable'
  BY ReachableStep
<1> QED BY <1>1, <1>2, AlwaysTyped, PTL DEF Spec

(* A bare-metal worker that is in the cluster has routes, forwarding and   *)
(* its own kubelet address, however the runs before ended: a cluster that  *)
(* is lost takes the worker out of it, and no later step undoes the three. *)
THEOREM MembersAreReachable == Spec => []MemberIsReachable
<1>1. Reachable => MemberIsReachable
  BY DEF Reachable
<1> QED BY <1>1, AlwaysReachable, PTL

-----------------------------------------------------------------------------
(* What KubeconfigHasCluster rests on: a clean-up forgets the kubeconfigs  *)
(* before it removes the first VM; past the installation of the packages   *)
(* every VM is known to run; a kubeconfig is fetched from a control plane  *)
(* this run has initialised.                                               *)
Known == {"prepare", "init", "save", "masters", "adopt", "workers", "align", "ready", "cni"}
Forgetting == pc = "rmvm" \/ (pc \in {"conf", "restart"} /\ flags.cleanup)

Matched ==
  /\ KubeconfigHasCluster
  /\ ~failedEver /\ Forgetting => \A c \in Cluster : kubeconfig[c] = "none"
  /\ pc = "install" => \A v \in VM : v < at => dom[v] = "running"
  /\ pc \in Known => \A v \in VM : dom[v] = "running"
  /\ pc = "save" => kube[Master(cl)] = "current"

LEMMA MatchedStep == ASSUME Typed, Bounded, Matched, [Next]_vars PROVE Matched'
<1> USE DEF Matched, KubeconfigHasCluster, Known, Forgetting, Goto, Within, Advance, End, Ran,
            own, nodes
<1>a. /\ kube \in [VM -> {"none", "partial", "current", "old"}] /\ cl \in Cluster
      /\ dom \in [VM -> {"absent", "defined", "running"}]
      /\ kubeconfig \in [Cluster -> {"none", "current", "old"}]
      /\ flags \in RealFlags /\ failedEver \in BOOLEAN
  BY DEF Typed, TypedRun, TypedNodes
<1>b. \A c \in Cluster : Master(c) \in VM
  BY FirstMasters DEF Cluster
<1>1. ASSUME NEW f \in RealFlags, Run(f) PROVE Matched'
  BY <1>1 DEF Run
<1>2. CASE CleanKubeconfigs
  BY <1>2 DEF CleanKubeconfigs, ForgetKubeconfigs
<1>3. CASE RemoveVM
  <2>1. pc = "rmvm" /\ pc' \in {"rmvm", "rmnet"} /\ UNCHANGED failedEver
    BY <1>3 DEF RemoveVM
  <2>2. CASE UNCHANGED kubeconfig
    BY <2>1, <2>2
  <2>3. CASE kubeconfig' = [kubeconfig EXCEPT ![ClusterOf(at)] = Orphan(@)]
    BY <2>1, <2>3, <1>a DEF Orphan
  <2> QED BY <1>3, <2>2, <2>3 DEF RemoveVM, VMGone
<1>4. CASE RemoveNetwork \/ RemoveBridge
  BY <1>4 DEF RemoveNetwork, RemoveBridge, NextNetwork, AfterCleanup, AfterDeploy, Bounded, VM
<1>5. CASE Configure \/ Restart
  BY <1>5 DEF Configure, Restart, AfterPrerequisites, AfterCleanup, AfterDeploy, VM
<1>6. CASE CreateNetwork \/ DefineNetwork \/ StartNetwork
  BY <1>6 DEF CreateNetwork, DefineNetwork, StartNetwork
<1>7. CASE CreateVM
  <2>1. pc' \in {"mkvm", "boot", "idle"} /\ UNCHANGED <<kube, kubeconfig, failedEver>>
    BY <1>7 DEF CreateVM
  <2>2. \A v \in VM : dom[v] = "running" => dom'[v] = "running"
    BY <1>7, <1>a DEF CreateVM
  <2> QED BY <2>1, <2>2, <1>b
<1>8. CASE WaitForVM \/ AssignGatewayIP
  BY <1>8 DEF WaitForVM, AskVM, AssignGatewayIP, AfterDeploy, VM
<1>9. CASE InstallKubernetes
  <2>1. pc = "install" /\ UNCHANGED <<nodes, failedEver>>
    BY <1>9 DEF InstallKubernetes, AskVM
  <2>2. CASE pc' = "idle"
    BY <2>1, <2>2
  <2>3. CASE dom[at] = "running" /\ at < NumVMs /\ pc' = "install" /\ at' = at + 1
    <3>1. \A v \in VM : v < at + 1 => v < at \/ v = at
      BY Sizes DEF VM, Bounded
    <3> QED BY <2>1, <2>3, <3>1
  <2>4. CASE dom[at] = "running" /\ ~(at < NumVMs) /\ pc' = "prepare"
    <3>1. \A v \in VM : v < at \/ v = at
      BY <2>4, <2>1, Sizes DEF VM, Bounded, VMLoops
    <3> QED BY <2>1, <2>4, <3>1
  <2> QED BY <1>9, <2>2, <2>3, <2>4 DEF InstallKubernetes, AskVM
<1>10. CASE Prepare
  BY <1>10 DEF Prepare
<1>11. CASE InitControlPlane
  BY <1>11, <1>a, <1>b DEF InitControlPlane
<1>12. CASE SaveKubeconfig
  BY <1>12, <1>a, <1>b DEF SaveKubeconfig
<1>13. CASE JoinMasters \/ JoinWorkers
  <2>1. pc' \in {"idle", "adopt", "workers", "align"} /\ pc \in Known
    BY <1>13 DEF JoinMasters, JoinWorkers, JoinVMs
  <2>2. UNCHANGED <<dom, kubeconfig, failedEver>>
    BY <1>13 DEF JoinMasters, JoinWorkers, JoinVMs
  <2>3. \A v \in VM : kube[v] = "current" => kube'[v] = "current"
    BY <1>13, <1>a DEF JoinMasters, JoinWorkers, JoinVMs
  <2> QED BY <2>1, <2>2, <2>3, <1>b
<1>14. CASE Adopt
  <2>1. pc = "adopt" /\ at \in 1..9
    BY <1>14 DEF Adopt, Bounded
  <2>2. Stays \/ End("failed")
    BY <1>14, <2>1, StageByStage DEF StageEffect
  <2> QED BY <1>14, <2>2 DEF Adopt, Stays
<1>15. CASE Align \/ NodesReady \/ InstallCNI \/ PostInstall \/ Report
  BY <1>15 DEF Align, NodesReady, InstallCNI, PostInstall, Report
<1>16. CASE CleanupFails
  <2>1. failedEver' = TRUE
    BY <1>16 DEF CleanupFails, Errored, Failed
  <2>2. pc' \notin Known \cup {"install", "save"} \/ (pc' = "install" /\ at' = 1)
    BY <1>16 DEF CleanupFails, SkipBridge, NextNetwork, AfterCleanup, AfterDeploy
  <2> QED BY <2>1, <2>2 DEF VM
<1>17. CASE LookupFails \/ RunFails
  BY <1>17 DEF LookupFails, RunFails, Errored, Failed
<1>18. CASE StopRefused
  BY <1>18 DEF StopRefused, NextStage, Errored, Failed
<1>19. CASE Kill
  BY <1>19 DEF Kill
<1>20. CASE UNCHANGED vars
  BY <1>20 DEF vars
<1> QED
  BY <1>1, <1>2, <1>3, <1>4, <1>5, <1>6, <1>7, <1>8, <1>9, <1>10, <1>11, <1>12, <1>13, <1>14,
     <1>15, <1>16, <1>17, <1>18, <1>19, <1>20
  DEF Next, Cleaning, Deploying, Installing, Faults

LEMMA AlwaysMatched == Spec => []Matched
<1>1. Init => Matched
  BY DEF Init, Matched, KubeconfigHasCluster, Known, Forgetting
<1>2. Typed /\ Bounded /\ Matched /\ [Next]_vars => Matched'
  BY MatchedStep
<1> QED BY <1>1, <1>2, AlwaysTyped, PTL DEF Spec

(* While no command has failed, a kubeconfig on the host is that of a      *)
(* cluster that is there, wherever runs are killed: it is removed before   *)
(* the VMs are, and written after the control plane is up.                 *)
THEOREM KubeconfigsHaveClusters == Spec => []KubeconfigHasCluster
<1>1. Matched => KubeconfigHasCluster
  BY DEF Matched
<1> QED BY <1>1, AlwaysMatched, PTL

-----------------------------------------------------------------------------
(* What CleanupComplete rests on: how far a clean-up run in which nothing  *)
(* failed has come.                                                        *)
CleanupSteps == {"idle", "kubeconfigs", "conf", "restart", "rmvm", "rmnet", "rmbr", "report"}
NoKubeconfig == \A c \in Cluster : kubeconfig[c] = "none"
NoVM == \A v \in VM : dom[v] = "absent"
GoneNetwork(n) == net[n] = "absent" /\ (~IsNat(n) => bridge[n] = "absent")
Finished == pc = "report" \/ Ended

Progress ==
  /\ pc \in {"conf", "restart", "rmvm", "rmnet", "rmbr"} \/ Finished => NoKubeconfig
  /\ pc = "rmvm" => \A v \in VM : v < at => dom[v] = "absent"
  /\ pc \in {"rmnet", "rmbr"} \/ Finished => NoVM
  /\ pc \in {"rmnet", "rmbr"} => \A n \in Net : n < at => GoneNetwork(n)
  /\ pc = "rmbr" => net[at] = "absent"
  /\ Finished => \A n \in Net : GoneNetwork(n)
Cleaned ==
  /\ flags.only => pc \in CleanupSteps
  /\ flags.only /\ ~faulted => Progress

LEMMA FlagsKept == ASSUME Next PROVE (\E f \in RealFlags : Run(f)) \/ UNCHANGED flags
<1> USE DEF Ran, own, Errored, Failed
<1>1. CASE Cleaning \/ Deploying \/ Report
  BY <1>1, Zenon DEF Cleaning, Deploying, Report, CleanKubeconfigs, RemoveVM, RemoveNetwork,
     RemoveBridge, Configure, Restart, CreateNetwork, DefineNetwork, StartNetwork, CreateVM,
     WaitForVM, AskVM, AssignGatewayIP
<1>2. CASE Installing
  BY <1>2, Zenon DEF Installing, InstallKubernetes, AskVM, Prepare, InitControlPlane,
     SaveKubeconfig, JoinMasters, JoinWorkers, JoinVMs, Adopt, Align, NodesReady,
     InstallCNI, PostInstall
<1>3. CASE Faults
  BY <1>3, Zenon DEF Faults, CleanupFails, LookupFails, RunFails, StopRefused, Kill
<1> QED BY <1>1, <1>2, <1>3, Zenon DEF Next

(* A clean-up run does nothing of a deployment.                            *)
LEMMA OnlyCleans ==
  ASSUME pc \in CleanupSteps, Next
  PROVE  \/ \E f \in RealFlags : Run(f)
         \/ Cleaning \/ Configure \/ Restart \/ Report
         \/ CleanupFails \/ LookupFails \/ RunFails \/ Kill
<1> USE DEF CleanupSteps
<1>1. ~(CreateNetwork \/ DefineNetwork \/ StartNetwork \/ CreateVM \/ WaitForVM \/ AssignGatewayIP)
  BY DEF CreateNetwork, DefineNetwork, StartNetwork, CreateVM, WaitForVM, AskVM,
     AssignGatewayIP
<1>2. ~(Installing \/ StopRefused)
  BY DEF Installing, InstallKubernetes, AskVM, Prepare, InitControlPlane, SaveKubeconfig,
     JoinMasters, JoinWorkers, JoinVMs, Adopt, Align, NodesReady, InstallCNI, PostInstall,
     StopRefused
<1> QED BY <1>1, <1>2 DEF Next, Deploying, Faults

LEMMA CleanedStep == ASSUME Typed, Bounded, Cleaned, [Next]_vars PROVE Cleaned'
<1> USE DEF Goto, Within, Advance, End, Ran, own, nodes
<1>a. /\ dom \in [VM -> {"absent", "defined", "running"}]
      /\ net \in [Net -> {"absent", "defined", "active"}]
      /\ bridge \in [{n \in Net : ~IsNat(n)} -> {"absent", "down", "up"}]
      /\ kubeconfig \in [Cluster -> {"none", "current", "old"}]
  BY DEF Typed, TypedNodes, NetworkTypeOK
<1>b. flags.only => flags.cleanup
  BY DEF Typed, TypedRun, RealFlags
<1>1. CASE UNCHANGED vars
  BY <1>1 DEF vars, networkVars, Cleaned, Progress, Finished, Ended, NoKubeconfig, NoVM, GoneNetwork
<1>2. ASSUME NEW f \in RealFlags, Run(f) PROVE Cleaned'
  BY <1>2 DEF Run, RealFlags, Cleaned, CleanupSteps, Progress, Finished, Ended
<1>3. ASSUME UNCHANGED flags, ~flags.only PROVE Cleaned'
  BY <1>3 DEF Cleaned
<1>4. ASSUME Next, UNCHANGED flags, flags.only PROVE Cleaned'
  <2>0. pc \in CleanupSteps /\ (~faulted => Progress) /\ flags.cleanup
    BY <1>4, <1>b DEF Cleaned
  <2>a. Cleaned' <=> pc' \in CleanupSteps /\ (~faulted' => Progress')
    BY <1>4 DEF Cleaned
  <2> USE DEF CleanupSteps
  <2>1. CASE CleanKubeconfigs
    <3>1. pc' = "conf" /\ NoKubeconfig'
      BY <2>1 DEF CleanKubeconfigs, ForgetKubeconfigs, NoKubeconfig
    <3> QED BY <2>a, <3>1 DEF Progress, Finished, Ended
  <2>2. CASE Configure \/ Restart
    <3>1. pc \in {"conf", "restart"} /\ pc' \in {"restart", "rmvm"} /\ at' = 1
      BY <2>0, <2>2 DEF Configure, Restart, AfterPrerequisites
    <3>2. UNCHANGED <<kubeconfig, faulted>>
      BY <2>2 DEF Configure, Restart
    <3>3. \A v \in VM : ~(v < 1)
      BY DEF VM
    <3> QED BY <2>0, <2>a, <3>1, <3>2, <3>3 DEF Progress, Finished, Ended, NoKubeconfig
  <2>3. CASE RemoveVM
    <3> SUFFICES ASSUME ~faulted' PROVE Progress'
      BY <2>a, <2>3 DEF RemoveVM
    <3>0. ~faulted /\ Progress
      BY <2>0, <2>3 DEF RemoveVM
    <3>1. pc = "rmvm" /\ at \in VM
      BY <2>3 DEF RemoveVM, Bounded, VMLoops, VM
    <3>2. NoKubeconfig'
      BY <3>0, <3>1, <2>3, <1>a DEF RemoveVM, VMGone, Orphan, Progress, NoKubeconfig
    <3>3. \A v \in VM : v <= at => dom'[v] = "absent"
      <4>1. dom'[at] = "absent"
        BY <3>1, <2>3, <1>a DEF RemoveVM, VMGone
      <4>2. ASSUME NEW v \in VM, v < at PROVE dom'[v] = "absent"
        BY <3>0, <3>1, <2>3, <1>a, <4>2 DEF RemoveVM, VMGone, Progress
      <4> QED BY <4>1, <4>2, <3>1 DEF VM
    <3>4. CASE pc' = "rmvm" /\ at' = at + 1
      BY <3>2, <3>3, <3>4, <3>1 DEF Progress, Finished, Ended, VM
    <3>5. CASE pc' = "rmnet" /\ at' = 1 /\ at >= NumVMs
      <4>1. NoVM' /\ \A n \in Net : ~(n < 1)
        BY <3>1, <3>3, <3>5, Sizes DEF NoVM, VM, Net
      <4> QED BY <3>2, <3>5, <4>1 DEF Progress, Finished, Ended
    <3> QED BY <2>3, <3>1, <3>4, <3>5, Sizes DEF RemoveVM, VM
  <2>4. ASSUME RemoveNetwork \/ RemoveBridge PROVE Cleaned'
    <3>0. UNCHANGED <<kubeconfig, dom, faulted>> /\ pc \in {"rmnet", "rmbr"}
          /\ at \in Net /\ at \in Nat
      BY <2>4 DEF RemoveNetwork, RemoveBridge, Bounded, NetLoops, Net
    <3>1. AfterCleanup = "report"
      BY <1>4 DEF AfterCleanup
    <3>2. pc' \in CleanupSteps
      BY <2>4, <3>1 DEF RemoveNetwork, RemoveBridge, NextNetwork
    <3> SUFFICES ASSUME ~faulted' PROVE Progress'
      BY <2>a, <3>2
    <3>3. Progress /\ NoKubeconfig' /\ NoVM'
      BY <2>0, <3>0 DEF Progress, NoKubeconfig, NoVM
    <3>4. \A n \in Net : n < at => GoneNetwork(n)'
      <4> SUFFICES ASSUME NEW n \in Net, n < at PROVE GoneNetwork(n)'
        OBVIOUS
      <4>1. GoneNetwork(n) /\ n # at
        BY <3>0, <3>3 DEF Progress, Net
      <4> QED BY <4>1, <2>4, <1>a, <3>0 DEF RemoveNetwork, RemoveBridge, SetNetwork, DeleteBridge,
           GoneNetwork
    <3>5. net'[at] = "absent"
      BY <2>4, <1>a, <3>0, <3>3 DEF RemoveNetwork, RemoveBridge, SetNetwork, DeleteBridge,
         Progress
    <3> DEFINE gone == net'[at] = "absent" /\ (~IsNat(at) => bridge'[at] = "absent")
    <3>6. CASE NextNetwork /\ gone
      <4>1. \A n \in Net : n <= at => GoneNetwork(n)'
        BY <3>0, <3>4, <3>6 DEF Net, GoneNetwork
      <4>2. CASE pc' = "rmnet" /\ at' = at + 1
        BY <3>0, <3>3, <4>1, <4>2 DEF Progress, Finished, Ended, Net
      <4>3. CASE pc' = "report" /\ at >= NumNets
        <5>1. \A n \in Net : GoneNetwork(n)'
          BY <3>0, <4>1, <4>3, Sizes DEF Net
        <5> QED BY <3>3, <4>3, <5>1 DEF Progress, Finished, Ended
      <4> QED BY <3>0, <3>1, <3>6, <4>2, <4>3, Sizes DEF NextNetwork
    <3>7. CASE pc' = "rmbr" /\ at' = at
      BY <3>3, <3>4, <3>5, <3>7 DEF Progress, Finished, Ended
    <3>8. RemoveBridge => gone
      BY <1>a, <3>0, <3>5 DEF RemoveBridge, DeleteBridge
    <3>9. RemoveNetwork => (NextNetwork /\ gone) \/ (pc' = "rmbr" /\ at' = at)
      BY <3>5 DEF RemoveNetwork
    <3> QED BY <2>4, <3>6, <3>7, <3>8, <3>9 DEF RemoveBridge
  <2>5. CASE Report
    BY <2>0, <2>5, <2>a DEF Report, Progress, Finished, Ended, NoKubeconfig, NoVM, GoneNetwork,
       networkVars
  <2>6. CASE CleanupFails \/ LookupFails \/ RunFails
    <3>1. faulted' = TRUE
      BY <2>6 DEF CleanupFails, LookupFails, RunFails, Errored, Failed
    <3>2. pc' \in CleanupSteps
      BY <1>4, <2>6 DEF CleanupFails, LookupFails, RunFails, SkipBridge, NextNetwork,
         AfterCleanup
    <3> QED BY <2>a, <3>1, <3>2
  <2>7. CASE Kill
    BY <2>7, <2>a DEF Kill, Progress, Finished, Ended
  <2>8. CASE \E f \in RealFlags : Run(f)
    BY <2>8, <1>2
  <2> QED BY <1>4, <2>0, <2>1, <2>2, <2>3, <2>4, <2>5, <2>6, <2>7, <2>8, OnlyCleans DEF Cleaning
<1> QED BY <1>1, <1>2, <1>3, <1>4, FlagsKept

(* A clean-up run in which no command fails ends with no network, bridge,  *)
(* VM or kubeconfig left, whatever it found.                               *)
THEOREM CleanupsComplete == Spec => []CleanupComplete
<1>1. Init => Cleaned
  BY DEF Init, Default, Cleaned
<1>2. Typed /\ Bounded /\ Cleaned /\ [Next]_vars => Cleaned'
  BY CleanedStep
<1>3. Cleaned => CleanupComplete
  BY DEF Cleaned, Progress, Finished, CleanupComplete, GoneNetwork, NoVM, NoKubeconfig, Exists
<1> QED BY <1>1, <1>2, <1>3, AlwaysTyped, PTL DEF Spec
=============================================================================
