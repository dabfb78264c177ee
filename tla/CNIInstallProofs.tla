-------------------------- MODULE CNIInstallProofs --------------------------
(***************************************************************************)
(* Proofs about CNIInstall: its type invariant, that no Deployment's       *)
(* replica count is lost, that the installation implements InstallPromise, *)
(* that Whereabouts precedes Multus, and that runs on new clusters succeed *)
(* and successful runs are complete.                                       *)
(***************************************************************************)
EXTENDS CNIInstall, TLAPS

TypedRun ==
  /\ config \in Configs
  /\ pc \in Steps /\ k \in 1..2 /\ at \in Nat \ {0}
  /\ result \in {"none", "done", "failed", "killed", "unavailable"}
  /\ fresh \in BOOLEAN /\ faulted \in BOOLEAN /\ faults \in 0..MaxFaults
TypedThings ==
  /\ done \in [Cluster -> SUBSET Thing]
  /\ release \in [Cluster -> {"none", "failed", "deployed"}]
  /\ values \in [Cluster -> {"none", "empty", "current", "stale"}]
TypedDeployments ==
  /\ unrecorded \subseteq Cluster \X Deployment
  /\ replicas \in [Cluster -> [Deployment -> Nat]]
  /\ saved \in [Cluster -> [Deployment -> Nat]]
  /\ patched \in [Cluster -> [Deployment -> BOOLEAN]]
  /\ restarted \in [Cluster -> [Deployment -> BOOLEAN]]
  /\ wanted \in [Cluster -> [Deployment -> Nat]]
Typed == TypedRun /\ TypedThings /\ TypedDeployments

LEMMA TypedIsTypeOK == Typed <=> TypeOK
  BY DEF Typed, TypedRun, TypedThings, TypedDeployments, TypeOK

(* A run's loops over the Deployments stay within them, between runs it is *)
(* at the first cluster, and which steps a configuration comes to.         *)
SinceLabel == {"plugin", "values", "helm", "crds", "proxy", "secret"}
Control ==
  /\ pc = "idle" => k = 1 /\ at = 1
  /\ pc \in {"suspend", "patch", "resume", "restart"} => at <= Len(Loop)
  /\ pc \in {"corefile", "label"} \cup SinceLabel => InstallsOVNK(This)
  /\ pc = "values" => ~config.install
  /\ pc \in {"helm", "crds", "proxy", "secret"} => config.install
  /\ pc \in {"restart", "dns"} => ~Deferred(This)

-----------------------------------------------------------------------------
LEMMA Sizes == Counts \subseteq Nat /\ MaxFaults \in Nat
  BY CountsAssumption, CNIAssumption

(* What is known of every configuration, and the order of the clusters.    *)
LEMMA Configured ==
  ASSUME config \in Configs
  PROVE  /\ config.kind \in BOOLEAN /\ config.offload \in BOOLEAN
         /\ config.install \in BOOLEAN /\ config.cni \in [Cluster -> CNI]
         /\ config.offload => config.cni["host"] = "ovnk" /\ config.cni["dpu"] # "ovnk"
  BY DEF Configs

Position(c) == IF c = "host" THEN 1 ELSE 2

LEMMA Clusters ==
  ASSUME TypedRun
  PROVE  /\ Len(Ordered) = 2
         /\ This = IF k = 1 THEN "host" ELSE "dpu"
         /\ This \in Cluster /\ Position(This) = k
<1>1. config.order \in {<<"host", "dpu">>, <<"dpu", "host">>}
  BY DEF TypedRun, Configs
<1>2. ~config.offload => config.order = <<"host", "dpu">>
  BY DEF TypedRun, Configs
<1>3. Ordered = <<"host", "dpu">>
  BY <1>1, <1>2 DEF Ordered
<1>4. k \in 1..2
  BY DEF TypedRun
<1> QED BY <1>3, <1>4 DEF This, Position, Cluster

LEMMA Loops ==
  /\ Len(Loop) \in 1..2 /\ Loop[1] = "coredns"
  /\ \A i \in 1..Len(Loop) : Loop[i] \in Deployment
  BY DEF Loop, Deployment

-----------------------------------------------------------------------------
(* What depends on the configuration only does not change with a run.      *)
LEMMA SameConfiguration ==
  ASSUME config' = config
  PROVE  /\ Ordered' = Ordered /\ Loop' = Loop
         /\ k' = k => This' = This
         /\ \A c : /\ NeedsOVNK(c)' = NeedsOVNK(c) /\ InstallsOVNK(c)' = InstallsOVNK(c)
                   /\ Deferred(c)' = Deferred(c) /\ Mode(c)' = Mode(c)
  BY DEF Ordered, This, Loop, NeedsOVNK, InstallsOVNK, Deferred, Mode

LEMMA ConfigurationKept ==
  ASSUME [Next]_vars
  PROVE  config' = config
  BY DEF Next, RunFresh, Rerun, SetupOVS, Primary, InstallAddons, PreAddon, PostAddon,
     InstallOVNK, PatchCoreDNS, LabelNodes, DeployPlugin, WriteValues, HelmInstall,
     ApplyCRDs, DeleteProxy, CreateAccessSecret, PostInstall, MultusReady,
     SuspendDeployment, PatchDeployment, ResumeDeployment, RestartDeployment,
     WaitForCoreDNS, UserCommands, HostAccess, ExternalHelm, GenerateValues, Unrun,
     Disturbance, CallFails, Kill, SuspendRefused, ResumeRefused, RestartRefused,
     FlannelUnconfigured, UserScales, Ran, Failed, own, vars

LEMMA TypedRunStep ==
  ASSUME TypedRun, Control, [Next]_vars
  PROVE  TypedRun' /\ Control'
<1>a. Len(Ordered) = 2 /\ Len(Loop) \in 1..2 /\ Len(Loop') \in 1..2
  BY Clusters, Loops, ConfigurationKept, SameConfiguration
<1>b. /\ config' = config /\ Loop' = Loop /\ (k' = k => This' = This)
      /\ \A c : InstallsOVNK(c)' = InstallsOVNK(c) /\ Deferred(c)' = Deferred(c)
  BY ConfigurationKept, SameConfiguration
<1> USE <1>a, <1>b, Sizes
<1> USE DEF TypedRun, Control, Steps, SinceLabel, Goto, Advance, End, Ran, Failed, own
<1>1. CASE RunFresh \/ Rerun
  BY <1>1 DEF RunFresh, Rerun
<1>2. CASE SetupOVS \/ Primary
  BY <1>2 DEF SetupOVS, Primary
<1>3. CASE InstallAddons
  BY <1>3 DEF InstallAddons, PreAddon, PostAddon
<1>4. CASE PatchCoreDNS \/ LabelNodes \/ DeployPlugin \/ WriteValues
  BY <1>4 DEF PatchCoreDNS, LabelNodes, DeployPlugin, WriteValues
<1>5. CASE HelmInstall \/ ApplyCRDs \/ DeleteProxy \/ CreateAccessSecret
  BY <1>5 DEF HelmInstall, ApplyCRDs, DeleteProxy, CreateAccessSecret
<1>6. CASE MultusReady
  <2>1. Ran /\ (End("failed") \/ Goto("suspend"))
    BY <1>6 DEF MultusReady
  <2>2. CASE End("failed")
    BY <2>1, <2>2
  <2>3. CASE Goto("suspend")
    BY <2>1, <2>3
  <2> QED BY <2>1, <2>2, <2>3
<1>7. CASE SuspendDeployment \/ PatchDeployment
  BY <1>7 DEF SuspendDeployment, PatchDeployment, AfterSuspend, ClusterInstalled
<1>8. CASE ResumeDeployment \/ RestartDeployment \/ WaitForCoreDNS
  <2>1. CASE ResumeDeployment
    BY <2>1 DEF ResumeDeployment, ClusterRestored
  <2>2. CASE RestartDeployment
    BY <2>2 DEF RestartDeployment
  <2>3. CASE WaitForCoreDNS
    <3>1. CASE DNSCanRun(This)
      <4>1. ClusterRestored /\ Ran
        BY <2>3, <3>1 DEF WaitForCoreDNS
      <4>2. CASE k < Len(Ordered)
        BY <4>1, <4>2 DEF ClusterRestored
      <4>3. CASE ~(k < Len(Ordered))
        BY <4>1, <4>3 DEF ClusterRestored
      <4> QED BY <4>2, <4>3
    <3>2. CASE ~DNSCanRun(This)
      BY <2>3, <3>2 DEF WaitForCoreDNS
    <3> QED BY <3>1, <3>2
  <2> QED BY <1>8, <2>1, <2>2, <2>3
<1>9. CASE UserCommands
  BY <1>9 DEF UserCommands, HostAccess, ExternalHelm, GenerateValues, Unrun
<1>10. CASE CallFails \/ Kill
  <2>1. faults < MaxFaults /\ faults' = faults + 1 /\ faulted' \in BOOLEAN /\ fresh' = fresh
    BY <1>10 DEF CallFails, Kill
  <2>2. pc' = "idle" /\ k' = 1 /\ at' = 1 /\ result' \in {"failed", "killed"}
    BY <1>10 DEF CallFails, Kill
  <2> QED BY <2>1, <2>2
<1>11. CASE SuspendRefused \/ ResumeRefused \/ RestartRefused \/ FlannelUnconfigured
  <2>1. CASE SuspendRefused
    BY <2>1 DEF SuspendRefused, AfterSuspend, ClusterInstalled
  <2>2. CASE ResumeRefused
    BY <2>2 DEF ResumeRefused
  <2>3. CASE RestartRefused
    BY <2>3 DEF RestartRefused
  <2>4. CASE FlannelUnconfigured
    BY <2>4 DEF FlannelUnconfigured
  <2> QED BY <1>11, <2>1, <2>2, <2>3, <2>4
<1>12. CASE \E c \in Cluster, d \in Deployment, n \in Counts : UserScales(c, d, n)
  BY <1>12 DEF UserScales
<1>13. CASE UNCHANGED vars
  BY <1>13 DEF vars
<1> QED BY <1>1, <1>2, <1>3, <1>4, <1>5, <1>6, <1>7, <1>8, <1>9, <1>10, <1>11, <1>12, <1>13
        DEF Next, InstallOVNK, PostInstall, Disturbance

-----------------------------------------------------------------------------
LEMMA PutTyped ==
  ASSUME TypedThings, NEW c \in Cluster, NEW S \in SUBSET Thing, Put(c, S)
  PROVE  done' \in [Cluster -> SUBSET Thing]
  BY DEF TypedThings, Put

LEMMA EffectsTyped == \A a : Effects(a) \in SUBSET Thing /\ Known(a) \in SUBSET Thing
  BY DEF Effects, Known, Thing, Addon

LEMMA HalfTyped ==
  ASSUME TypedRun, TypedThings, Half
  PROVE  /\ done' \in [Cluster -> SUBSET Thing]
         /\ release' \in [Cluster -> {"none", "failed", "deployed"}]
<1> USE Clusters DEF TypedThings
<1>1. CASE UNCHANGED <<done, release>>
  BY <1>1
<1>2. CASE release' = [release EXCEPT ![This] = "failed"] /\ UNCHANGED done
  BY <1>2
<1>3. ASSUME NEW a, Put(This, Known(a)), UNCHANGED release
      PROVE  done' \in [Cluster -> SUBSET Thing] /\ release' = release
  BY <1>3, PutTyped, EffectsTyped
<1>4. ASSUME NEW S \in SUBSET {"flannel", "zones"}, Put(This, S), UNCHANGED release
      PROVE  done' \in [Cluster -> SUBSET Thing] /\ release' = release
  BY <1>4, PutTyped DEF Thing
<1> QED BY <1>1, <1>2, <1>3, <1>4 DEF Half

LEMMA TypedThingsStep ==
  ASSUME TypedRun, TypedThings, [Next]_vars
  PROVE  TypedThings'
<1>a. This \in Cluster /\ "host" \in Cluster
  BY Clusters DEF Cluster
<1>b. ASSUME NEW c \in Cluster, NEW S, S \subseteq Thing, Put(c, S)
      PROVE  done' \in [Cluster -> SUBSET Thing]
  BY <1>b, PutTyped
<1> USE <1>a DEF TypedThings
<1>1. CASE RunFresh \/ Rerun
  BY <1>1 DEF RunFresh, Rerun, Thing, installVars
<1>2. CASE SetupOVS \/ Primary \/ FlannelUnconfigured
  BY <1>2, <1>b DEF SetupOVS, Primary, FlannelUnconfigured, Thing
<1>3. CASE InstallAddons
  BY <1>3, <1>b, EffectsTyped DEF InstallAddons, PreAddon, PostAddon
<1>4. CASE PatchCoreDNS \/ LabelNodes \/ DeployPlugin \/ ApplyCRDs \/ CreateAccessSecret
  BY <1>4, <1>b DEF PatchCoreDNS, LabelNodes, DeployPlugin, ApplyCRDs, CreateAccessSecret, Thing
<1>5. CASE WriteValues
  BY <1>5 DEF WriteValues, Generated
<1>6. CASE HelmInstall \/ DeleteProxy
  BY <1>6 DEF HelmInstall, DeleteProxy
<1>7. CASE UserCommands
  <2>1. CASE HostAccess
    BY <2>1, <1>b DEF HostAccess, Thing
  <2>2. ASSUME NEW c \in Cluster, ExternalHelm(c) PROVE TypedThings'
    BY <2>2 DEF ExternalHelm
  <2>3. ASSUME NEW r \in BOOLEAN, GenerateValues(r) PROVE TypedThings'
    BY <2>3 DEF GenerateValues, Generated
  <2> QED BY <1>7, <2>1, <2>2, <2>3 DEF UserCommands
<1>8. CASE CallFails \/ Kill
  BY <1>8, HalfTyped DEF CallFails, Kill
<1>9. CASE UNCHANGED installVars
  BY <1>9 DEF installVars
<1> QED BY <1>1, <1>2, <1>3, <1>4, <1>5, <1>6, <1>7, <1>8, <1>9
        DEF Next, InstallOVNK, PostInstall, Disturbance, MultusReady, SuspendDeployment,
            PatchDeployment, ResumeDeployment, RestartDeployment, WaitForCoreDNS,
            SuspendRefused, ResumeRefused, RestartRefused, UserScales, vars, installVars

LEMMA Updated ==
  ASSUME NEW S, NEW f \in [Cluster -> [Deployment -> S]],
         NEW c \in Cluster, NEW d \in Deployment, NEW e \in S
  PROVE  [f EXCEPT ![c][d] = e] \in [Cluster -> [Deployment -> S]]
  OBVIOUS

LEMMA TypedOperations ==
  ASSUME TypedDeployments, UNCHANGED unrecorded, NEW c \in Cluster, NEW d \in Deployment,
         Suspend(c, d) \/ Resume(c, d) \/ Patch(c, d) \/ Restart(c, d)
  PROVE  TypedDeployments'
<1> USE Sizes DEF TypedDeployments
<1>1. CASE Suspend(c, d)
  <2>1. CASE replicas[c][d] = 0
    BY <1>1, <2>1 DEF Suspend
  <2>2. CASE replicas[c][d] # 0
    <3>1. /\ saved' = [saved EXCEPT ![c][d] =
                        IF saved[c][d] = 0 THEN replicas[c][d] ELSE saved[c][d]]
          /\ replicas' = [replicas EXCEPT ![c][d] = 0]
      BY <1>1, <2>2 DEF Suspend
    <3>2. (IF saved[c][d] = 0 THEN replicas[c][d] ELSE saved[c][d]) \in Nat
      OBVIOUS
    <3> QED BY <1>1, <3>1, <3>2, Updated DEF Suspend
  <2> QED BY <2>1, <2>2
<1>2. CASE Resume(c, d)
  <2>1. (IF saved[c][d] # 0 THEN saved[c][d] ELSE 1) \in Nat
    OBVIOUS
  <2> QED BY <1>2, <2>1, Updated DEF Resume
<1>3. CASE Patch(c, d) \/ Restart(c, d)
  <2>1. /\ [patched EXCEPT ![c][d] = TRUE] \in [Cluster -> [Deployment -> BOOLEAN]]
        /\ [restarted EXCEPT ![c][d] = TRUE] \in [Cluster -> [Deployment -> BOOLEAN]]
    OBVIOUS
  <2> QED BY <1>3, <2>1 DEF Patch, Restart
<1> QED BY <1>1, <1>2, <1>3

LEMMA TypedDeploymentsStep ==
  ASSUME TypedRun, Control, TypedDeployments, [Next]_vars
  PROVE  TypedDeployments'
<1>a. This \in Cluster
  BY Clusters
<1>b. pc \in {"suspend", "patch", "resume", "restart"} => Loop[at] \in Deployment
  BY Loops DEF TypedRun, Control
<1>c. \A d \in Deployment : Created(d) \in Nat \ {0}
  BY Sizes DEF Created
<1> USE Sizes, <1>a DEF TypedDeployments
<1>1. CASE RunFresh
  BY <1>1, <1>c DEF RunFresh, DeploymentsFresh
<1>2. CASE SuspendDeployment \/ PatchDeployment \/ RestartDeployment
  BY <1>2, <1>b, TypedOperations
     DEF SuspendDeployment, PatchDeployment, RestartDeployment, Ran, own
<1>3. CASE ResumeDeployment
  <2>1. CASE Deferred(This)
    BY <1>3, <2>1 DEF ResumeDeployment, Ran, own, deploymentVars
  <2>2. CASE ~Deferred(This)
    BY <1>3, <2>2, <1>b, TypedOperations DEF ResumeDeployment, Ran, own
  <2> QED BY <2>1, <2>2
<1>4. CASE SuspendRefused
  BY <1>4, <1>b DEF SuspendRefused, deploymentVars
<1>5. ASSUME NEW c \in Cluster, NEW d \in Deployment, NEW n \in Counts,
             UserScales(c, d, n)
      PROVE  TypedDeployments'
  BY <1>5 DEF UserScales, Scale
<1>6. CASE UNCHANGED <<unrecorded, deploymentVars>>
  BY <1>6 DEF deploymentVars
<1> QED BY <1>1, <1>2, <1>3, <1>4, <1>5, <1>6
        DEF Next, Rerun, SetupOVS, Primary, InstallAddons, PreAddon, PostAddon, InstallOVNK,
            PatchCoreDNS, LabelNodes, DeployPlugin, WriteValues, HelmInstall, ApplyCRDs,
            DeleteProxy, CreateAccessSecret, PostInstall, MultusReady, WaitForCoreDNS,
            UserCommands, HostAccess, ExternalHelm, GenerateValues, Unrun, Disturbance,
            CallFails, Kill, ResumeRefused, RestartRefused, FlannelUnconfigured, Ran, own,
            vars, deploymentVars

LEMMA TypedInit ==
  ASSUME Init
  PROVE  Typed /\ Control
<1>1. \A d \in Deployment : Created(d) \in Nat \ {0}
  BY Sizes DEF Created
<1>2. TypedRun
  <2>1. pc = "idle" /\ k = 1 /\ at = 1 /\ result = "none" /\ fresh /\ ~faulted /\ faults = 0
    BY DEF Init
  <2>2. config \in Configs /\ fresh \in BOOLEAN /\ faulted \in BOOLEAN
    BY DEF Init
  <2> QED BY <2>1, <2>2, Sizes DEF TypedRun, Steps
<1>3. Control
  BY DEF Init, Control, SinceLabel
<1>4. TypedThings
  BY DEF Init, TypedThings, Thing
<1>5. TypedDeployments
  BY <1>1, Sizes DEF Init, TypedDeployments
<1> QED BY <1>2, <1>3, <1>4, <1>5 DEF Typed

LEMMA TypedStep ==
  ASSUME Typed, Control, [Next]_vars
  PROVE  Typed' /\ Control'
  BY TypedRunStep, TypedThingsStep, TypedDeploymentsStep DEF Typed

(* However runs are started, fail, are killed and repeated, and whatever   *)
(* the lists of add-ons, every variable keeps its type; in particular a    *)
(* run's cluster is always one of the clusters.                            *)
THEOREM TypeCorrect == Spec => []TypeOK
<1>1. Init => Typed /\ Control
  BY TypedInit
<1>2. Typed /\ Control /\ [Next]_vars => Typed' /\ Control'
  BY TypedStep
<1> QED BY <1>1, <1>2, TypedIsTypeOK, PTL DEF Spec

-----------------------------------------------------------------------------
(* A Deployment that a run still has to resume is written down, or is one  *)
(* of the exceptions: those of the clusters done so far while it installs, *)
(* and those of the clusters to come while it restores.                    *)
Restoring == {"resume", "restart", "dns"}
Installing == Steps \ ({"idle"} \cup Restoring)
Held(c, d) == <<c, d>> \in unrecorded \/ saved[c][d] # 0
Awaited(c, i) ==
  \/ /\ pc \in Installing
     /\ \/ Position(c) < k
        \/ Position(c) = k /\ ((pc = "suspend" /\ i < at) \/ pc = "patch")
  \/ /\ pc \in Restoring
     /\ Position(c) > k \/ (Position(c) = k /\ pc = "resume" /\ at <= i)
AwaitedHeld ==
  \A c \in Cluster, i \in 1..Len(Loop) : Awaited(c, i) => Held(c, Loop[i])

LEMMA LoopDistinct == \A i, j \in 1..Len(Loop) : Loop[i] = Loop[j] => i = j
  BY DEF Loop

(* What comes to be awaited was so before, or its suspension is attempted. *)
Suspending == SuspendDeployment \/ SuspendRefused
LEMMA AwaitedStep ==
  ASSUME TypedRun, Control, [Next]_vars, NEW c \in Cluster, NEW i \in 1..Len(Loop),
         Awaited(c, i)'
  PROVE  \/ Awaited(c, i) /\ (ResumeDeployment /\ ~Deferred(This) => ~(c = This /\ i = at))
         \/ Suspending /\ c = This /\ i = at
<1>a. Len(Ordered) = 2 /\ Len(Loop) \in 1..2 /\ Position(This) = k /\ This \in Cluster
  BY Clusters, Loops
<1>b. /\ config' = config /\ Loop' = Loop /\ Position(c) \in 1..2
      /\ Position(c) = k => c = This
  BY <1>a, ConfigurationKept, SameConfiguration DEF Position, Cluster
<1> USE <1>a, <1>b
<1> USE DEF TypedRun, Control, Steps, Goto, Advance, End, Awaited, Installing, Restoring
<1>1. CASE RunFresh \/ Rerun
  BY <1>1 DEF RunFresh, Rerun
<1>2. CASE SetupOVS \/ Primary \/ FlannelUnconfigured
  BY <1>2 DEF SetupOVS, Primary, FlannelUnconfigured
<1>3. CASE InstallAddons
  BY <1>3 DEF InstallAddons, PreAddon, PostAddon
<1>4. CASE InstallOVNK
  BY <1>4 DEF InstallOVNK, PatchCoreDNS, LabelNodes, DeployPlugin, WriteValues, HelmInstall,
     ApplyCRDs, DeleteProxy, CreateAccessSecret
<1>5. CASE MultusReady
  BY <1>5 DEF MultusReady, ResumeDeployment
<1>6. CASE Suspending
  <2>1. pc = "suspend" /\ AfterSuspend
    BY <1>6 DEF Suspending, SuspendDeployment, SuspendRefused
  <2> QED BY <1>6, <2>1 DEF AfterSuspend, ClusterInstalled, ResumeDeployment
<1>7. CASE PatchDeployment
  BY <1>7 DEF PatchDeployment, ClusterInstalled, ResumeDeployment
<1>8. CASE ResumeDeployment
  BY <1>8 DEF ResumeDeployment, ClusterRestored
<1>9. CASE ResumeRefused \/ RestartRefused \/ RestartDeployment
  BY <1>9 DEF ResumeRefused, RestartRefused, RestartDeployment, ResumeDeployment
<1>10. CASE WaitForCoreDNS
  BY <1>10 DEF WaitForCoreDNS, ClusterRestored, ResumeDeployment
<1>11. CASE UserCommands \/ CallFails \/ Kill
  BY <1>11 DEF UserCommands, HostAccess, ExternalHelm, GenerateValues, Unrun, Commands,
     CallFails, Kill
<1>12. CASE \E e \in Cluster, d \in Deployment, n \in Counts : UserScales(e, d, n)
  BY <1>12 DEF UserScales, ResumeDeployment
<1>13. CASE UNCHANGED vars
  BY <1>13 DEF vars, ResumeDeployment
<1> QED BY <1>1, <1>2, <1>3, <1>4, <1>5, <1>6, <1>7, <1>8, <1>9, <1>10, <1>11, <1>12, <1>13
        DEF Next, PostInstall, Disturbance, Suspending

Kept(c, d) ==
  /\ wanted[c][d] # 0
  /\ \/ replicas[c][d] = wanted[c][d] /\ saved[c][d] = 0
     \/ replicas[c][d] = 0 /\ saved[c][d] = wanted[c][d]
Counted == \A c \in Cluster, d \in Deployment : <<c, d>> \notin unrecorded => Kept(c, d)

(* What each operation does to the Deployment it is applied to, and that   *)
(* it leaves the others alone.                                             *)
Untouched(e, f) ==
  /\ replicas'[e][f] = replicas[e][f] /\ saved'[e][f] = saved[e][f]
  /\ wanted'[e][f] = wanted[e][f]

LEMMA OthersUntouched ==
  ASSUME TypedDeployments, NEW c \in Cluster, NEW d \in Deployment,
         \/ Suspend(c, d) \/ Resume(c, d) \/ Patch(c, d) \/ Restart(c, d)
         \/ \E n \in Counts : Scale(c, d, n),
         NEW e \in Cluster, NEW f \in Deployment, e # c \/ f # d
  PROVE  Untouched(e, f)
  BY DEF TypedDeployments, Suspend, Resume, Patch, Restart, Scale, Untouched

LEMMA SuspendKeeps ==
  ASSUME TypedDeployments, NEW c \in Cluster, NEW d \in Deployment, Suspend(c, d), Kept(c, d)
  PROVE  Kept(c, d)' /\ saved'[c][d] # 0
<1>1. wanted[c][d] \in Nat \ {0} /\ wanted'[c][d] = wanted[c][d]
  BY Sizes DEF TypedDeployments, Suspend, Kept
<1>2. CASE replicas[c][d] = 0
  BY <1>1, <1>2, Sizes DEF Suspend, Kept
<1>3. CASE replicas[c][d] # 0
  <2>1. saved[c][d] = 0 /\ replicas[c][d] = wanted[c][d]
    BY <1>1, <1>3, Sizes DEF Kept
  <2>2. saved'[c][d] = replicas[c][d] /\ replicas'[c][d] = 0
    BY <1>3, <2>1 DEF Suspend, TypedDeployments
  <2> QED BY <1>1, <2>1, <2>2, Sizes DEF Kept
<1> QED BY <1>2, <1>3

LEMMA SuspendHeld ==
  ASSUME TypedDeployments, NEW c \in Cluster, NEW d \in Deployment, Suspend(c, d),
         saved[c][d] # 0
  PROVE  saved'[c][d] # 0
  BY DEF TypedDeployments, Suspend

LEMMA ResumeKeeps ==
  ASSUME TypedDeployments, NEW c \in Cluster, NEW d \in Deployment, Resume(c, d),
         Kept(c, d), saved[c][d] # 0
  PROVE  Kept(c, d)'
  BY Sizes DEF TypedDeployments, Resume, Kept

(* A count set on a Deployment with no annotation is the one that runs; in *)
(* the other cases the Deployment becomes an exception.                    *)
Scales(c, d) ==
  /\ \E n \in Counts :
        /\ Scale(c, d, n)
        /\ unrecorded' = IF n = 0 \/ saved[c][d] # 0 THEN unrecorded \cup {<<c, d>>}
                         ELSE IF pc = "idle" THEN unrecorded \ {<<c, d>>} ELSE unrecorded
  /\ UNCHANGED pc

LEMMA ScaleKeeps ==
  ASSUME TypedDeployments, NEW c \in Cluster, NEW d \in Deployment, Scales(c, d)
  PROVE  /\ <<c, d>> \notin unrecorded' => Kept(c, d)'
         /\ saved' = saved /\ (pc # "idle" => unrecorded \subseteq unrecorded')
         /\ \A e, f : e # c \/ f # d => (<<e, f>> \in unrecorded' <=> <<e, f>> \in unrecorded)
<1>1. PICK n \in Counts :
        /\ Scale(c, d, n)
        /\ unrecorded' = IF n = 0 \/ saved[c][d] # 0 THEN unrecorded \cup {<<c, d>>}
                         ELSE IF pc = "idle" THEN unrecorded \ {<<c, d>>} ELSE unrecorded
  BY DEF Scales
<1>2. saved' = saved /\ replicas'[c][d] = n /\ wanted'[c][d] = n
  BY <1>1 DEF Scale, TypedDeployments
<1>3. CASE n = 0 \/ saved[c][d] # 0
  BY <1>1, <1>2, <1>3
<1>4. CASE ~(n = 0 \/ saved[c][d] # 0)
  BY <1>1, <1>2, <1>4 DEF Kept
<1> QED BY <1>3, <1>4

(* What a step does to the Deployments: nothing, or one operation on one.  *)
Operation ==
  \/ RunFresh
  \/ UNCHANGED <<unrecorded, replicas, saved, wanted>>
  \/ SuspendDeployment /\ Suspend(This, Loop[at]) /\ UNCHANGED unrecorded
  \/ SuspendRefused
  \/ ResumeDeployment /\ ~Deferred(This) /\ Resume(This, Loop[at]) /\ UNCHANGED unrecorded
  \/ \E c \in Cluster, d \in Deployment : Scales(c, d)

LEMMA OperationStep ==
  ASSUME [Next]_vars
  PROVE  Operation
<1> USE DEF Operation
<1>1. CASE SuspendDeployment
  BY <1>1 DEF SuspendDeployment, Ran, own
<1>2. CASE ResumeDeployment
  BY <1>2 DEF ResumeDeployment, Ran, own, deploymentVars
<1>3. CASE PatchDeployment \/ RestartDeployment
  BY <1>3 DEF PatchDeployment, RestartDeployment, Patch, Restart, Ran, own
<1>4. CASE \E c \in Cluster, d \in Deployment, n \in Counts : UserScales(c, d, n)
  BY <1>4 DEF UserScales, Scales
<1>5. CASE Rerun \/ SetupOVS \/ Primary \/ InstallAddons \/ InstallOVNK
  BY <1>5 DEF Rerun, SetupOVS, Primary, InstallAddons, PreAddon, PostAddon, InstallOVNK,
     PatchCoreDNS, LabelNodes, DeployPlugin, WriteValues, HelmInstall, ApplyCRDs,
     DeleteProxy, CreateAccessSecret, Ran, own, deploymentVars
<1>6. CASE MultusReady \/ WaitForCoreDNS \/ UserCommands
  BY <1>6 DEF MultusReady, WaitForCoreDNS, UserCommands, HostAccess, ExternalHelm,
     GenerateValues, Unrun, Ran, own, deploymentVars
<1>7. CASE CallFails \/ Kill \/ ResumeRefused \/ RestartRefused \/ FlannelUnconfigured
  BY <1>7 DEF CallFails, Kill, ResumeRefused, RestartRefused, FlannelUnconfigured,
     deploymentVars
<1>8. CASE UNCHANGED vars
  BY <1>8 DEF vars, deploymentVars
<1> QED BY <1>1, <1>2, <1>3, <1>4, <1>5, <1>6, <1>7, <1>8 DEF Next, PostInstall, Disturbance

HeldNow(c, d) == <<c, d>> \in unrecorded' \/ saved'[c][d] # 0

LEMMA CountStep ==
  ASSUME Typed, Control, AwaitedHeld, Counted, [Next]_vars
  PROVE  AwaitedHeld' /\ Counted'
<1>a. /\ TypedRun /\ TypedDeployments /\ config' = config /\ Loop' = Loop
      /\ This \in Cluster /\ Position(This) = k /\ \A i \in 1..Len(Loop) : Loop[i] \in Deployment
  BY Clusters, Loops, ConfigurationKept, SameConfiguration DEF Typed
<1>b. SuspendDeployment \/ SuspendRefused \/ ResumeDeployment =>
        at \in 1..Len(Loop) /\ Loop[at] \in Deployment
  BY <1>a DEF TypedRun, Control, SuspendDeployment, SuspendRefused, ResumeDeployment
<1>c. \A c \in Cluster, d \in Deployment : <<c, d>> \notin unrecorded => Kept(c, d)
  BY DEF Counted
<1>d. ASSUME ~RunFresh,
             \A c \in Cluster, d \in Deployment :
               /\ Held(c, d) /\ (ResumeDeployment /\ ~Deferred(This) => c # This \/ d # Loop[at])
                    => Held(c, d)'
               /\ <<c, d>> \notin unrecorded' => Kept(c, d)',
             Suspending => HeldNow(This, Loop[at])
      PROVE  AwaitedHeld' /\ Counted'
  <2>1. ASSUME NEW c \in Cluster, NEW i \in 1..Len(Loop), Awaited(c, i)'
        PROVE  Held(c, Loop[i])'
    <3>1. CASE Suspending /\ c = This /\ i = at
      BY <1>a, <1>d, <3>1 DEF Held, HeldNow
    <3>2. CASE Awaited(c, i) /\ (ResumeDeployment /\ ~Deferred(This) => ~(c = This /\ i = at))
      <4>1. Held(c, Loop[i]) /\ Loop[i] \in Deployment
        BY <1>a, <3>2 DEF AwaitedHeld
      <4>2. ResumeDeployment /\ ~Deferred(This) => c # This \/ Loop[i] # Loop[at]
        BY <1>b, <3>2, LoopDistinct
      <4>3. Held(c, Loop[i]) => (Held(c, Loop[i]))'
        BY <1>d, <4>1, <4>2, <1>a DEF Held
      <4> QED BY <4>1, <4>3
    <3> QED BY <1>a, <2>1, <3>1, <3>2, AwaitedStep
  <2>2. AwaitedHeld'
    BY <1>a, <2>1 DEF AwaitedHeld
  <2>3. Counted'
    BY <1>d DEF Counted
  <2> QED BY <2>2, <2>3
<1>1. CASE RunFresh
  <2>1. pc' = "ovs" /\ k' = 1 /\ DeploymentsFresh
    BY <1>1 DEF RunFresh, Control
  <2>2. Counted'
    BY <2>1 DEF DeploymentsFresh, Counted, Kept, Created
  <2>3. \A c \in Cluster, i \in 1..Len(Loop) : ~Awaited(c, i)'
    BY <2>1 DEF Awaited, Position, Restoring, Cluster
  <2> QED BY <1>a, <2>2, <2>3 DEF AwaitedHeld
<1>2. CASE UNCHANGED <<unrecorded, replicas, saved, wanted>> /\ ~RunFresh /\ ~Suspending
  BY <1>2, <1>c, <1>d DEF Held, Kept
<1>3. CASE SuspendDeployment
  <2>1. pc = "suspend" /\ Suspend(This, Loop[at]) /\ UNCHANGED unrecorded
    BY <1>3 DEF SuspendDeployment, Ran, own
  <2>2. ~RunFresh /\ ~ResumeDeployment
    BY <2>1 DEF RunFresh, ResumeDeployment
  <2>3. ASSUME NEW c \in Cluster, NEW d \in Deployment
        PROVE  /\ Held(c, d) => Held(c, d)'
               /\ <<c, d>> \notin unrecorded' => Kept(c, d)'
    <3>1. CASE c = This /\ d = Loop[at]
      BY <1>a, <1>c, <2>1, <3>1, SuspendKeeps, SuspendHeld DEF Held
    <3>2. CASE ~(c = This /\ d = Loop[at])
      <4>1. Untouched(c, d)
        BY <1>a, <1>b, <1>3, <2>1, <3>2, OthersUntouched
      <4> QED BY <1>c, <2>1, <4>1 DEF Untouched, Held, Kept
    <3> QED BY <3>1, <3>2
  <2>4. HeldNow(This, Loop[at])
    BY <1>a, <1>b, <1>c, <1>3, <2>1, SuspendKeeps DEF HeldNow
  <2> QED BY <1>d, <2>2, <2>3, <2>4
<1>4. CASE SuspendRefused
  <2>1. /\ pc = "suspend" /\ unrecorded' = unrecorded \cup {<<This, Loop[at]>>}
        /\ UNCHANGED <<replicas, saved, wanted>>
    BY <1>4 DEF SuspendRefused, deploymentVars
  <2>2. ~RunFresh /\ ~ResumeDeployment /\ HeldNow(This, Loop[at])
    BY <2>1 DEF RunFresh, ResumeDeployment, HeldNow
  <2> QED BY <1>c, <1>d, <2>1, <2>2 DEF Held, Kept
<1>5. CASE ResumeDeployment /\ ~Deferred(This) /\ Resume(This, Loop[at]) /\ UNCHANGED unrecorded
  <2>1. pc = "resume" /\ ~RunFresh /\ ~Suspending /\ at \in 1..Len(Loop)
    BY <1>b, <1>5 DEF ResumeDeployment, RunFresh, Suspending, SuspendDeployment, SuspendRefused
  <2>2. Awaited(This, at)
    BY <1>a, <2>1 DEF Awaited, Restoring, TypedRun
  <2>3. Held(This, Loop[at])
    BY <1>a, <2>1, <2>2 DEF AwaitedHeld
  <2>4. ASSUME NEW c \in Cluster, NEW d \in Deployment
        PROVE  /\ Held(c, d) /\ (c # This \/ d # Loop[at]) => Held(c, d)'
               /\ <<c, d>> \notin unrecorded' => Kept(c, d)'
    <3>1. CASE c = This /\ d = Loop[at]
      BY <1>a, <1>c, <1>5, <2>3, <3>1, ResumeKeeps DEF Held
    <3>2. CASE ~(c = This /\ d = Loop[at])
      <4>1. Untouched(c, d)
        BY <1>a, <1>b, <1>5, <3>2, OthersUntouched
      <4> QED BY <1>c, <1>5, <4>1 DEF Untouched, Held, Kept
    <3> QED BY <3>1, <3>2
  <2> QED BY <1>d, <1>5, <2>1, <2>4
<1>6. CASE (\E c \in Cluster, d \in Deployment : Scales(c, d)) /\ ~RunFresh /\ ~Suspending
  <2>1. PICK x \in Cluster, y \in Deployment : Scales(x, y)
    BY <1>6
  <2>2. ASSUME NEW c \in Cluster, NEW d \in Deployment
        PROVE  <<c, d>> \notin unrecorded' => Kept(c, d)'
    <3>1. CASE c = x /\ d = y
      BY <1>a, <2>1, <3>1, ScaleKeeps
    <3>2. CASE ~(c = x /\ d = y)
      <4>1. Untouched(c, d)
        BY <1>a, <2>1, <3>2, OthersUntouched DEF Scales
      <4>2. <<c, d>> \in unrecorded' <=> <<c, d>> \in unrecorded
        BY <1>a, <2>1, <3>2, ScaleKeeps
      <4> QED BY <1>c, <4>1, <4>2 DEF Untouched, Kept
    <3> QED BY <3>1, <3>2
  <2>3. CASE pc = "idle"
    <3>1. pc' = "idle"
      BY <2>1, <2>3 DEF Scales
    <3>2. AwaitedHeld'
      BY <3>1 DEF AwaitedHeld, Awaited, Installing, Restoring
    <3> QED BY <2>2, <3>2 DEF Counted
  <2>4. CASE pc # "idle"
    <3>1. saved' = saved /\ unrecorded \subseteq unrecorded'
      BY <1>a, <2>1, <2>4, ScaleKeeps
    <3>2. \A c \in Cluster, d \in Deployment : Held(c, d) => Held(c, d)'
      BY <3>1 DEF Held
    <3> QED BY <1>d, <1>6, <2>2, <3>2
  <2> QED BY <2>3, <2>4
<1> QED BY <1>1, <1>2, <1>3, <1>4, <1>5, <1>6, OperationStep DEF Operation, Suspending

(* However runs are repeated, fail or are killed, and whatever the user    *)
(* asks for meanwhile, the replicas of CoreDNS and of the provisioner are  *)
(* running or written down to be restored, unless the API refused to       *)
(* suspend the Deployment, or the user scaled it to zero or while it was   *)
(* suspended.                                                              *)
THEOREM CountsSurvive == Spec => []CountNeverLost
<1>1. Init => Typed /\ Control /\ AwaitedHeld /\ Counted
  <2>1. ASSUME Init PROVE Counted
    BY <2>1 DEF Init, Counted, Kept, Created
  <2>2. ASSUME Init PROVE AwaitedHeld
    BY <2>2 DEF Init, AwaitedHeld, Awaited, Installing, Restoring
  <2> QED BY <2>1, <2>2, TypedInit
<1>2. /\ Typed /\ Control /\ AwaitedHeld /\ Counted /\ [Next]_vars
      => Typed' /\ Control' /\ AwaitedHeld' /\ Counted'
  BY TypedStep, CountStep
<1>3. Counted => CountNeverLost
  BY DEF Counted, Kept, CountNeverLost
<1> QED BY <1>1, <1>2, <1>3, PTL DEF Spec

-----------------------------------------------------------------------------
(* What is in place in a cluster once a run is past a step of it.          *)
Finishing == {"post", "multusready", "suspend", "patch"}
Past(c, S) ==
  pc \in Restoring \/ (pc # "idle" /\ Position(c) < k) \/ (Position(c) = k /\ pc \in S)
PastOVS(c) == Past(c, {"pre", "primary", "corefile", "label"} \cup SinceLabel \cup Finishing)
PastPrimary(c) == Past(c, {"corefile", "label"} \cup SinceLabel \cup Finishing)
PastLabel(c) == Past(c, SinceLabel \cup Finishing)
PastPlugin(c) == Past(c, (SinceLabel \ {"plugin"}) \cup Finishing)
PastHelm(c) == Past(c, {"crds", "proxy", "secret"} \cup Finishing)

Progress ==
  \A c \in Cluster :
    /\ PastOVS(c) => (NeedsOVNK(c) => "ovs" \in done[c])
    /\ PastPrimary(c) => (config.cni[c] = "flannel" => "flannel" \in done[c])
    /\ PastLabel(c) => (InstallsOVNK(c) /\ Mode(c) # "full" => "mode" \in done[c])
    /\ PastPlugin(c) => (InstallsOVNK(c) /\ Mode(c) = "dpuHost" => "plugin" \in done[c])
    /\ PastHelm(c) => (InstallsOVNK(c) /\ config.install => release[c] = "deployed")

(* The credentials a DPU cluster's release needs exist only where the host *)
(* cluster has its own release.                                            *)
Credentials ==
  config.offload =>
    /\ "ovs" \in done["dpu"] => {"mode", "plugin"} \subseteq done["host"]
    /\ release["dpu"] = "deployed" \/ values["dpu"] = "current" => HasCredentials
    /\ HasCredentials => release["host"] = "deployed"

(* A step that takes a run past a step of a cluster is that step.          *)
Passes(c) ==
  /\ PastOVS(c)' => PastOVS(c) \/ (c = This /\ SetupOVS)
  /\ PastPrimary(c)' => PastPrimary(c) \/ (c = This /\ (Primary \/ FlannelUnconfigured))
  /\ PastLabel(c)' => PastLabel(c) \/ (c = This /\ (LabelNodes \/ ~InstallsOVNK(c)))
  /\ PastPlugin(c)' =>
       \/ PastPlugin(c)
       \/ c = This /\ (DeployPlugin \/ Mode(c) # "dpuHost" \/ ~InstallsOVNK(c))
  /\ PastHelm(c)' =>
       \/ PastHelm(c)
       \/ /\ c = This
          /\ \/ HelmInstall /\ release'[c] = "deployed"
             \/ ~config.install \/ ~InstallsOVNK(c)

LEMMA PassesStep ==
  ASSUME TypedRun, TypedThings, Control, [Next]_vars, NEW c \in Cluster
  PROVE  Passes(c)
<1>a. Len(Ordered) = 2 /\ Len(Loop) \in 1..2 /\ Position(This) = k /\ This \in Cluster
  BY Clusters, Loops
<1>b. Position(c) \in 1..2 /\ (Position(c) = k => c = This)
  BY <1>a DEF Position, Cluster
<1> USE <1>a, <1>b
<1> USE DEF TypedRun, Control, Steps, Goto, Advance, End, SinceLabel, Finishing, Restoring,
        Past, PastOVS, PastPrimary, PastLabel, PastPlugin, PastHelm, Passes
<1>1. CASE RunFresh \/ Rerun
  BY <1>1 DEF RunFresh, Rerun
<1>2. CASE SetupOVS
  BY <1>2 DEF SetupOVS
<1>3. CASE Primary \/ FlannelUnconfigured
  BY <1>3 DEF Primary, FlannelUnconfigured
<1>4. CASE InstallAddons
  BY <1>4 DEF InstallAddons, PreAddon, PostAddon
<1>5. CASE PatchCoreDNS \/ LabelNodes \/ DeployPlugin \/ WriteValues
  BY <1>5 DEF PatchCoreDNS, LabelNodes, DeployPlugin, WriteValues
<1>6. CASE HelmInstall
  BY <1>6 DEF HelmInstall, TypedThings
<1>7. CASE ApplyCRDs \/ DeleteProxy \/ CreateAccessSecret \/ MultusReady
  BY <1>7 DEF ApplyCRDs, DeleteProxy, CreateAccessSecret, MultusReady
<1>8. CASE SuspendDeployment \/ SuspendRefused \/ PatchDeployment
  BY <1>8 DEF SuspendDeployment, SuspendRefused, PatchDeployment, AfterSuspend, ClusterInstalled
<1>9. CASE ResumeDeployment \/ ResumeRefused \/ RestartDeployment \/ RestartRefused
  BY <1>9 DEF ResumeDeployment, ResumeRefused, RestartDeployment, RestartRefused, ClusterRestored
<1>10. CASE WaitForCoreDNS
  BY <1>10 DEF WaitForCoreDNS
<1>11. CASE UserCommands \/ CallFails \/ Kill
  BY <1>11 DEF UserCommands, HostAccess, ExternalHelm, GenerateValues, Unrun, Commands,
     CallFails, Kill
<1>12. CASE \E e \in Cluster, d \in Deployment, n \in Counts : UserScales(e, d, n)
  BY <1>12 DEF UserScales
<1>13. CASE UNCHANGED vars
  BY <1>13 DEF vars
<1> QED BY <1>1, <1>2, <1>3, <1>4, <1>5, <1>6, <1>7, <1>8, <1>9, <1>10, <1>11, <1>12, <1>13
        DEF Next, InstallOVNK, PostInstall, Disturbance

(* A step changes one cluster, whose things only ever grow in number; and  *)
(* where the OVS set-up, the credentials and the releases come from.       *)
Changes(e) ==
  /\ \A c \in Cluster : c # e => done'[c] = done[c] /\ release'[c] = release[c]
  /\ done[e] \ {"proxy"} \subseteq done'[e]
  /\ release[e] = "deployed" => release'[e] = "deployed"
  /\ "ovs" \in done'[e] => "ovs" \in done[e] \/ (SetupOVS /\ e = This)
  /\ "secret" \in done'[e] =>
       "secret" \in done[e] \/ (pc = "secret" /\ e = This) \/ release[e] = "deployed"
  /\ release'[e] = "deployed" =>
       release[e] = "deployed" \/ values[e] = "current" \/ (Mode(e) = "dpu" => HasCredentials)
ValuesChange ==
  \A c \in Cluster : values'[c] = "current" =>
    values[c] = "current" \/ (Mode(c) = "dpu" => HasCredentials)

LEMMA PutChanges ==
  ASSUME TypedThings, NEW e \in Cluster, NEW S, Put(e, S), release' = release,
         "ovs" \in S => SetupOVS /\ e = This,
         "secret" \in S => (pc = "secret" /\ e = This) \/ release[e] = "deployed"
  PROVE  Changes(e)
  BY DEF TypedThings, Put, Changes

LEMMA AddonChanges ==
  ASSUME TypedRun, TypedThings, release' = release,
         NEW a, Put(This, Effects(a)) \/ Put(This, Known(a))
  PROVE  Changes(This)
<1>1. /\ "ovs" \notin Effects(a) \cup Known(a)
      /\ "secret" \notin Effects(a) \cup Known(a)
  BY DEF Effects, Known, Addon
<1> QED BY <1>1, PutChanges, Clusters

LEMMA NothingChanges ==
  ASSUME UNCHANGED <<done, release>>, NEW e \in Cluster
  PROVE  Changes(e)
  BY DEF Changes

LEMMA HalfChanges ==
  ASSUME TypedRun, TypedThings, Half
  PROVE  Changes(This)
<1>a. This \in Cluster
  BY Clusters
<1>1. CASE UNCHANGED <<done, release>>
  BY <1>1, <1>a, NothingChanges
<1>2. CASE /\ release[This] = "none" /\ release' = [release EXCEPT ![This] = "failed"]
           /\ UNCHANGED done
  BY <1>2, <1>a DEF TypedThings, Changes
<1>3. ASSUME NEW a, Put(This, Known(a)), UNCHANGED release
      PROVE  Changes(This)
  BY <1>3, AddonChanges
<1>4. ASSUME NEW t \in {"flannel", "zones"}, Put(This, {t}), UNCHANGED release
      PROVE  Changes(This)
  BY <1>4, <1>a, PutChanges
<1> QED BY <1>1, <1>2, <1>3, <1>4 DEF Half

LEMMA ThingsStep ==
  ASSUME TypedRun, TypedThings, [Next]_vars, ~RunFresh
  PROVE  ValuesChange /\ \E e \in Cluster : Changes(e)
<1>a. This \in Cluster /\ "host" \in Cluster
  BY Clusters DEF Cluster
<1>v. values' = values => ValuesChange
  BY DEF ValuesChange
<1>n. UNCHANGED <<done, release>> => \E e \in Cluster : Changes(e)
  BY <1>a, NothingChanges
<1>1. CASE SetupOVS
  <2>1. CASE NeedsOVNK(This)
    BY <1>1, <1>a, <1>v, <2>1, PutChanges DEF SetupOVS
  <2>2. CASE ~NeedsOVNK(This)
    BY <1>1, <1>n, <1>v, <2>2 DEF SetupOVS
  <2> QED BY <2>1, <2>2
<1>2. CASE Primary \/ FlannelUnconfigured
  <2>1. CASE config.cni[This] = "flannel"
    BY <1>2, <1>a, <1>v, <2>1, PutChanges DEF Primary, FlannelUnconfigured
  <2>2. CASE config.cni[This] # "flannel"
    BY <1>2, <1>n, <1>v, <2>2 DEF Primary, FlannelUnconfigured
  <2> QED BY <2>1, <2>2
<1>3. CASE InstallAddons
  BY <1>3, <1>a, <1>v, <1>n, AddonChanges DEF InstallAddons, PreAddon, PostAddon
<1>4. CASE PatchCoreDNS \/ LabelNodes \/ DeployPlugin \/ ApplyCRDs \/ CreateAccessSecret
  BY <1>4, <1>a, <1>v, PutChanges
     DEF PatchCoreDNS, LabelNodes, DeployPlugin, ApplyCRDs, CreateAccessSecret
<1>5. CASE WriteValues
  BY <1>5, <1>a, <1>n DEF WriteValues, Generated, ValuesChange, TypedThings
<1>6. CASE HelmInstall \/ DeleteProxy
  <2>1. CASE UNCHANGED release
    BY <1>6, <1>a, <1>v, <2>1 DEF HelmInstall, DeleteProxy, Changes, TypedThings
  <2>2. CASE /\ release' = [release EXCEPT ![This] = "deployed"] /\ UNCHANGED <<done, values>>
             /\ (Mode(This) = "dpu" => HasCredentials)
    BY <1>a, <1>v, <2>2 DEF Changes, TypedThings
  <2> QED BY <1>6, <2>1, <2>2 DEF HelmInstall, DeleteProxy
<1>7. CASE UserCommands
  <2>1. CASE HostAccess
    BY <2>1, <1>a, <1>v, PutChanges DEF HostAccess
  <2>2. ASSUME NEW c \in Cluster, ExternalHelm(c) PROVE Changes(c) /\ values' = values
    BY <2>2 DEF ExternalHelm, Changes, TypedThings
  <2>3. ASSUME NEW r \in BOOLEAN, GenerateValues(r)
        PROVE  ValuesChange /\ UNCHANGED <<done, release>>
    BY <2>3 DEF GenerateValues, Generated, ValuesChange
  <2> QED BY <1>7, <1>n, <1>v, <2>1, <2>2, <2>3 DEF UserCommands
<1>8. CASE CallFails \/ Kill
  BY <1>8, <1>a, <1>v, HalfChanges DEF CallFails, Kill
<1>9. CASE UNCHANGED installVars
  BY <1>9, <1>n, <1>v DEF installVars
<1> QED BY <1>1, <1>2, <1>3, <1>4, <1>5, <1>6, <1>7, <1>8, <1>9
        DEF Next, Rerun, InstallOVNK, PostInstall, Disturbance, MultusReady,
            SuspendDeployment, PatchDeployment, ResumeDeployment, RestartDeployment,
            WaitForCoreDNS, SuspendRefused, ResumeRefused, RestartRefused, UserScales,
            vars, installVars

Sound == Typed /\ Control /\ Progress /\ Credentials

LEMMA SoundInit ==
  ASSUME Init
  PROVE  Sound
<1>1. pc = "idle"
  BY DEF Init
<1>2. Progress
  BY <1>1 DEF Init, Progress, Past, PastOVS, PastPrimary, PastLabel, PastPlugin, PastHelm,
     SinceLabel, Finishing, Restoring, Position
<1>3. Credentials
  BY DEF Init, Credentials, HasCredentials, Cluster
<1> QED BY <1>2, <1>3, TypedInit DEF Sound

(* What the steps of the installation put in place.                        *)
LEMMA Arrivals ==
  ASSUME TypedRun, TypedThings
  PROVE  /\ SetupOVS /\ NeedsOVNK(This) => "ovs" \in done'[This]
         /\ (Primary \/ FlannelUnconfigured) /\ config.cni[This] = "flannel" =>
              "flannel" \in done'[This]
         /\ LabelNodes /\ Mode(This) # "full" => "mode" \in done'[This]
         /\ DeployPlugin => "plugin" \in done'[This]
  BY Clusters DEF TypedThings, SetupOVS, Primary, FlannelUnconfigured, LabelNodes,
     DeployPlugin, Put

LEMMA ProgressStep ==
  ASSUME Sound, [Next]_vars
  PROVE  Progress'
<1>a. /\ config' = config /\ TypedRun /\ TypedThings /\ Control
      /\ \A c : /\ NeedsOVNK(c)' = NeedsOVNK(c) /\ InstallsOVNK(c)' = InstallsOVNK(c)
                /\ Mode(c)' = Mode(c)
  BY ConfigurationKept, SameConfiguration DEF Sound, Typed
<1>1. CASE RunFresh
  <2>1. pc' = "ovs" /\ k' = 1
    BY <1>1, <1>a DEF RunFresh, Control
  <2> QED BY <2>1 DEF Progress, Past, PastOVS, PastPrimary, PastLabel, PastPlugin, PastHelm,
             SinceLabel, Finishing, Restoring, Position
<1>2. CASE ~RunFresh
  <2>1. PICK e \in Cluster : Changes(e)
    BY <1>2, <1>a, ThingsStep
  <2>2. \A c \in Cluster : /\ done[c] \ {"proxy"} \subseteq done'[c]
                           /\ release[c] = "deployed" => release'[c] = "deployed"
    BY <2>1 DEF Changes
  <2>3. ASSUME NEW c \in Cluster
        PROVE  /\ PastOVS(c)' => (NeedsOVNK(c) => "ovs" \in done'[c])
               /\ PastPrimary(c)' => (config.cni[c] = "flannel" => "flannel" \in done'[c])
               /\ PastLabel(c)' =>
                    (InstallsOVNK(c) /\ Mode(c) # "full" => "mode" \in done'[c])
               /\ PastPlugin(c)' =>
                    (InstallsOVNK(c) /\ Mode(c) = "dpuHost" => "plugin" \in done'[c])
               /\ PastHelm(c)' =>
                    (InstallsOVNK(c) /\ config.install => release'[c] = "deployed")
    BY <1>a, <2>2, PassesStep, Arrivals DEF Sound, Progress, Passes
  <2> QED BY <1>a, <2>3 DEF Progress
<1> QED BY <1>1, <1>2

LEMMA CredentialsStep ==
  ASSUME Sound, [Next]_vars
  PROVE  Credentials'
<1>a. /\ config' = config /\ TypedRun /\ TypedThings /\ Control /\ Progress /\ Credentials
      /\ "host" \in Cluster /\ "dpu" \in Cluster
  BY ConfigurationKept DEF Sound, Typed, Cluster
<1>1. CASE ~config.offload
  BY <1>a, <1>1 DEF Credentials
<1>2. CASE config.offload
  <2>a. Mode("host") = "dpuHost" /\ Mode("dpu") = "dpu" /\ InstallsOVNK("host")
    BY <1>2, <1>a, Configured DEF Mode, InstallsOVNK, TypedRun
  <2>1. CASE RunFresh
    BY <1>a, <2>1, <2>a DEF RunFresh, Credentials, HasCredentials, TypedThings
  <2>2. CASE ~RunFresh
    <3>1. PICK e \in Cluster : Changes(e)
      BY <1>a, <2>2, ThingsStep
    <3>2. ValuesChange
      BY <1>a, <2>2, ThingsStep
    <3>3. done["host"] \ {"proxy"} \subseteq done'["host"]
      BY <1>a, <3>1 DEF Changes
    <3>4. "ovs" \in done'["dpu"] => {"mode", "plugin"} \subseteq done'["host"]
      <4>1. CASE "ovs" \in done["dpu"]
        BY <1>2, <1>a, <3>3, <4>1 DEF Credentials
      <4>2. CASE SetupOVS /\ This = "dpu"
        <5>1. pc = "ovs" /\ k = 2
          BY <1>a, <4>2, Clusters DEF SetupOVS, Position
        <5>2. PastLabel("host") /\ PastPlugin("host")
          BY <5>1 DEF PastLabel, PastPlugin, Past, Position
        <5> QED BY <1>a, <2>a, <3>3, <5>2 DEF Progress
      <4> QED BY <1>a, <3>1, <4>1, <4>2 DEF Changes
    <3>5. release'["dpu"] = "deployed" \/ values'["dpu"] = "current" => HasCredentials
      BY <1>2, <1>a, <2>a, <3>1, <3>2 DEF Changes, ValuesChange, Credentials
    <3>6. HasCredentials => HasCredentials'
      BY <3>3 DEF HasCredentials
    <3>7. HasCredentials' => release'["host"] = "deployed"
      <4>1. CASE "secret" \in done["host"]
        BY <1>2, <1>a, <3>1, <4>1 DEF Credentials, HasCredentials, Changes
      <4>2. CASE pc = "secret" /\ This = "host"
        <5>1. PastHelm("host") /\ config.install
          BY <1>a, <4>2, Clusters DEF PastHelm, Past, Control, Position
        <5> QED BY <1>a, <2>a, <3>1, <5>1 DEF Progress, Changes
      <4>3. CASE release["host"] = "deployed"
        BY <1>a, <3>1, <4>3 DEF Changes
      <4> QED BY <1>a, <3>1, <4>1, <4>2, <4>3 DEF Changes, HasCredentials
    <3> QED BY <1>a, <3>4, <3>5, <3>6, <3>7 DEF Credentials
  <2> QED BY <2>1, <2>2
<1> QED BY <1>1, <1>2, <1>a, Configured DEF TypedRun

LEMMA SoundStep ==
  ASSUME Sound, [Next]_vars
  PROVE  Sound'
  BY TypedStep, ProgressStep, CredentialsStep DEF Sound

-----------------------------------------------------------------------------
(* The refinement.                                                         *)
Up == {c \in Cluster : NetUp(c)}
Served == {c \in Cluster : Serving(c)}
promised == <<config.offload, Up, Served>>

LEMMA RestoringUp ==
  ASSUME Sound, pc \in Restoring, NEW c \in Cluster, ~Deferred(c)
  PROVE  NetUp(c)
<1>a. /\ config.cni \in [Cluster -> CNI] /\ config.offload \in BOOLEAN
      /\ config.offload => config.cni["host"] = "ovnk" /\ config.cni["dpu"] # "ovnk"
  BY Configured DEF Sound, Typed, TypedRun
<1>1. /\ NeedsOVNK(c) => "ovs" \in done[c]
      /\ config.cni[c] = "flannel" => "flannel" \in done[c]
      /\ InstallsOVNK(c) /\ Mode(c) # "full" => "mode" \in done[c]
      /\ InstallsOVNK(c) /\ Mode(c) = "dpuHost" => "plugin" \in done[c]
      /\ config.install /\ InstallsOVNK(c) => release[c] = "deployed"
  BY DEF Sound, Progress, PastOVS, PastPrimary, PastLabel, PastPlugin, PastHelm, Past
<1>2. InstallsOVNK(c) => release[c] = "deployed"
  BY <1>1 DEF Deferred
<1>3. config.cni[c] = "ovnk" => InstallsOVNK(c)
  BY DEF InstallsOVNK
<1>4. NeedsOVNK(c) => InstallsOVNK(c)
  BY DEF InstallsOVNK
<1>5. config.offload /\ config.cni[c] = "ovnk" => Mode(c) = "dpuHost"
  BY <1>a DEF Mode, Cluster
<1> QED BY <1>1, <1>2, <1>3, <1>4, <1>5 DEF NetUp, Networked

(* Once the clusters' Deployments are resumed, every network the traffic   *)
(* of the cluster crosses is up.                                           *)
LEMMA PathUp ==
  ASSUME Sound, pc \in Restoring, NEW c \in Cluster, ~Deferred(c)
  PROVE  Promise!Path(c) \subseteq Up
<1>1. config.offload /\ c = "host" => \A e \in Cluster : ~Deferred(e)
  <2>1. config.offload => InstallsOVNK("host") /\ config.cni["host"] = "ovnk"
    BY Configured DEF Sound, Typed, TypedRun, InstallsOVNK
  <2> QED BY <2>1 DEF Deferred, Cluster
<1>2. \A e \in Cluster : ~Deferred(e) => e \in Up
  BY RestoringUp DEF Up
<1> QED BY <1>1, <1>2 DEF Promise!Path, Promise!Cluster, Cluster

LEMMA ServingStep ==
  ASSUME config' = config, Up' = Up, NEW x \in Cluster,
         \A c \in Cluster : c # x => (Serving(c)' <=> Serving(c)),
         Serving(x)' => Serving(x) \/ Promise!Path(x) \subseteq Up
  PROVE  Promise!Next \/ promised' = promised
<1>1. x \in Promise!Cluster
  BY DEF Promise!Cluster, Cluster
<1>2. CASE Serving(x)' <=> Serving(x)
  <2>1. Served' = Served
    BY <1>2 DEF Served
  <2> QED BY <2>1 DEF promised
<1>3. CASE Serving(x)' /\ ~Serving(x)
  <2>1. Served' = Served \cup {x}
    BY <1>3 DEF Served
  <2>2. Promise!Serve(x)
    BY <1>3, <2>1 DEF Promise!Serve, Served, Up
  <2> QED BY <1>1, <2>2 DEF Promise!Next
<1>4. CASE ~Serving(x)' /\ Serving(x)
  <2>1. Served' = Served \ {x}
    BY <1>4 DEF Served
  <2>2. Promise!Withdraw(x)
    BY <2>1 DEF Promise!Withdraw, Served, Up
  <2> QED BY <1>1, <2>2 DEF Promise!Next
<1> QED BY <1>2, <1>3, <1>4

LEMMA NetworkStep ==
  ASSUME Sound, Sound', config' = config, Served' = Served, NEW e \in Cluster, Changes(e)
  PROVE  Promise!Next \/ promised' = promised
<1>1. ASSUME NEW c \in Cluster, c # e PROVE NetUp(c)' <=> NetUp(c)
  BY <1>1 DEF Changes, NetUp, Networked, NeedsOVNK
<1>2. NetUp(e) => NetUp(e)'
  BY DEF Changes, NetUp, Networked, NeedsOVNK
<1>3. CASE NetUp(e)' <=> NetUp(e)
  <2>1. Up' = Up
    BY <1>1, <1>3 DEF Up
  <2> QED BY <2>1 DEF promised
<1>4. CASE NetUp(e)' /\ ~NetUp(e)
  <2>1. Up' = Up \cup {e}
    BY <1>1, <1>4 DEF Up
  <2>2. e \notin Up
    BY <1>4 DEF Up
  <2>3. config.offload /\ e = "dpu" => "host" \in Up
    <3>1. ASSUME config.offload, e = "dpu" PROVE NetUp("host")
      <4>1. NetUp("host")'
        <5>1. config.cni["host"] = "ovnk"
          BY <3>1, Configured DEF Sound, Typed, TypedRun
        <5>2. release'["dpu"] = "deployed" /\ "ovs" \in done'["dpu"]
          BY <1>4, <3>1, <5>1 DEF NetUp, Networked, NeedsOVNK
        <5>3. release'["host"] = "deployed" /\ {"mode", "plugin"} \subseteq done'["host"]
          BY <3>1, <5>2 DEF Sound, Credentials
        <5> QED BY <5>1, <5>3 DEF NetUp, Networked, NeedsOVNK
      <4> QED BY <1>1, <3>1, <4>1 DEF Cluster
    <3> QED BY <3>1 DEF Up, Cluster
  <2>4. Promise!Connect(e)
    BY <2>1, <2>2, <2>3 DEF Promise!Connect, Served, Up
  <2>5. e \in Promise!Cluster
    BY DEF Promise!Cluster, Cluster
  <2> QED BY <2>4, <2>5 DEF Promise!Next
<1> QED BY <1>2, <1>3, <1>4

(* New clusters have no network of their own where there is an offload.    *)
LEMMA CreatedUp ==
  ASSUME config \in Configs, \A c \in Cluster : release[c] = "none"
  PROVE  Up \in Promise!Created
<1>1. CASE config.offload
  <2>1. config.cni["host"] = "ovnk"
    BY <1>1, Configured
  <2>2. ~NetUp("host") /\ ~NetUp("dpu")
    BY <1>1, <2>1 DEF NetUp, Networked, NeedsOVNK, Cluster
  <2> QED BY <1>1, <2>2 DEF Up, Cluster, Promise!Created
<1>2. CASE ~config.offload
  BY <1>2 DEF Up, Promise!Created, Promise!Cluster, Cluster
<1> QED BY <1>1, <1>2

LEMMA PromiseInit ==
  ASSUME Init
  PROVE  Promise!Init
<1>1. Up \in Promise!Created /\ config.offload \in BOOLEAN
  BY CreatedUp, Configured DEF Init
<1>2. Served = {}
  BY DEF Init, Served, Serving, Deployment
<1> QED BY <1>1, <1>2 DEF Promise!Init, Up, Served

(* What a step changes, as the promise sees it.                            *)
Seen ==
  \/ RunFresh
  \/ UNCHANGED <<replicas, restarted>> /\ ~RunFresh
  \/ /\ UNCHANGED installVars
     /\ \/ pc = "suspend" /\ Suspend(This, Loop[at])
        \/ pc = "resume" /\ ~Deferred(This) /\ Resume(This, Loop[at])
        \/ pc = "restart" /\ Restart(This, Loop[at])
        \/ \E c \in Cluster, d \in Deployment, n \in Counts : Scale(c, d, n)

LEMMA SeenStep ==
  ASSUME [Next]_vars
  PROVE  Seen
<1> USE DEF Seen
<1>1. CASE SuspendDeployment
  BY <1>1 DEF SuspendDeployment
<1>2. CASE ResumeDeployment
  <2>1. CASE Deferred(This)
    BY <1>2, <2>1 DEF ResumeDeployment, RunFresh, deploymentVars
  <2>2. CASE ~Deferred(This)
    BY <1>2, <2>2 DEF ResumeDeployment
  <2> QED BY <2>1, <2>2
<1>3. CASE RestartDeployment
  BY <1>3 DEF RestartDeployment
<1>4. CASE \E c \in Cluster, d \in Deployment, n \in Counts : UserScales(c, d, n)
  BY <1>4 DEF UserScales
<1>5. CASE PatchDeployment
  BY <1>5 DEF PatchDeployment, Patch
<1>6. CASE Rerun \/ SetupOVS \/ Primary \/ InstallAddons \/ InstallOVNK
  BY <1>6 DEF Rerun, SetupOVS, Primary, InstallAddons, PreAddon, PostAddon, InstallOVNK,
     PatchCoreDNS, LabelNodes, DeployPlugin, WriteValues, HelmInstall, ApplyCRDs,
     DeleteProxy, CreateAccessSecret, deploymentVars
<1>7. CASE MultusReady \/ WaitForCoreDNS \/ UserCommands
  BY <1>7 DEF MultusReady, WaitForCoreDNS, UserCommands, HostAccess, ExternalHelm,
     GenerateValues, Unrun, deploymentVars
<1>8. CASE CallFails \/ Kill \/ SuspendRefused \/ ResumeRefused \/ RestartRefused
           \/ FlannelUnconfigured
  BY <1>8 DEF CallFails, Kill, SuspendRefused, ResumeRefused, RestartRefused,
     FlannelUnconfigured, deploymentVars
<1>9. CASE UNCHANGED vars
  BY <1>9 DEF vars, deploymentVars
<1> QED BY <1>1, <1>2, <1>3, <1>4, <1>5, <1>6, <1>7, <1>8, <1>9
        DEF Next, PostInstall, Disturbance

(* A CoreDNS that was restarted has all the networks it needs, for as long *)
(* as its cluster lives: the user may take it down and bring it back.      *)
OnNetwork == \A c \in Cluster : restarted[c]["coredns"] => Promise!Path(c) \subseteq Up

LEMMA OnNetworkStep ==
  ASSUME Sound, Sound', OnNetwork, [Next]_vars
  PROVE  OnNetwork'
<1>a. /\ config' = config /\ TypedRun /\ TypedThings /\ TypedDeployments /\ Control
      /\ This \in Cluster
  BY ConfigurationKept, Clusters DEF Sound, Typed
<1>b. \A c : Promise!Path(c)' = Promise!Path(c)
  BY <1>a DEF Promise!Path, Promise!Cluster
<1>1. CASE RunFresh
  <2>1. \A c \in Cluster : ~restarted'[c]["coredns"]
    BY <1>1 DEF RunFresh, DeploymentsFresh, Deployment
  <2> QED BY <2>1 DEF OnNetwork
<1>2. CASE UNCHANGED restarted /\ ~RunFresh /\ \E e \in Cluster : Changes(e)
  <2>1. Up \subseteq Up'
    BY <1>2, <1>a DEF Up, Changes, NetUp, Networked, NeedsOVNK
  <2> QED BY <1>2, <1>b, <2>1 DEF OnNetwork
<1>3. ASSUME UNCHANGED installVars PROVE Up' = Up
  BY <1>3, <1>a DEF installVars, Up, NetUp, Networked, NeedsOVNK
<1>4. CASE UNCHANGED <<restarted, installVars>>
  BY <1>3, <1>4, <1>b DEF OnNetwork
<1>5. CASE pc = "restart" /\ Restart(This, Loop[at]) /\ UNCHANGED installVars
  <2>1. Promise!Path(This) \subseteq Up
    BY <1>a, <1>5, PathUp DEF Control, Restoring
  <2>2. \A c \in Cluster : c # This => restarted'[c]["coredns"] = restarted[c]["coredns"]
    BY <1>5, <1>a DEF Restart, TypedDeployments
  <2> QED BY <1>3, <1>5, <1>b, <2>1, <2>2 DEF OnNetwork
<1>6. UNCHANGED <<replicas, restarted>> /\ ~RunFresh => \E e \in Cluster : Changes(e)
  BY <1>a, ThingsStep
<1> QED BY <1>1, <1>2, <1>4, <1>5, <1>6, SeenStep DEF Seen, Suspend, Resume, Scale

(* What an operation does to the CoreDNS of the clusters.                  *)
LEMMA OperationServes ==
  ASSUME TypedDeployments, NEW x \in Cluster, NEW d \in Deployment,
         \/ Suspend(x, d) \/ Resume(x, d) \/ Restart(x, d)
         \/ \E n \in Counts : Scale(x, d, n)
  PROVE  /\ \A c \in Cluster : c # x => (Serving(c)' <=> Serving(c))
         /\ Suspend(x, d) /\ Serving(x)' => Serving(x)
         /\ (\E n \in Counts : Scale(x, d, n)) /\ Serving(x)' => restarted[x]["coredns"]
  BY DEF TypedDeployments, Suspend, Resume, Restart, Scale, Serving, Deployment

LEMMA PromiseStep ==
  ASSUME Sound, Sound', OnNetwork, [Next]_vars
  PROVE  Promise!Next \/ promised' = promised
<1>a. /\ config' = config /\ TypedRun /\ TypedThings /\ TypedDeployments /\ Control
      /\ This \in Cluster
  BY ConfigurationKept, Clusters DEF Sound, Typed
<1>b. pc \in {"suspend", "resume", "restart"} => Loop[at] \in Deployment
  BY <1>a, Loops DEF TypedRun, Control
<1>1. CASE RunFresh
  <2>1. Up' \in Promise!Created
    <3>1. config' \in Configs /\ \A c \in Cluster : release'[c] = "none"
      BY <1>1, <1>a DEF RunFresh, TypedRun
    <3>2. CASE config.offload
      <4>1. config.cni["host"] = "ovnk"
        BY <1>a, <3>2, Configured DEF TypedRun
      <4>2. ~NetUp("host")' /\ ~NetUp("dpu")'
        BY <1>a, <3>1, <3>2, <4>1 DEF NetUp, Networked, NeedsOVNK, Cluster
      <4> QED BY <3>2, <4>2 DEF Up, Cluster, Promise!Created
    <3>3. CASE ~config.offload
      BY <3>3 DEF Up, Promise!Created, Promise!Cluster, Cluster
    <3> QED BY <3>2, <3>3
  <2>2. Served' = {}
    BY <1>1 DEF RunFresh, DeploymentsFresh, Served, Serving, Deployment
  <2>3. Promise!Recreate
    BY <1>a, <2>1, <2>2 DEF Promise!Recreate, Promise!Created, Up, Served
  <2> QED BY <2>3 DEF Promise!Next
<1>2. CASE UNCHANGED <<replicas, restarted>> /\ ~RunFresh
  <2>1. Served' = Served
    BY <1>2 DEF Served, Serving
  <2>2. \E e \in Cluster : Changes(e)
    BY <1>a, <1>2, ThingsStep
  <2> QED BY <1>a, <2>1, <2>2, NetworkStep
<1>3. CASE UNCHANGED installVars
  <2>a. Up' = Up
    BY <1>3, <1>a DEF installVars, Up, NetUp, Networked, NeedsOVNK
  <2>1. CASE pc = "suspend" /\ Suspend(This, Loop[at])
    BY <1>a, <1>b, <2>a, <2>1, OperationServes, ServingStep
  <2>2. CASE pc \in {"resume", "restart"} /\ ~Deferred(This)
             /\ (Resume(This, Loop[at]) \/ Restart(This, Loop[at]))
    <3>1. Promise!Path(This) \subseteq Up
      BY <1>a, <2>2, PathUp DEF Restoring
    <3> QED BY <1>a, <1>b, <2>a, <2>2, <3>1, OperationServes, ServingStep
  <2>3. ASSUME NEW x \in Cluster, NEW d \in Deployment, NEW n \in Counts, Scale(x, d, n)
        PROVE  Promise!Next \/ promised' = promised
    <3>1. /\ \A c \in Cluster : c # x => (Serving(c)' <=> Serving(c))
          /\ Serving(x)' => restarted[x]["coredns"]
      BY <1>a, <2>3, OperationServes
    <3>2. Serving(x)' => Promise!Path(x) \subseteq Up
      BY <3>1 DEF OnNetwork
    <3> QED BY <1>a, <2>a, <3>1, <3>2, ServingStep
  <2>4. pc = "restart" => ~Deferred(This)
    BY <1>a DEF Control
  <2>5. UNCHANGED <<replicas, restarted>> => promised' = promised
    BY <1>a, <2>a DEF promised, Served, Serving
  <2> QED BY <1>1, <1>2, <1>3, <2>1, <2>2, <2>3, <2>4, SeenStep DEF Seen
<1> QED BY <1>1, <1>2, <1>3, SeenStep DEF Seen

(* The installation, with every configuration, list of add-ons, failure,   *)
(* kill and repetition, implements InstallPromise: with an offload the DPU *)
(* cluster's network comes up after the host cluster's, and CoreDNS is put *)
(* on a network only once all it crosses is up.                            *)
THEOREM PromiseKept == Spec => KeepsPromise
<1>1. Init => Sound
  BY SoundInit
<1>2. Sound /\ [Next]_vars => Sound'
  BY SoundStep
<1>3. Init => Promise!Init
  BY PromiseInit
<1>4. Init => OnNetwork
  BY DEF Init, OnNetwork, Deployment
<1>5. Sound /\ Sound' /\ OnNetwork /\ [Next]_vars => OnNetwork'
  BY OnNetworkStep
<1>6. Sound /\ Sound' /\ OnNetwork /\ [Next]_vars =>
        [Promise!Next]_<<config.offload, {c \in Cluster : NetUp(c)}, {c \in Cluster : Serving(c)}>>
  BY PromiseStep DEF promised, Up, Served
<1> QED BY <1>1, <1>2, <1>3, <1>4, <1>5, <1>6, PTL DEF Spec, KeepsPromise, Promise!Spec

-----------------------------------------------------------------------------
(* The lists of add-ons: what the operators that order and divide them do. *)
Guarded(l) ==
  \A i \in 1..Len(l) : l[i] = "multus" => \E j \in 1..Len(l) : j < i /\ l[j] = "whereabouts"

(* The add-ons of a list are what its positions hold.                      *)
LEMMA Domains ==
  ASSUME NEW l \in Seq(Addon)
  PROVE  /\ ToSet(l) = {l[j] : j \in 1..Len(l)}
         /\ IsInjective(l) <=> \A i, j \in 1..Len(l) : i # j => l[i] # l[j]
<1>1. DOMAIN l = 1..Len(l)
  OBVIOUS
<1> QED BY <1>1 DEF ToSet, IsInjective

(* SelectInSeq finds an add-on that is in the list.                        *)
LEMMA Located ==
  ASSUME NEW l, Normalized(l), NEW a \in ToSet(l)
  PROVE  /\ SelectInSeq(l, LAMBDA x : x = a) \in 1..Len(l)
         /\ l[SelectInSeq(l, LAMBDA x : x = a)] = a
<1>1. PICK i \in 1..Len(l) : l[i] = a
  BY DEF ToSet, Normalized
<1>2. {j \in 1..Len(l) : l[j] = a} = {i}
  BY <1>1 DEF Normalized, IsInjective
<1>3. Min({i}) = i
  BY DEF Min
<1> QED BY <1>1, <1>2, <1>3 DEF SelectInSeq

(* What RemoveAt leaves, position by position.                             *)
LEMMA RemovedAt ==
  ASSUME NEW l, Normalized(l), NEW i \in 1..Len(l)
  PROVE  /\ RemoveAt(l, i) \in Seq(Addon) /\ Len(RemoveAt(l, i)) = Len(l) - 1
         /\ \A j \in 1..Len(l) - 1 :
              RemoveAt(l, i)[j] = IF j < i THEN l[j] ELSE l[j + 1]
<1> DEFINE before == SubSeq(l, 1, i - 1)
           after  == SubSeq(l, i + 1, Len(l))
<1>1. l \in Seq(Addon) /\ Len(l) \in Nat
  BY DEF Normalized
<1>2. before \in Seq(Addon) /\ Len(before) = i - 1 /\ \A j \in 1..i - 1 : before[j] = l[j]
  BY <1>1
<1>3. after \in Seq(Addon) /\ Len(after) = Len(l) - i
      /\ \A j \in 1..Len(l) - i : after[j] = l[i + j]
  BY <1>1
<1>4. RemoveAt(l, i) = before \o after
  BY DEF RemoveAt
<1> HIDE DEF before, after
<1>5. RemoveAt(l, i) \in Seq(Addon) /\ Len(RemoveAt(l, i)) = Len(l) - 1
  <2>1. \A p, q \in Seq(Addon) : p \o q \in Seq(Addon) /\ Len(p \o q) = Len(p) + Len(q)
    OBVIOUS
  <2>2. before \o after \in Seq(Addon) /\ Len(before \o after) = (i - 1) + (Len(l) - i)
    BY <1>2, <1>3, <2>1
  <2> QED BY <1>1, <1>4, <2>2
<1>6. ASSUME NEW j \in 1..Len(l) - 1
      PROVE  RemoveAt(l, i)[j] = IF j < i THEN l[j] ELSE l[j + 1]
  <2>1. CASE j < i
    BY <1>1, <1>2, <1>3, <1>4, <2>1
  <2>2. CASE j >= i
    <3>1. j - (i - 1) \in 1..Len(l) - i /\ i + (j - (i - 1)) = j + 1
      BY <1>1, <2>2
    <3>2. RemoveAt(l, i)[j] = after[j - (i - 1)]
      BY <1>1, <1>2, <1>3, <1>4, <2>2
    <3> QED BY <1>3, <2>2, <3>1, <3>2
  <2> QED BY <1>1, <2>1, <2>2
<1> QED BY <1>5, <1>6

(* What InsertAt makes, position by position.                              *)
LEMMA Inserted ==
  ASSUME NEW l, Normalized(l), NEW i \in 1..Len(l), NEW a \in Addon
  PROVE  /\ InsertAt(l, i, a) \in Seq(Addon) /\ Len(InsertAt(l, i, a)) = Len(l) + 1
         /\ \A j \in 1..Len(l) + 1 :
              InsertAt(l, i, a)[j] = IF j < i THEN l[j] ELSE IF j = i THEN a ELSE l[j - 1]
<1> DEFINE before == SubSeq(l, 1, i - 1)
           after  == SubSeq(l, i, Len(l))
           r      == InsertAt(l, i, a)
<1>1. l \in Seq(Addon) /\ Len(l) \in Nat
  BY DEF Normalized
<1>2. before \in Seq(Addon) /\ Len(before) = i - 1 /\ \A j \in 1..i - 1 : before[j] = l[j]
  BY <1>1
<1>3. after \in Seq(Addon) /\ Len(after) = Len(l) - i + 1
      /\ \A j \in 1..Len(l) - i + 1 : after[j] = l[i + j - 1]
  BY <1>1
<1>4. r = (before \o <<a>>) \o after
  BY DEF InsertAt
<1> HIDE DEF before, after, r
<1>5. /\ before \o <<a>> \in Seq(Addon) /\ Len(before \o <<a>>) = i
      /\ (before \o <<a>>)[i] = a
      /\ \A j \in 1..i - 1 : (before \o <<a>>)[j] = l[j]
  BY <1>1, <1>2
<1>6. r \in Seq(Addon) /\ Len(r) = Len(l) + 1
  <2>1. \A p, q \in Seq(Addon) : p \o q \in Seq(Addon) /\ Len(p \o q) = Len(p) + Len(q)
    OBVIOUS
  <2>2. r \in Seq(Addon) /\ Len(r) = i + (Len(l) - i + 1)
    BY <1>3, <1>4, <1>5, <2>1
  <2> QED BY <1>1, <2>2
<1>7. ASSUME NEW j \in 1..Len(l) + 1
      PROVE  r[j] = IF j < i THEN l[j] ELSE IF j = i THEN a ELSE l[j - 1]
  <2>1. CASE j <= i
    <3>1. r[j] = (before \o <<a>>)[j]
      BY <1>1, <1>3, <1>4, <1>5, <2>1
    <3> QED BY <1>1, <1>5, <2>1, <3>1
  <2>2. CASE j > i
    <3>1. j - i \in 1..Len(l) - i + 1 /\ i + (j - i) - 1 = j - 1
      BY <1>1, <2>2
    <3>2. r[j] = after[j - i]
      BY <1>1, <1>3, <1>4, <1>5, <2>2
    <3> QED BY <1>3, <2>2, <3>1, <3>2
  <2> QED BY <1>1, <2>1, <2>2
<1> QED BY <1>6, <1>7 DEF r


(* RemoveFirst takes one add-on out and keeps the order of the others.     *)
LEMMA Removed ==
  ASSUME NEW l, Normalized(l), NEW a
  PROVE  /\ Normalized(RemoveFirst(l, a))
         /\ ToSet(RemoveFirst(l, a)) = ToSet(l) \ {a}
         /\ Guarded(l) /\ a # "whereabouts" => Guarded(RemoveFirst(l, a))
<1> DEFINE r == RemoveFirst(l, a)
<1>a. /\ l \in Seq(Addon) /\ Len(l) \in Nat /\ ToSet(l) = {l[j] : j \in 1..Len(l)}
      /\ \A i, j \in 1..Len(l) : i # j => l[i] # l[j]
  BY Domains DEF Normalized
<1>1. CASE a \notin ToSet(l)
  BY <1>a, <1>1 DEF RemoveFirst
<1>2. CASE a \in ToSet(l)
  <2>1. PICK i \in 1..Len(l) : l[i] = a /\ r = RemoveAt(l, i)
    BY <1>2, <1>a, Located DEF RemoveFirst
  <2>2. /\ r \in Seq(Addon) /\ Len(r) = Len(l) - 1
        /\ \A j \in 1..Len(r) : r[j] = IF j < i THEN l[j] ELSE l[j + 1]
    BY <2>1, RemovedAt
  <2> HIDE DEF r
  <2>3. IsInjective(r)
    <3>1. \A m, n \in 1..Len(r) : m # n => r[m] # r[n]
      BY <1>a, <2>1, <2>2
    <3> QED BY <2>2, <3>1, Domains
  <2>4. \A j \in 1..Len(l) : j # i =>
          \E m \in 1..Len(r) : r[m] = l[j] /\ m = IF j < i THEN j ELSE j - 1
    BY <1>a, <2>1, <2>2
  <2>5. ToSet(r) = {r[j] : j \in 1..Len(r)}
    BY <2>2 DEF ToSet
  <2>6. \A j \in 1..Len(r) : r[j] \in ToSet(l) /\ r[j] # a
    BY <1>a, <2>1, <2>2
  <2>7. ToSet(r) = ToSet(l) \ {a}
    BY <1>a, <2>1, <2>4, <2>5, <2>6
  <2>8. ASSUME Guarded(l), a # "whereabouts" PROVE Guarded(r)
    <3> SUFFICES ASSUME NEW m \in 1..Len(r), r[m] = "multus"
                 PROVE  \E n \in 1..Len(r) : n < m /\ r[n] = "whereabouts"
      BY DEF Guarded
    <3>1. PICK j \in 1..Len(l) : l[j] = r[m] /\ m = IF j < i THEN j ELSE j - 1 
      BY <1>a, <2>1, <2>2
    <3>2. PICK n \in 1..Len(l) : n < j /\ l[n] = "whereabouts"
      BY <2>8, <3>1 DEF Guarded
    <3>3. n # i /\ m = IF j < i THEN j ELSE j - 1
      BY <2>1, <2>8, <3>1, <3>2
    <3>4. j # i
      BY <2>1, <2>6, <3>1
    <3>5. PICK o \in 1..Len(r) : r[o] = l[n] /\ o = IF n < i THEN n ELSE n - 1
      BY <2>4, <3>3
    <3>6. o < m
      BY <1>a, <2>1, <3>2, <3>3, <3>4, <3>5
    <3> QED BY <3>2, <3>5, <3>6
  <2> QED BY <2>2, <2>3, <2>7, <2>8 DEF Normalized, r
<1> QED BY <1>1, <1>2

(* resolveAddonInstallOrder keeps every add-on but a Whereabouts without   *)
(* Multus, none twice, and moves Whereabouts ahead of Multus.              *)
LEMMA Resolved ==
  ASSUME NEW l, Normalized(l)
  PROVE  /\ Normalized(ResolveOrder(l))
         /\ ToSet(l) \ {"whereabouts"} \subseteq ToSet(ResolveOrder(l))
         /\ ToSet(ResolveOrder(l)) \subseteq ToSet(l)
         /\ "multus" \in ToSet(l) => ToSet(ResolveOrder(l)) = ToSet(l)
         /\ "whereabouts" \in ToSet(l) => Guarded(ResolveOrder(l))
<1>1. CASE "whereabouts" \notin ToSet(l)
  BY <1>1 DEF ResolveOrder
<1>2. CASE "whereabouts" \in ToSet(l)
  <2> DEFINE rest == RemoveFirst(l, "whereabouts")
             r == ResolveOrder(l)
  <2>1. /\ r = BeforeMultus(rest)
        /\ Normalized(rest) /\ ToSet(rest) = ToSet(l) \ {"whereabouts"}
    BY <1>2, Removed DEF ResolveOrder
  <2> HIDE DEF rest, r
  <2>a. /\ rest \in Seq(Addon) /\ Len(rest) \in Nat
        /\ ToSet(rest) = {rest[j] : j \in 1..Len(rest)}
        /\ \A i, j \in 1..Len(rest) : i # j => rest[i] # rest[j]
    BY <2>1, Domains DEF Normalized
  <2>2. CASE "multus" \notin ToSet(rest)
    <3>1. r = rest /\ Guarded(rest)
      BY <2>1, <2>a, <2>2 DEF BeforeMultus, Guarded
    <3> QED BY <1>2, <2>1, <2>2, <3>1 DEF r
  <2>3. CASE "multus" \in ToSet(rest)
    <3>1. PICK i \in 1..Len(rest) : rest[i] = "multus" /\ r = InsertAt(rest, i, "whereabouts")
      BY <2>1, <2>3, Located DEF BeforeMultus
    <3>2. /\ r \in Seq(Addon) /\ Len(r) = Len(rest) + 1
          /\ \A j \in 1..Len(r) :
               r[j] = IF j < i THEN rest[j] ELSE IF j = i THEN "whereabouts" ELSE rest[j - 1]
      BY <2>1, <3>1, Inserted DEF Addon
    <3>3. \A j \in 1..Len(rest) : rest[j] # "whereabouts"
      BY <2>1, <2>a
    <3>4. IsInjective(r)
      <4>1. \A m, n \in 1..Len(r) : m # n => r[m] # r[n]
        <5>1. ASSUME NEW m \in 1..Len(r), m # i
              PROVE  (IF m < i THEN m ELSE m - 1) \in 1..Len(rest)
                     /\ r[m] = rest[IF m < i THEN m ELSE m - 1]
          BY <2>a, <3>2, <5>1
        <5>2. \A m \in 1..Len(r) : m # i => r[m] # r[i]
          BY <2>a, <3>2, <3>3, <5>1
        <5>3. \A m, n \in 1..Len(r) : m # n /\ m # i /\ n # i => r[m] # r[n]
          <6> SUFFICES ASSUME NEW m \in 1..Len(r), NEW n \in 1..Len(r), m # n, m # i, n # i
                       PROVE  r[m] # r[n]
            OBVIOUS
          <6> DEFINE u == IF m < i THEN m ELSE m - 1
                     v == IF n < i THEN n ELSE n - 1
          <6>1. u # v
            BY <2>a, <3>2
          <6>2. u \in 1..Len(rest) /\ v \in 1..Len(rest) /\ r[m] = rest[u] /\ r[n] = rest[v]
            BY <5>1
          <6> HIDE DEF u, v
          <6> QED BY <2>a, <6>1, <6>2
        <5> QED BY <5>2, <5>3
      <4> QED BY <3>2, <4>1, Domains
    <3>5. ToSet(r) = {r[j] : j \in 1..Len(r)}
      BY <3>2, Domains
    <3>6. \A j \in 1..Len(rest) : \E m \in 1..Len(r) : r[m] = rest[j]
      <4> SUFFICES ASSUME NEW j \in 1..Len(rest) PROVE \E m \in 1..Len(r) : r[m] = rest[j]
        OBVIOUS
      <4>1. CASE j < i
        BY <2>a, <3>2, <4>1
      <4>2. CASE j >= i
        <5>1. j + 1 \in 1..Len(r) /\ r[j + 1] = rest[j]
          BY <2>a, <3>2, <4>2
        <5> QED BY <5>1
      <4> QED BY <4>1, <4>2
    <3>7. i \in 1..Len(r) /\ r[i] = "whereabouts"
      BY <2>a, <3>2
    <3>8. \A j \in 1..Len(r) : r[j] \in ToSet(rest) \cup {"whereabouts"}
      BY <2>a, <3>2
    <3>9. ToSet(r) = ToSet(rest) \cup {"whereabouts"}
      <4>1. ToSet(rest) \cup {"whereabouts"} \subseteq ToSet(r)
        BY <2>a, <3>5, <3>6, <3>7
      <4>2. ToSet(r) \subseteq ToSet(rest) \cup {"whereabouts"}
        BY <3>5, <3>8
      <4> QED BY <4>1, <4>2
    <3>10. Guarded(r)
      <4>1. \A j \in 1..Len(r) : r[j] = "multus" => j = i + 1
        BY <2>a, <3>1, <3>2
      <4> QED BY <2>a, <3>2, <3>7, <4>1 DEF Guarded
    <3> QED BY <1>2, <2>1, <3>2, <3>4, <3>9, <3>10 DEF Normalized, r
  <2> QED BY <2>2, <2>3
<1> QED BY <1>1, <1>2

(* The add-ons of a cluster before the CNI and after it are together those *)
(* configured, except for a Whereabouts that is there without Multus; and  *)
(* neither list has Multus ahead of a configured Whereabouts.              *)
(* The split around the CNI loses no add-on of the resolved order, and     *)
(* keeps Whereabouts ahead of Multus on either side.                       *)
LEMMA Divided ==
  ASSUME config \in Configs, NEW c
  PROVE  /\ PreAddons(c) \in Seq(Addon) /\ PostAddons(c) \in Seq(Addon)
         /\ ToSet(config.addons) \ {"whereabouts"}
              \subseteq ToSet(PreAddons(c)) \cup ToSet(PostAddons(c))
         /\ "multus" \in ToSet(config.addons) =>
              ToSet(config.addons) \subseteq ToSet(PreAddons(c)) \cup ToSet(PostAddons(c))
         /\ "whereabouts" \in ToSet(config.addons) =>
              Guarded(PreAddons(c)) /\ Guarded(PostAddons(c))
<1> DEFINE l == config.addons
           r == ResolveOrder(l)
<1>1. Normalized(l) /\ ToSet(l) \subseteq Addon
  <2>1. Normalized(l)
    BY CNIAssumption DEF Configs, Normalized
  <2> QED BY <2>1 DEF Normalized, ToSet
<1>2. /\ Normalized(r) /\ ToSet(l) \ {"whereabouts"} \subseteq ToSet(r)
      /\ ToSet(r) \subseteq ToSet(l)
      /\ "multus" \in ToSet(l) => ToSet(r) = ToSet(l)
      /\ "whereabouts" \in ToSet(l) => Guarded(r)
  BY <1>1, Resolved
<1> HIDE DEF r
<1>3. CASE MultusFirst(c)
  <2> DEFINE pre  == Pre(r)
             post == Post(r)
  <2>1. PreAddons(c) = pre /\ PostAddons(c) = ResolveOrder(post) /\ "multus" \in ToSet(l)
    BY <1>3 DEF PreAddons, PostAddons, MultusFirst, r
  <2>2. /\ Normalized(pre) /\ ToSet(pre) = ToSet(r) \ {"cert-manager"}
        /\ "whereabouts" \in ToSet(l) => Guarded(pre)
    BY <1>2, Removed DEF Pre
  <2>3. Normalized(post) /\ ToSet(post) = ToSet(r) \ {"multus", "whereabouts"}
    <3>1. /\ Normalized(RemoveFirst(r, "multus"))
          /\ ToSet(RemoveFirst(r, "multus")) = ToSet(r) \ {"multus"}
      BY <1>2, Removed
    <3>2. /\ Normalized(post)
          /\ ToSet(post) = ToSet(RemoveFirst(r, "multus")) \ {"whereabouts"}
      BY <3>1, Removed DEF Post
    <3> QED BY <3>1, <3>2
  <2> HIDE DEF pre, post
  <2>4. ResolveOrder(post) = post
    BY <2>3 DEF ResolveOrder
  <2>5. Guarded(post)
    BY <2>3 DEF Guarded, ToSet, Normalized
  <2>6. ToSet(r) \subseteq ToSet(pre) \cup ToSet(post)
    BY <2>2, <2>3, <1>1, <1>2 DEF Addon
  <2> QED BY <1>1, <1>2, <2>1, <2>2, <2>3, <2>4, <2>5, <2>6 DEF Normalized
<1>4. CASE ~MultusFirst(c)
  <2>1. PreAddons(c) = <<>> /\ PostAddons(c) = ResolveOrder(r)
    BY <1>4 DEF PreAddons, PostAddons, r
  <2>2. /\ Normalized(ResolveOrder(r))
        /\ ToSet(r) \ {"whereabouts"} \subseteq ToSet(ResolveOrder(r))
        /\ "multus" \in ToSet(r) => ToSet(ResolveOrder(r)) = ToSet(r)
        /\ "whereabouts" \in ToSet(r) => Guarded(ResolveOrder(r))
    BY <1>2, Resolved
  <2>3. "whereabouts" \in ToSet(l) => Guarded(ResolveOrder(r))
    BY <1>2, <2>2 DEF ResolveOrder
  <2>4. Guarded(<<>>)
    BY DEF Guarded
  <2> QED BY <1>1, <1>2, <2>1, <2>2, <2>3, <2>4 DEF Normalized
<1> QED BY <1>3, <1>4

(* What a run without a failing call relies on, and what it leaves. *)
Over(c, S) == Past(c, S) \/ result = "done"
AddonsIn(list, n) == \A i \in 1..Len(list) : i < n => list[i] \in done[This]
AfterPre == {"primary", "corefile", "label"} \cup SinceLabel \cup Finishing
AddonProgress ==
  /\ pc = "pre" => AddonsIn(PreAddons(This), at)
  /\ pc = "post" => AddonsIn(PostAddons(This), at)
  /\ \A c \in Cluster :
       /\ Over(c, AfterPre) => ToSet(PreAddons(c)) \subseteq done[c]
       /\ Over(c, Finishing \ {"post"}) => ToSet(PostAddons(c)) \subseteq done[c]

HandedOver ==
  \A c \in Cluster : Over(c, Finishing) =>
    /\ config.install /\ Mode(c) = "dpuHost" /\ InstallsOVNK(c) => "secret" \in done[c]
    /\ Deferred(c) => values[c] \notin {"none", "stale"}

Unreleased ==
  fresh /\ pc # "idle" => \A c \in Cluster : release[c] = "none" \/ PastHelm(c)

Begun == pc # "idle" => result = "none"

DNSServes(c) ==
  DNSNetworked(c) /\ (wanted[c]["coredns"] # 0 => replicas[c]["coredns"] # 0)
Restored(c) == (pc \in Restoring /\ Position(c) < k) \/ result = "done"
Brought ==
  /\ pc = "patch" => Mode(This) = "dpuHost"
  /\ \A c \in Cluster, d \in Deployment : patched[c][d] => Mode(c) = "dpuHost"
  /\ ~faulted /\ ((pc = "resume" /\ at > 1) \/ pc \in {"restart", "dns"}) =>
       replicas[This]["coredns"] # 0
  /\ ~faulted /\ pc \in {"restart", "dns"} =>
       \A i \in 1..Len(Loop) : i < at \/ pc = "dns" => restarted[This][Loop[i]]
  /\ \A c \in Cluster : Restored(c) /\ ~Deferred(c) =>
       /\ DNSServes(c)
       /\ ~faulted => \A i \in 1..Len(Loop) : restarted[c][Loop[i]]

(* Which step takes a run further, in its loops and past a cluster's steps.*)
StopsAt(a) ==
  PostAddon /\ at <= Len(PostAddons(This)) /\ a = PostAddons(This)[at] /\ MayNotGetReady(a)
Resumes == (ResumeDeployment /\ ~Deferred(This)) \/ ResumeRefused
Restarts == RestartDeployment \/ RestartRefused
Walks ==
  /\ pc' = "pre" => at' = 1 \/ (pc = "pre" /\ k' = k /\ (at' = at \/ (PreAddon /\ at' = at + 1)))
  /\ pc' = "post" => at' = 1 \/ (pc = "post" /\ k' = k /\ (at' = at \/ (PostAddon /\ at' = at + 1)))
  /\ pc' = "patch" => k' = k /\ (pc = "patch" \/ Mode(This) = "dpuHost")
  /\ pc' = "resume" => at' = 1 \/ (pc = "resume" /\ k' = k /\ (at' = at \/ Resumes))
  /\ pc' = "restart" =>
       /\ k' = k
       /\ \/ pc = "resume" /\ at' = 1 /\ Resumes
          \/ pc = "restart" /\ (at' = at \/ (at' = at + 1 /\ Restarts))
  /\ pc' = "dns" => k' = k /\ (pc = "dns" \/ (pc = "restart" /\ at >= Len(Loop) /\ Restarts))
  /\ result' = "failed" =>
       result = "failed" \/ faulted' \/ HelmInstall \/ MultusReady \/ WaitForCoreDNS
  /\ result' = "unavailable" => result = "unavailable" \/ \E a \in Addon : StopsAt(a)
  /\ faulted => faulted' \/ pc' = "ovs"
  /\ Begun'

(* What the add-ons after the primary network do to a run.                 *)
LEMMA PostAddonWalks ==
  ASSUME TypedRun, PostAddon
  PROVE  /\ pc = "post" /\ Ran
         /\ at <= Len(PostAddons(This)) => Put(This, Effects(PostAddons(This)[at]))
         /\ \/ Goto("multusready") /\ at >= Len(PostAddons(This))
            \/ at' = at + 1 /\ UNCHANGED <<pc, k, result>>
            \/ End("unavailable") /\ \E a \in Addon : StopsAt(a)
<1>1. PostAddons(This) \in Seq(Addon) /\ Len(PostAddons(This)) \in Nat /\ at \in Nat \ {0}
  BY Divided, Clusters DEF TypedRun
<1>2. pc = "post" /\ Ran
  BY DEF PostAddon
<1>3. CASE at > Len(PostAddons(This))
  BY <1>1, <1>2, <1>3 DEF PostAddon
<1>4. CASE at <= Len(PostAddons(This))
  <2> DEFINE a == PostAddons(This)[at]
  <2>1. /\ Put(This, Effects(a))
        /\ \/ Advance(PostAddons(This), "multusready")
           \/ MayNotGetReady(a) /\ End("unavailable")
    BY <1>1, <1>4 DEF PostAddon
  <2>2. a \in Addon
    BY <1>1, <1>4
  <2>3. CASE Advance(PostAddons(This), "multusready")
    BY <1>1, <1>2, <1>4, <2>1, <2>3 DEF Advance
  <2>4. CASE MayNotGetReady(a) /\ End("unavailable")
    BY <1>2, <1>4, <2>1, <2>2, <2>4 DEF StopsAt
  <2> QED BY <2>1, <2>3, <2>4
<1> QED BY <1>1, <1>3, <1>4

(* A run goes from each step only to those its walk allows.                *)
LEMMA WalksStep ==
  ASSUME TypedRun, Control, Begun, [Next]_vars
  PROVE  Walks
<1>a. Len(Ordered) = 2 /\ Len(Loop) \in 1..2
  BY Clusters, Loops
<1> USE <1>a
<1> USE DEF TypedRun, Control, Steps, Goto, Advance, End, SinceLabel, Finishing, Restoring,
        Begun, Walks, Resumes, Restarts, Ran, own, Failed
<1>1. CASE RunFresh \/ Rerun
  BY <1>1 DEF RunFresh, Rerun
<1>2. CASE SetupOVS \/ Primary \/ FlannelUnconfigured
  BY <1>2 DEF SetupOVS, Primary, FlannelUnconfigured
<1>3. CASE InstallAddons
  <2>1. CASE PreAddon
    BY <2>1 DEF PreAddon
  <2>2. CASE PostAddon
    BY <2>2, PostAddonWalks
  <2> QED BY <1>3, <2>1, <2>2 DEF InstallAddons
<1>4. CASE PatchCoreDNS \/ LabelNodes \/ DeployPlugin \/ WriteValues
  BY <1>4 DEF PatchCoreDNS, LabelNodes, DeployPlugin, WriteValues
<1>5. CASE HelmInstall \/ ApplyCRDs \/ DeleteProxy \/ CreateAccessSecret \/ MultusReady
  BY <1>5 DEF HelmInstall, ApplyCRDs, DeleteProxy, CreateAccessSecret, MultusReady
<1>6. CASE SuspendDeployment \/ SuspendRefused \/ PatchDeployment
  BY <1>6 DEF SuspendDeployment, SuspendRefused, PatchDeployment, AfterSuspend, ClusterInstalled
<1>7. CASE ResumeDeployment \/ ResumeRefused
  BY <1>7 DEF ResumeDeployment, ResumeRefused, ClusterRestored
<1>8. CASE RestartDeployment \/ RestartRefused
  BY <1>8 DEF RestartDeployment, RestartRefused
<1>9. CASE WaitForCoreDNS
  BY <1>9 DEF WaitForCoreDNS, ClusterRestored
<1>10. CASE UserCommands
  BY <1>10 DEF UserCommands, HostAccess, ExternalHelm, GenerateValues, Unrun, Commands
<1>11. CASE CallFails \/ Kill
  BY <1>11 DEF CallFails, Kill
<1>12. CASE \E e \in Cluster, d \in Deployment, n \in Counts : UserScales(e, d, n)
  BY <1>12 DEF UserScales
<1>13. CASE UNCHANGED vars
  BY <1>13 DEF vars
<1> QED BY <1>1, <1>2, <1>3, <1>4, <1>5, <1>6, <1>7, <1>8, <1>9, <1>10, <1>11, <1>12, <1>13
        DEF Next, InstallOVNK, PostInstall, Disturbance

Leaves(c) ==
  /\ Over(c, AfterPre)' =>
       Over(c, AfterPre) \/ (c = This /\ PreAddon /\ at >= Len(PreAddons(c)))
  /\ Over(c, Finishing)' =>
       \/ Over(c, Finishing)
       \/ /\ c = This
          /\ \/ ~InstallsOVNK(c) \/ WriteValues
             \/ config.install /\ (Mode(c) # "dpuHost" \/ CreateAccessSecret)
  /\ Over(c, Finishing \ {"post"})' =>
       Over(c, Finishing \ {"post"}) \/ (c = This /\ PostAddon /\ at >= Len(PostAddons(c)))
  /\ Restored(c)' =>
       Restored(c) \/ (c = This /\ (Deferred(c) \/ (WaitForCoreDNS /\ DNSCanRun(c))))

(* A cluster is past a step only once the run has left it there.           *)
LEMMA LeavesStep ==
  ASSUME TypedRun, Control, [Next]_vars, NEW c \in Cluster
  PROVE  Leaves(c)
<1>a. Len(Ordered) = 2 /\ Len(Loop) \in 1..2 /\ Position(This) = k /\ This \in Cluster
  BY Clusters, Loops
<1>b. Position(c) \in 1..2 /\ (Position(c) = k => c = This)
  BY <1>a DEF Position, Cluster
<1> USE <1>a, <1>b
<1> USE DEF TypedRun, Control, Steps, Goto, Advance, End, SinceLabel, Finishing, Restoring,
        Past, Over, AfterPre, Restored, Leaves
<1>1. CASE RunFresh \/ Rerun
  BY <1>1 DEF RunFresh, Rerun
<1>2. CASE SetupOVS
  BY <1>2 DEF SetupOVS
<1>3. CASE Primary \/ FlannelUnconfigured
  BY <1>3 DEF Primary, FlannelUnconfigured
<1>4. CASE InstallAddons
  BY <1>4 DEF InstallAddons, PreAddon, PostAddon
<1>5. CASE PatchCoreDNS \/ LabelNodes \/ DeployPlugin
  BY <1>5 DEF PatchCoreDNS, LabelNodes, DeployPlugin
<1>6. CASE WriteValues
  BY <1>6 DEF WriteValues
<1>7. CASE HelmInstall \/ ApplyCRDs \/ DeleteProxy \/ CreateAccessSecret \/ MultusReady
  BY <1>7 DEF HelmInstall, ApplyCRDs, DeleteProxy, CreateAccessSecret, MultusReady
<1>8. CASE SuspendDeployment \/ SuspendRefused \/ PatchDeployment
  BY <1>8 DEF SuspendDeployment, SuspendRefused, PatchDeployment, AfterSuspend, ClusterInstalled
<1>9. CASE ResumeDeployment \/ ResumeRefused \/ RestartDeployment \/ RestartRefused
  BY <1>9 DEF ResumeDeployment, ResumeRefused, RestartDeployment, RestartRefused, ClusterRestored
<1>10. CASE WaitForCoreDNS
  BY <1>10 DEF WaitForCoreDNS, ClusterRestored
<1>11. CASE UserCommands \/ CallFails \/ Kill
  BY <1>11 DEF UserCommands, HostAccess, ExternalHelm, GenerateValues, Unrun, Commands,
     CallFails, Kill
<1>12. CASE \E e \in Cluster, d \in Deployment, n \in Counts : UserScales(e, d, n)
  BY <1>12 DEF UserScales
<1>13. CASE UNCHANGED vars
  BY <1>13 DEF vars
<1> QED BY <1>1, <1>2, <1>3, <1>4, <1>5, <1>6, <1>7, <1>8, <1>9, <1>10, <1>11, <1>12, <1>13
        DEF Next, InstallOVNK, PostInstall, Disturbance

(* A run goes on past a cluster's release, until it ends; and on new       *)
(* clusters it is the run that releases.                                   *)
Onward(c) ==
  /\ PastHelm(c) /\ pc' # "idle" => PastHelm(c)'
  /\ pc' # "idle" => UNCHANGED release \/ RunFresh \/ (HelmInstall /\ pc' = "crds" /\ UNCHANGED k)
  /\ fresh' /\ pc' # "idle" => RunFresh \/ (fresh /\ pc # "idle")

(* What a cluster is past stays behind it while the run lasts.             *)
LEMMA OnwardStep ==
  ASSUME TypedRun, Control, [Next]_vars, NEW c \in Cluster
  PROVE  Onward(c)
<1>a. Len(Ordered) = 2 /\ Len(Loop) \in 1..2 /\ Position(This) = k /\ This \in Cluster
  BY Clusters, Loops
<1>b. Position(c) \in 1..2 /\ (Position(c) = k => c = This)
  BY <1>a DEF Position, Cluster
<1> USE <1>a, <1>b
<1> USE DEF TypedRun, Control, Steps, Goto, Advance, End, SinceLabel, Finishing, Restoring,
        Past, PastHelm, Onward, Ran, own, Failed
<1>1. CASE RunFresh \/ Rerun
  BY <1>1 DEF RunFresh, Rerun, installVars
<1>2. CASE SetupOVS \/ Primary \/ FlannelUnconfigured
  BY <1>2 DEF SetupOVS, Primary, FlannelUnconfigured
<1>4. CASE InstallAddons
  BY <1>4 DEF InstallAddons, PreAddon, PostAddon
<1>5. CASE PatchCoreDNS \/ LabelNodes \/ DeployPlugin \/ WriteValues
  BY <1>5 DEF PatchCoreDNS, LabelNodes, DeployPlugin, WriteValues
<1>7. CASE HelmInstall \/ ApplyCRDs \/ DeleteProxy \/ CreateAccessSecret
  BY <1>7 DEF HelmInstall, ApplyCRDs, DeleteProxy, CreateAccessSecret
<1>8. CASE SuspendDeployment \/ SuspendRefused \/ PatchDeployment \/ MultusReady
  BY <1>8 DEF SuspendDeployment, SuspendRefused, PatchDeployment, AfterSuspend,
     ClusterInstalled, MultusReady, installVars
<1>9. CASE ResumeDeployment \/ ResumeRefused \/ RestartDeployment \/ RestartRefused
  BY <1>9 DEF ResumeDeployment, ResumeRefused, RestartDeployment, RestartRefused,
     ClusterRestored, installVars
<1>10. CASE WaitForCoreDNS
  BY <1>10 DEF WaitForCoreDNS, ClusterRestored, installVars
<1>11. CASE UserCommands \/ CallFails \/ Kill
  BY <1>11 DEF UserCommands, HostAccess, ExternalHelm, GenerateValues, Unrun, Commands,
     CallFails, Kill
<1>12. CASE \E e \in Cluster, d \in Deployment, n \in Counts : UserScales(e, d, n)
  BY <1>12 DEF UserScales, installVars
<1>13. CASE UNCHANGED vars
  BY <1>13 DEF vars, installVars
<1> QED BY <1>1, <1>2, <1>4, <1>5, <1>7, <1>8, <1>9, <1>10, <1>11, <1>12, <1>13
        DEF Next, InstallOVNK, PostInstall, Disturbance

(* What is not lost again while the clusters live.                         *)
Usable(c) == values[c] \notin {"none", "stale"}
Stays(c) ==
  /\ done[c] \ {"proxy"} \subseteq done'[c]
  /\ release[c] = "deployed" => release'[c] = "deployed"
  /\ NetUp(c) => NetUp(c)'
  /\ Usable(c) => Usable(c)'
DeploymentStays(c, d) ==
  /\ replicas[c][d] # 0 =>
       \/ replicas'[c][d] # 0 \/ pc = "suspend"
       \/ wanted'[c][d] = 0 /\ (pc = "idle" \/ faulted')
  /\ wanted'[c][d] = wanted[c][d] \/ replicas'[c][d] = wanted'[c][d]
  /\ restarted[c][d] => restarted'[c][d]
  /\ patched'[c][d] => patched[c][d] \/ (pc = "patch" /\ c = This)

(* Only a run on new clusters takes usable values away.                    *)
LEMMA UsableStays ==
  ASSUME TypedRun, TypedThings, [Next]_vars, ~RunFresh, NEW c \in Cluster, Usable(c)
  PROVE  Usable(c)'
<1> USE Clusters DEF Usable
<1>1. CASE WriteValues
  BY <1>1 DEF WriteValues, Generated, TypedThings
<1>2. ASSUME NEW r \in BOOLEAN, GenerateValues(r) PROVE Usable(c)'
  BY <1>2 DEF GenerateValues, Generated
<1>3. CASE UNCHANGED values
  BY <1>3
<1> QED BY <1>1, <1>2, <1>3
        DEF Next, Rerun, SetupOVS, Primary, InstallAddons, PreAddon, PostAddon, InstallOVNK,
            PatchCoreDNS, LabelNodes, DeployPlugin, HelmInstall, ApplyCRDs, DeleteProxy,
            CreateAccessSecret, PostInstall, MultusReady, SuspendDeployment, PatchDeployment,
            ResumeDeployment, RestartDeployment, WaitForCoreDNS, UserCommands, HostAccess,
            ExternalHelm, Disturbance, CallFails, Kill, SuspendRefused, ResumeRefused,
            RestartRefused, FlannelUnconfigured, UserScales, vars, installVars

(* Only a run on new clusters takes a network, an add-on or a release      *)
(* away.                                                                   *)
LEMMA StaysStep ==
  ASSUME TypedRun, TypedThings, [Next]_vars, ~RunFresh, NEW c \in Cluster
  PROVE  Stays(c)
<1>1. PICK e \in Cluster : Changes(e)
  BY ThingsStep
<1>2. /\ done[c] \ {"proxy"} \subseteq done'[c]
      /\ release[c] = "deployed" => release'[c] = "deployed"
  BY <1>1 DEF Changes
<1>3. NetUp(c) => NetUp(c)'
  BY <1>2, ConfigurationKept DEF NetUp, Networked, NeedsOVNK
<1> QED BY <1>2, <1>3, UsableStays DEF Stays

(* What an operation on one Deployment leaves of every Deployment.         *)
LEMMA OperationStays ==
  ASSUME TypedDeployments, NEW e \in Cluster, NEW f \in Deployment,
         NEW c \in Cluster, NEW d \in Deployment,
         Suspend(e, f) \/ Resume(e, f) \/ Patch(e, f) \/ Restart(e, f)
  PROVE  /\ wanted' = wanted
         /\ ~Suspend(e, f) => (replicas[c][d] # 0 => replicas'[c][d] # 0)
         /\ restarted[c][d] => restarted'[c][d]
         /\ patched'[c][d] => patched[c][d] \/ (Patch(e, f) /\ c = e)
<1> USE Sizes DEF TypedDeployments
<1>1. CASE Suspend(e, f)
  BY <1>1 DEF Suspend
<1>2. CASE Resume(e, f)
  BY <1>2 DEF Resume
<1>3. CASE Patch(e, f)
  BY <1>3 DEF Patch
<1>4. CASE Restart(e, f)
  BY <1>4 DEF Restart
<1> QED BY <1>1, <1>2, <1>3, <1>4

(* What a step of a run on these clusters leaves of a Deployment.          *)
LEMMA DeploymentsStay ==
  ASSUME Typed, Control, [Next]_vars, ~RunFresh, NEW c \in Cluster, NEW d \in Deployment
  PROVE  DeploymentStays(c, d)
<1>a. /\ TypedRun /\ TypedDeployments /\ This \in Cluster
      /\ pc \in {"suspend", "patch", "resume", "restart"} => Loop[at] \in Deployment
  BY Clusters, Loops DEF Typed, TypedRun, Control
<1> USE <1>a DEF DeploymentStays
<1>1. CASE UNCHANGED deploymentVars
  BY <1>1 DEF deploymentVars
<1>2. CASE SuspendDeployment
  BY <1>2, OperationStays DEF SuspendDeployment, Suspend
<1>3. CASE PatchDeployment
  BY <1>3, OperationStays DEF PatchDeployment, Suspend, Patch
<1>4. CASE RestartDeployment
  BY <1>4, OperationStays DEF RestartDeployment, Restart, Suspend, Patch
<1>5. CASE ResumeDeployment /\ ~Deferred(This)
  <2>1. Resume(This, Loop[at])
    BY <1>5 DEF ResumeDeployment
  <2>2. patched' = patched /\ restarted' = restarted
    BY <2>1 DEF Resume
  <2>3. replicas[c][d] # 0 => replicas'[c][d] # 0
    BY <1>5, <2>1, Sizes DEF Resume, ResumeDeployment, TypedDeployments
  <2>4. wanted' = wanted
    BY <2>1 DEF Resume
  <2> QED BY <2>2, <2>3, <2>4
<1>6. ASSUME NEW e \in Cluster, NEW f \in Deployment, NEW n \in Counts,
             UserScales(e, f, n)
      PROVE  DeploymentStays(c, d)
  <2>1. Scale(e, f, n)
    BY <1>6 DEF UserScales
  <2>2. patched' = patched /\ restarted' = restarted
    BY <2>1 DEF Scale
  <2>3. CASE c = e /\ d = f
    <3>1. replicas'[c][d] = n /\ wanted'[c][d] = n
      BY <2>1, <2>3 DEF Scale, TypedDeployments
    <3>2. n = 0 => pc = "idle" \/ faulted'
      BY <1>6 DEF UserScales
    <3> QED BY <2>2, <3>1, <3>2
  <2>4. CASE ~(c = e /\ d = f)
    <3>1. replicas'[c][d] = replicas[c][d] /\ wanted'[c][d] = wanted[c][d]
      BY <2>1, <2>4 DEF Scale, TypedDeployments
    <3> QED BY <2>2, <3>1
  <2> QED BY <2>3, <2>4
<1> QED BY <1>1, <1>2, <1>3, <1>4, <1>5, <1>6
        DEF Next, Rerun, SetupOVS, Primary, InstallAddons, PreAddon, PostAddon, InstallOVNK,
            PatchCoreDNS, LabelNodes, DeployPlugin, WriteValues, HelmInstall, ApplyCRDs,
            DeleteProxy, CreateAccessSecret, PostInstall, MultusReady, ResumeDeployment,
            WaitForCoreDNS, UserCommands, HostAccess, ExternalHelm, GenerateValues, Unrun,
            Disturbance, CallFails, Kill, SuspendRefused, ResumeRefused, RestartRefused,
            FlannelUnconfigured, vars

(* Nothing of what a run has reached is left when clusters are created.    *)
LEMMA FreshRunStarts ==
  ASSUME TypedRun, Control, RunFresh, NEW c \in Cluster
  PROVE  /\ pc' = "ovs" /\ k' = 1 /\ result' = "none"
         /\ ~Over(c, AfterPre)' /\ ~Over(c, Finishing)' /\ ~Over(c, Finishing \ {"post"})'
         /\ ~Restored(c)'
<1>1. pc' = "ovs" /\ k' = 1 /\ result' = "none"
  BY DEF RunFresh, Control
<1> QED BY <1>1 DEF Over, Past, AfterPre, SinceLabel, Finishing, Restored, Restoring, Position

(* An add-on that is installed is in its cluster.                          *)
LEMMA AddonArrives ==
  ASSUME TypedRun, TypedThings, NEW list \in Seq(Addon), at \in 1..Len(list),
         Put(This, Effects(list[at]))
  PROVE  list[at] \in done'[This]
<1>1. list[at] \in Addon
  OBVIOUS
<1>2. list[at] \in Effects(list[at])
  BY <1>1 DEF Effects, Known
<1> QED BY <1>2, Clusters DEF TypedThings, Put

(* What is in place of a list of add-ons after an element of it more.      *)
LEMMA OneAddonMore ==
  ASSUME TypedRun, TypedThings, [Next]_vars, ~RunFresh,
         NEW list \in Seq(Addon), AddonsIn(list, at),
         at <= Len(list) => Put(This, Effects(list[at])),
         NEW i \in 1..Len(list), i <= at
  PROVE  list[i] \in done'[This]
<1>1. CASE i = at
  BY <1>1, AddonArrives
<1>2. CASE i < at
  <2>1. list[i] \in done[This] /\ list[i] \in Addon
    BY <1>2 DEF AddonsIn
  <2>2. done[This] \ {"proxy"} \subseteq done'[This]
    BY StaysStep, Clusters DEF Stays
  <2> QED BY <2>1, <2>2 DEF Addon
<1> QED BY <1>1, <1>2 DEF TypedRun

(* Every step keeps the add-ons up to the loop's place in the cluster.     *)
LEMMA AddonProgressStep ==
  ASSUME Typed, Control, Begun, AddonProgress, [Next]_vars
  PROVE  AddonProgress'
<1>a. /\ TypedRun /\ TypedThings /\ config' = config /\ This \in Cluster
      /\ (k' = k => This' = This)
      /\ \A c : PreAddons(c)' = PreAddons(c) /\ PostAddons(c)' = PostAddons(c)
      /\ at \in Nat \ {0}
  BY Clusters, ConfigurationKept, SameConfiguration
     DEF Typed, PreAddons, PostAddons, MultusFirst, Mode, TypedRun
<1>b. \A c : PreAddons(c) \in Seq(Addon) /\ PostAddons(c) \in Seq(Addon)
  BY <1>a, Divided DEF TypedRun
<1>1. CASE RunFresh
  BY <1>1, <1>a, FreshRunStarts DEF AddonProgress
<1>2. CASE ~RunFresh
  <2>1. Walks /\ \A c \in Cluster : Leaves(c) /\ Stays(c)
    BY <1>2, <1>a, WalksStep, LeavesStep, StaysStep
  <2>2. ASSUME NEW list \in Seq(Addon), NEW c \in Cluster, ToSet(list) \subseteq done[c]
        PROVE  ToSet(list) \subseteq done'[c]
    <3>1. "proxy" \notin ToSet(list)
      BY DEF ToSet, Addon
    <3> QED BY <2>1, <2>2, <3>1 DEF Stays
  <2>3. ASSUME NEW list \in Seq(Addon), AddonsIn(list, at), k' = k
        PROVE  /\ at' = at => \A i \in 1..Len(list) : i < at' => list[i] \in done'[This']
               /\ (at <= Len(list) => Put(This, Effects(list[at]))) =>
                     \A i \in 1..Len(list) : i < at + 1 => list[i] \in done'[This']
    <3>1. \A i \in 1..Len(list) : i < at => list[i] \in done'[This]
      <4>1. \A i \in 1..Len(list) : i < at => list[i] \in done[This] /\ list[i] # "proxy"
        BY <2>3 DEF AddonsIn, Addon
      <4> QED BY <4>1, <2>1, <1>a DEF Stays
    <3>2. (at <= Len(list) => Put(This, Effects(list[at]))) =>
             \A i \in 1..Len(list) : i <= at => list[i] \in done'[This]
      BY <1>a, <1>2, <2>3, OneAddonMore
    <3> QED BY <1>a, <2>3, <3>1, <3>2
  <2>4. /\ PreAddon =>
             /\ pc = "pre"
             /\ at <= Len(PreAddons(This)) => Put(This, Effects(PreAddons(This)[at]))
        /\ PostAddon =>
             /\ pc = "post"
             /\ at <= Len(PostAddons(This)) => Put(This, Effects(PostAddons(This)[at]))
    BY <1>a, PostAddonWalks DEF PreAddon
  <2>5. ASSUME pc' = "pre"
        PROVE  \A i \in 1..Len(PreAddons(This)') : i < at' => PreAddons(This)'[i] \in done'[This']
    <3>1. CASE at' = 1
      BY <3>1
    <3>2. CASE pc = "pre" /\ k' = k /\ (at' = at \/ (PreAddon /\ at' = at + 1))
      <4>1. PreAddons(This)' = PreAddons(This) /\ AddonsIn(PreAddons(This), at)
        BY <1>a, <3>2 DEF AddonProgress
      <4> QED BY <1>b, <2>3, <2>4, <3>2, <4>1
    <3> QED BY <2>1, <2>5, <3>1, <3>2 DEF Walks
  <2>6. ASSUME pc' = "post"
        PROVE  \A i \in 1..Len(PostAddons(This)') : i < at' => PostAddons(This)'[i] \in done'[This']
    <3>1. CASE at' = 1
      BY <3>1
    <3>2. CASE pc = "post" /\ k' = k /\ (at' = at \/ (PostAddon /\ at' = at + 1))
      <4>1. PostAddons(This)' = PostAddons(This) /\ AddonsIn(PostAddons(This), at)
        BY <1>a, <3>2 DEF AddonProgress
      <4> QED BY <1>b, <2>3, <2>4, <3>2, <4>1
    <3> QED BY <2>1, <2>6, <3>1, <3>2 DEF Walks
  <2>7. ASSUME NEW list \in Seq(Addon), AddonsIn(list, at), at >= Len(list),
               at <= Len(list) => Put(This, Effects(list[at]))
        PROVE  ToSet(list) \subseteq done'[This]
    <3>1. \A i \in 1..Len(list) : list[i] \in done'[This]
      BY <1>a, <1>2, <2>7, OneAddonMore
    <3> QED BY <3>1 DEF ToSet
  <2>8. ASSUME NEW c \in Cluster
        PROVE  /\ Over(c, AfterPre)' => ToSet(PreAddons(c)) \subseteq done'[c]
               /\ Over(c, Finishing \ {"post"})' => ToSet(PostAddons(c)) \subseteq done'[c]
    <3>1. Over(c, AfterPre) => ToSet(PreAddons(c)) \subseteq done'[c]
      BY <1>b, <2>2 DEF AddonProgress
    <3>2. Over(c, Finishing \ {"post"}) => ToSet(PostAddons(c)) \subseteq done'[c]
      BY <1>b, <2>2 DEF AddonProgress
    <3>3. ASSUME c = This, PreAddon, at >= Len(PreAddons(c))
          PROVE  ToSet(PreAddons(c)) \subseteq done'[c]
      BY <1>b, <2>4, <2>7, <3>3 DEF AddonProgress
    <3>4. ASSUME c = This, PostAddon, at >= Len(PostAddons(c))
          PROVE  ToSet(PostAddons(c)) \subseteq done'[c]
      BY <1>b, <2>4, <2>7, <3>4 DEF AddonProgress
    <3> QED BY <2>1, <3>1, <3>2, <3>3, <3>4 DEF Leaves
  <2> QED BY <1>a, <2>5, <2>6, <2>8 DEF AddonProgress, AddonsIn
<1> QED BY <1>1, <1>2

(* Every step keeps the values files of the clusters handed to the user.   *)
LEMMA HandedOverStep ==
  ASSUME Typed, Control, HandedOver, [Next]_vars
  PROVE  HandedOver'
<1>a. /\ TypedRun /\ TypedThings /\ config' = config /\ This \in Cluster
      /\ \A c : /\ InstallsOVNK(c)' = InstallsOVNK(c)
                /\ Deferred(c)' = Deferred(c) /\ Mode(c)' = Mode(c)
  BY Clusters, ConfigurationKept, SameConfiguration DEF Typed
<1>1. CASE RunFresh
  BY <1>1, <1>a, FreshRunStarts DEF HandedOver
<1>2. CASE ~RunFresh
  <2>1. \A c \in Cluster : Leaves(c) /\ Stays(c)
    BY <1>2, <1>a, LeavesStep, StaysStep
  <2> SUFFICES ASSUME NEW c \in Cluster, Over(c, Finishing)'
               PROVE  /\ config.install /\ Mode(c) = "dpuHost" /\ InstallsOVNK(c) =>
                           "secret" \in done'[c]
                      /\ Deferred(c) => Usable(c)'
    BY <1>a DEF HandedOver, Usable
  <2>2. CASE Over(c, Finishing)
    BY <2>1, <2>2 DEF HandedOver, Usable, Stays
  <2>3. CASE c = This /\ (~InstallsOVNK(c) \/ (config.install /\ Mode(c) # "dpuHost"))
    BY <2>3 DEF Deferred
  <2>4. CASE c = This /\ WriteValues
    <3>1. Usable(c)'
      BY <1>a, <2>4 DEF WriteValues, Usable, Generated, TypedThings
    <3>2. ~config.install
      BY <2>4 DEF WriteValues, Control
    <3> QED BY <3>1, <3>2
  <2>5. CASE c = This /\ config.install /\ CreateAccessSecret
    BY <1>a, <2>5 DEF CreateAccessSecret, Put, TypedThings, Deferred
  <2> QED BY <2>1, <2>2, <2>3, <2>4, <2>5 DEF Leaves
<1> QED BY <1>1, <1>2

(* Every step of a run on new clusters keeps the releases to come absent.  *)
LEMMA UnreleasedStep ==
  ASSUME Typed, Control, Unreleased, [Next]_vars
  PROVE  Unreleased'
<1>a. TypedRun /\ TypedThings /\ This \in Cluster /\ Position(This) = k /\ k' \in 1..2
  BY Clusters, TypedStep DEF Typed, TypedRun
<1> SUFFICES ASSUME fresh', pc' # "idle", NEW c \in Cluster
             PROVE  release'[c] = "none" \/ PastHelm(c)'
  BY DEF Unreleased
<1>1. CASE RunFresh
  BY <1>1 DEF RunFresh
<1>2. CASE ~RunFresh
  <2>1. Onward(c)
    BY <1>a, OnwardStep
  <2>2. fresh /\ pc # "idle" /\ (PastHelm(c) => PastHelm(c)')
    BY <1>2, <2>1 DEF Onward
  <2>3. CASE UNCHANGED release
    BY <2>2, <2>3 DEF Unreleased
  <2>4. CASE HelmInstall /\ pc' = "crds" /\ UNCHANGED k
    <3>1. CASE c = This
      BY <1>a, <2>4, <3>1 DEF PastHelm, Past
    <3>2. CASE c # This
      <4>1. release'[c] = release[c]
        BY <1>a, <2>4, <3>2 DEF HelmInstall, TypedThings
      <4> QED BY <2>2, <4>1 DEF Unreleased
    <3> QED BY <3>1, <3>2
  <2> QED BY <1>2, <2>1, <2>3, <2>4 DEF Onward
<1> QED BY <1>1, <1>2

(* CoreDNS can go on running unless it is suspended, patched or scaled to  *)
(* zero.                                                                   *)
LEMMA DNSStays ==
  ASSUME Typed, Control, [Next]_vars, ~RunFresh, pc \notin {"suspend", "patch"},
         NEW c \in Cluster, DNSServes(c)
  PROVE  DNSServes(c)'
<1>1. TypedRun /\ TypedThings /\ "dpu" \in Cluster /\ "coredns" \in Deployment
  BY DEF Typed, Cluster, Deployment
<1>2. Stays(c) /\ Stays("dpu") /\ DeploymentStays(c, "coredns")
  BY <1>1, StaysStep, DeploymentsStay
<1>3. /\ wanted'[c]["coredns"] # 0 => replicas'[c]["coredns"] # 0
      /\ patched'[c]["coredns"] => patched[c]["coredns"]
  BY <1>2 DEF DNSServes, DeploymentStays
<1>4. NetUp(c)' /\ (NetUp("dpu") => NetUp("dpu")')
  BY <1>2 DEF DNSServes, DNSNetworked, Stays
<1>5. "plugin" \in done[c] => "plugin" \in done'[c]
  BY <1>2 DEF Stays
<1>6. DNSNetworked(c)'
  BY <1>3, <1>4, <1>5 DEF DNSServes, DNSNetworked
<1> QED BY <1>3, <1>6 DEF DNSServes

(* Where no call fails, CoreDNS has replicas once it is resumed.           *)
LEMMA ResumedHasReplicas ==
  ASSUME Typed, Control, Brought, ~faulted, ~faulted', [Next]_vars, ~RunFresh,
         pc = "resume", Resumes
  PROVE  replicas'[This]["coredns"] # 0
<1>1. /\ TypedDeployments /\ This \in Cluster /\ Loop[1] = "coredns" /\ "coredns" \in Deployment
      /\ at \in Nat \ {0}
  BY Clusters, Loops DEF Typed, TypedRun, Deployment
<1>2. Resume(This, Loop[at])
  BY DEF Resumes, ResumeDeployment, ResumeRefused, Failed
<1>3. CASE at = 1
  BY <1>1, <1>2, <1>3 DEF Resume, TypedDeployments
<1>4. CASE at > 1
  BY <1>1, <1>4, DeploymentsStay DEF DeploymentStays, Brought
<1> QED BY <1>1, <1>3, <1>4

(* The restart loop has restarted what lies behind it.                     *)
LEMMA RestartedSoFar ==
  ASSUME Typed, Control, Brought, ~faulted, ~faulted', [Next]_vars, ~RunFresh,
         pc = "restart", Restarts, NEW i \in 1..Len(Loop), i <= at
  PROVE  restarted'[This][Loop[i]]
<1>1. TypedDeployments /\ This \in Cluster /\ Loop[i] \in Deployment /\ at \in Nat \ {0}
  BY Clusters, Loops DEF Typed, TypedRun
<1>2. Restart(This, Loop[at])
  BY DEF Restarts, RestartDeployment, RestartRefused, Failed
<1>3. CASE i = at
  BY <1>1, <1>2, <1>3 DEF Restart, TypedDeployments
<1>4. CASE i < at
  BY <1>1, <1>4, DeploymentsStay DEF DeploymentStays, Brought
<1> QED BY <1>1, <1>3, <1>4

(* Every step keeps the system deployments of the finished clusters up.    *)
LEMMA BroughtStep ==
  ASSUME Typed, Control, Begun, Brought, [Next]_vars
  PROVE  Brought'
<1>a. /\ TypedRun /\ TypedThings /\ config' = config /\ This \in Cluster /\ Loop' = Loop
      /\ (k' = k => This' = This) /\ "coredns" \in Deployment
      /\ \A c : Deferred(c)' = Deferred(c) /\ Mode(c)' = Mode(c)
      /\ \A i \in 1..Len(Loop) : Loop[i] \in Deployment
  BY Clusters, Loops, ConfigurationKept, SameConfiguration DEF Typed, Deployment
<1>1. CASE RunFresh
  <2>1. /\ \A c \in Cluster, d \in Deployment : ~patched'[c][d]
        /\ pc' = "ovs" /\ \A c \in Cluster : ~Restored(c)'
    BY <1>1, <1>a, FreshRunStarts DEF RunFresh, DeploymentsFresh
  <2> QED BY <2>1 DEF Brought
<1>2. CASE ~RunFresh
  <2>1. /\ Walks /\ \A c \in Cluster : Leaves(c)
        /\ \A c \in Cluster, d \in Deployment : DeploymentStays(c, d)
    BY <1>2, <1>a, WalksStep, LeavesStep, DeploymentsStay
  <2>2. pc' = "patch" => (Mode(This) = "dpuHost")'
    BY <1>a, <2>1 DEF Walks, Brought
  <2>3. \A c \in Cluster, d \in Deployment : patched'[c][d] => Mode(c)' = "dpuHost"
    BY <1>a, <2>1 DEF DeploymentStays, Brought
  <2>4. ASSUME ~faulted', (pc' = "resume" /\ at' > 1) \/ pc' \in {"restart", "dns"}
        PROVE  replicas'[This']["coredns"] # 0
    <3>1. /\ ~faulted /\ k' = k /\ This' = This
          /\ pc \in {"resume", "restart", "dns"}
          /\ pc = "resume" => at' = at \/ Resumes
          /\ pc = "resume" /\ ~Resumes => pc' = "resume"
      BY <1>a, <2>1, <2>4 DEF Walks
    <3>2. CASE pc = "resume" /\ Resumes
      BY <1>2, <2>4, <3>1, <3>2, ResumedHasReplicas
    <3>3. CASE ~(pc = "resume" /\ Resumes)
      <4>1. replicas[This]["coredns"] # 0
        BY <2>4, <3>1, <3>3 DEF Brought
      <4>2. pc \notin {"idle", "suspend"} /\ ~faulted'
        BY <2>4, <3>1
      <4> QED BY <1>a, <2>1, <3>1, <4>1, <4>2 DEF DeploymentStays
    <3> QED BY <3>2, <3>3
  <2>5. ASSUME ~faulted', pc' \in {"restart", "dns"},
               NEW i \in 1..Len(Loop), i < at' \/ pc' = "dns"
        PROVE  restarted'[This'][Loop[i]]
    <3>1. ~faulted /\ k' = k /\ This' = This /\ at \in Nat \ {0} /\ Len(Loop) \in Nat
      BY <1>a, <2>1, <2>5, Loops DEF Walks, TypedRun
    <3>2. CASE pc = "restart" /\ Restarts /\ i <= at
      BY <1>2, <2>5, <3>1, <3>2, RestartedSoFar
    <3>3. CASE (pc = "restart" /\ i < at) \/ pc = "dns"
      <4>1. restarted[This][Loop[i]]
        BY <3>1, <3>3 DEF Brought
      <4> QED BY <1>a, <2>1, <3>1, <4>1 DEF DeploymentStays
    <3> QED BY <2>1, <2>5, <3>1, <3>2, <3>3 DEF Walks
  <2>6. ASSUME NEW c \in Cluster, Restored(c)', ~Deferred(c)
        PROVE  DNSServes(c)' /\ (~faulted' => \A i \in 1..Len(Loop) : restarted'[c][Loop[i]])
    <3>1. pc' # "ovs"
      BY <2>1, <2>6 DEF Walks, Restored, Restoring, Begun
    <3>2. ~faulted' => ~faulted
      BY <2>1, <3>1 DEF Walks
    <3>3. CASE Restored(c)
      <4>1. pc \notin {"suspend", "patch"}
        BY <3>3 DEF Restored, Restoring, Begun
      <4>2. DNSServes(c) /\ (~faulted => \A i \in 1..Len(Loop) : restarted[c][Loop[i]])
        BY <2>6, <3>3 DEF Brought
      <4>3. DNSServes(c)'
        BY <1>2, <4>1, <4>2, DNSStays
      <4> QED BY <1>a, <2>1, <3>2, <4>2, <4>3 DEF DeploymentStays
    <3>4. CASE c = This /\ WaitForCoreDNS /\ DNSCanRun(c)
      <4>1. pc = "dns"
        BY <3>4 DEF WaitForCoreDNS
      <4>2. DNSServes(c)'
        BY <1>2, <3>4, <4>1, DNSStays DEF DNSCanRun, DNSServes
      <4>3. ~faulted => \A i \in 1..Len(Loop) : restarted[c][Loop[i]]
        BY <3>4, <4>1 DEF Brought
      <4> QED BY <1>a, <2>1, <3>2, <4>2, <4>3 DEF DeploymentStays
    <3> QED BY <2>1, <2>6, <3>3, <3>4 DEF Leaves
  <2> QED BY <1>a, <2>2, <2>3, <2>4, <2>5, <2>6 DEF Brought
<1> QED BY <1>1, <1>2

-----------------------------------------------------------------------------
Delivered == Sound /\ Begun /\ AddonProgress /\ HandedOver /\ Unreleased /\ Brought

(* The inductive invariant of the deliveries holds initially.              *)
LEMMA DeliveredInit ==
  ASSUME Init
  PROVE  Delivered
<1>1. pc = "idle" /\ result = "none"
  BY DEF Init
<1>2. Begun /\ AddonProgress /\ HandedOver /\ Unreleased
  BY <1>1 DEF Begun, AddonProgress, HandedOver, Unreleased, Over, Past, AfterPre, SinceLabel,
     Finishing, Restoring, Position
<1>3. Brought
  BY <1>1 DEF Init, Brought, Restored, Restoring
<1> QED BY <1>2, <1>3, SoundInit DEF Delivered

(* Every step keeps the inductive invariant of the deliveries.             *)
LEMMA DeliveredStep ==
  ASSUME Delivered, [Next]_vars
  PROVE  Delivered'
<1>1. Typed /\ TypedRun /\ Control
  BY DEF Delivered, Sound, Typed
<1>2. Begun'
  BY <1>1, WalksStep DEF Delivered, Walks
<1> QED BY <1>1, <1>2, SoundStep, AddonProgressStep, HandedOverStep, UnreleasedStep,
           BroughtStep DEF Delivered

(* In every state, whatever runs came before, what the run in progress has *)
(* behind it is delivered: the inductive invariant of the three theorems   *)
(* below.                                                                  *)
THEOREM DeliveredInvariance == Spec => []Delivered
  BY DeliveredInit, DeliveredStep, PTL DEF Spec

(* Multus arrives with the element of a list that is Multus.               *)
Brings(a) ==
  \/ pc = "pre" /\ at \in 1..Len(PreAddons(This)) /\ PreAddons(This)[at] = a
  \/ pc = "post" /\ at \in 1..Len(PostAddons(This)) /\ PostAddons(This)[at] = a

(* Multus comes with no call but its own.                                  *)
LEMMA OnlyBrings ==
  ASSUME TypedRun, NEW a, Put(This, Effects(a)) \/ Put(This, Known(a)), TypedThings,
         NEW c \in Cluster, "multus" \in done'[c], "multus" \notin done[c]
  PROVE  c = This /\ a = "multus"
<1>1. "multus" \in Effects(a) \cup Known(a) => a = "multus"
  BY DEF Effects, Known
<1> QED BY <1>1, Clusters DEF Put, TypedThings

(* Multus comes only by its own installation in the cluster at hand.       *)
LEMMA MultusArrives ==
  ASSUME TypedRun, TypedThings, [Next]_vars, ~RunFresh, NEW c \in Cluster,
         "multus" \in done'[c], "multus" \notin done[c]
  PROVE  c = This /\ Brings("multus")
<1>a. This \in Cluster /\ "host" \in Cluster /\ at \in Nat \ {0}
  BY Clusters DEF Cluster, TypedRun
<1>b. ASSUME NEW e \in Cluster, NEW S, Put(e, S), "multus" \notin S PROVE FALSE
  BY <1>b DEF Put, TypedThings
<1>1. CASE PreAddon
  BY <1>1, <1>a, OnlyBrings DEF PreAddon, Brings
<1>2. CASE PostAddon
  BY <1>2, <1>a, OnlyBrings DEF PostAddon, Brings
<1>3. CASE SetupOVS \/ Primary \/ FlannelUnconfigured
  BY <1>3, <1>a, <1>b DEF SetupOVS, Primary, FlannelUnconfigured
<1>4. CASE PatchCoreDNS \/ LabelNodes \/ DeployPlugin \/ ApplyCRDs \/ CreateAccessSecret
  BY <1>4, <1>a, <1>b DEF PatchCoreDNS, LabelNodes, DeployPlugin, ApplyCRDs, CreateAccessSecret
<1>5. CASE DeleteProxy
  BY <1>5 DEF DeleteProxy, TypedThings
<1>6. CASE HostAccess
  BY <1>6, <1>a, <1>b DEF HostAccess
<1>7. CASE CallFails \/ Kill
  <2>1. Half
    BY <1>7 DEF CallFails, Kill
  <2>2. ASSUME NEW S \in SUBSET {"flannel", "zones"}, Put(This, S) PROVE FALSE
    BY <2>2, <1>a, <1>b
  <2>3. CASE pc = "pre" /\ at <= Len(PreAddons(This)) /\ Put(This, Known(PreAddons(This)[at]))
    BY <2>3, <1>a, OnlyBrings DEF Brings
  <2>4. CASE pc = "post" /\ at <= Len(PostAddons(This)) /\ Put(This, Known(PostAddons(This)[at]))
    BY <2>4, <1>a, OnlyBrings DEF Brings
  <2> QED BY <2>1, <2>2, <2>3, <2>4 DEF Half
<1>8. CASE UNCHANGED done
  BY <1>8
<1> QED BY <1>1, <1>2, <1>3, <1>4, <1>5, <1>6, <1>7, <1>8
        DEF Next, Rerun, InstallAddons, InstallOVNK, WriteValues, HelmInstall, PostInstall,
            MultusReady, SuspendDeployment, PatchDeployment, ResumeDeployment,
            RestartDeployment, WaitForCoreDNS, UserCommands, ExternalHelm, GenerateValues,
            Disturbance, SuspendRefused, ResumeRefused, RestartRefused, UserScales, vars,
            installVars

(* No step brings Multus ahead of Whereabouts.                             *)
LEMMA WhereaboutsStep ==
  ASSUME Delivered, WhereaboutsBeforeMultus, [Next]_vars
  PROVE  WhereaboutsBeforeMultus'
<1>a. /\ config' = config /\ Typed /\ TypedRun /\ TypedThings /\ AddonProgress
      /\ config \in Configs
  BY ConfigurationKept DEF Delivered, Sound, Typed, TypedRun
<1> SUFFICES ASSUME NEW c \in Cluster, "multus" \in done'[c],
                    "whereabouts" \in ToSet(config.addons)
             PROVE  "whereabouts" \in done'[c]
  BY <1>a DEF WhereaboutsBeforeMultus
<1>1. CASE RunFresh
  BY <1>1 DEF RunFresh
<1>2. CASE ~RunFresh
  <2>1. Stays(c)
    BY <1>2, <1>a, StaysStep
  <2>2. "whereabouts" \in done[c]
    <3>1. CASE "multus" \in done[c]
      BY <3>1 DEF WhereaboutsBeforeMultus
    <3>2. CASE "multus" \notin done[c]
      <4>1. c = This /\ Brings("multus")
        BY <1>2, <1>a, <3>2, MultusArrives
      <4>2. Guarded(PreAddons(This)) /\ Guarded(PostAddons(This))
        BY <1>a, Divided
      <4> QED BY <1>a, <4>1, <4>2 DEF Brings, Guarded, AddonProgress, AddonsIn
    <3> QED BY <3>1, <3>2
  <2> QED BY <2>1, <2>2 DEF Stays
<1> QED BY <1>1, <1>2

(* In whatever order the configuration lists the add-ons, with or without  *)
(* an offload, and however runs fail and are repeated, Multus never        *)
(* arrives in a cluster ahead of a configured Whereabouts: what            *)
(* resolveAddonInstallOrder and partitionPreCNIAddons are for.             *)
THEOREM WhereaboutsFirst == Spec => []WhereaboutsBeforeMultus
<1>1. Init => WhereaboutsBeforeMultus
  BY DEF Init, WhereaboutsBeforeMultus
<1> QED BY <1>1, DeliveredInvariance, WhereaboutsStep, PTL DEF Spec

-----------------------------------------------------------------------------
(* When the run waits for Multus, Multus can run.                          *)
LEMMA MultusRuns ==
  ASSUME Delivered, pc = "multusready", "multus" \in ToSet(config.addons), ~Deferred(This)
  PROVE  MultusCanRun(This)
<1>1. TypedRun /\ config \in Configs /\ This \in Cluster /\ Position(This) = k
  BY Clusters DEF Delivered, Sound, Typed, TypedRun
<1>2. Past(This, AfterPre) /\ Past(This, Finishing \ {"post"}) /\ PastHelm(This)
  BY <1>1 DEF Past, PastHelm, AfterPre, Finishing
<1>3. /\ ToSet(PreAddons(This)) \subseteq done[This]
      /\ ToSet(PostAddons(This)) \subseteq done[This]
  BY <1>1, <1>2 DEF Delivered, AddonProgress, Over
<1>4. "multus" \in done[This]
  BY <1>1, <1>3, Divided
<1>5. config.cni[This] = "ovnk" => config.install /\ InstallsOVNK(This)
  BY DEF Deferred, InstallsOVNK
<1>6. config.cni[This] = "ovnk" => release[This] = "deployed"
  BY <1>1, <1>2, <1>5 DEF Delivered, Sound, Progress
<1> QED BY <1>4, <1>6 DEF MultusCanRun

(* When the run waits for CoreDNS, CoreDNS can run.                        *)
LEMMA DNSRuns ==
  ASSUME Delivered, pc = "dns", ~faulted
  PROVE  DNSCanRun(This)
<1>1. TypedRun /\ config \in Configs /\ This \in Cluster /\ "dpu" \in Cluster
      /\ "coredns" \in Deployment
  BY Clusters DEF Delivered, Sound, Typed, TypedRun, Cluster, Deployment
<1>2. ~Deferred(This) /\ pc \in Restoring /\ Sound
  BY DEF Delivered, Sound, Control, Restoring
<1>3. NetUp(This) /\ replicas[This]["coredns"] # 0
  BY <1>1, <1>2, RestoringUp DEF Delivered, Brought
<1>4. ASSUME patched[This]["coredns"] PROVE "plugin" \in done[This] /\ NetUp("dpu")
  <2>1. config.offload /\ This = "host" /\ Mode(This) = "dpuHost" /\ InstallsOVNK(This)
    <3>1. Mode(This) = "dpuHost"
      BY <1>1, <1>4 DEF Delivered, Brought
    <3> QED BY <3>1, <1>1, Configured DEF Mode, InstallsOVNK, Cluster
  <2>2. "plugin" \in done[This]
    BY <1>1, <1>2, <2>1 DEF Sound, Progress, PastPlugin, Past
  <2>3. ~Deferred("dpu")
    BY <1>2, <2>1 DEF Deferred
  <2> QED BY <1>1, <1>2, <2>2, <2>3, RestoringUp
<1> QED BY <1>3, <1>4 DEF DNSCanRun, DNSNetworked

(* On new clusters the release of OVN-Kubernetes can be installed.         *)
LEMMA HelmCan ==
  ASSUME Delivered, pc = "helm", fresh
  PROVE  (Mode(This) = "dpu" => HasCredentials) /\ release[This] = "none"
<1>1. /\ TypedRun /\ config \in Configs /\ This \in Cluster /\ Position(This) = k
      /\ This = IF k = 1 THEN "host" ELSE "dpu"
  BY Clusters DEF Delivered, Sound, Typed, TypedRun
<1>2. ~PastHelm(This)
  BY <1>1 DEF PastHelm, Past, Restoring, Finishing, TypedRun
<1>3. release[This] = "none"
  BY <1>1, <1>2 DEF Delivered, Unreleased
<1>4. ASSUME Mode(This) = "dpu" PROVE HasCredentials
  <2>1. config.offload /\ This = "dpu"
    BY <1>4 DEF Mode
  <2>2. "host" \in Cluster /\ Over("host", Finishing)
    BY <1>1, <2>1 DEF Over, Past, Position, TypedRun, Cluster
  <2>3. config.install /\ Mode("host") = "dpuHost" /\ InstallsOVNK("host")
    BY <1>1, <2>1, Configured DEF Delivered, Sound, Control, Mode, InstallsOVNK
  <2> QED BY <2>2, <2>3 DEF Delivered, HandedOver, HasCredentials
<1> QED BY <1>3, <1>4

(* On new clusters an add-on the run waits for gets ready, but for         *)
(* cert-manager in a cluster whose pods get no network.                    *)
LEMMA AddonStops ==
  ASSUME Delivered, NEW a \in Addon, StopsAt(a), [Next]_vars
  PROVE  This \in Cluster /\ Unserved(This) /\ "cert-manager" \in done'[This]
<1>1. /\ TypedRun /\ TypedThings /\ config \in Configs /\ This \in Cluster
      /\ Position(This) = k
  BY Clusters DEF Delivered, Sound, Typed, TypedRun
<1>2. pc = "post" /\ Put(This, Effects(a)) /\ MayNotGetReady(a)
  BY <1>1, PostAddonWalks DEF StopsAt
<1>3. PastPrimary(This) /\ PastHelm(This)
  BY <1>1, <1>2 DEF PastPrimary, PastHelm, Past, Finishing
<1>4. /\ config.cni[This] = "flannel" => "flannel" \in done[This]
      /\ config.install /\ config.cni[This] = "ovnk" => release[This] = "deployed"
  BY <1>1, <1>3 DEF Delivered, Sound, Progress, InstallsOVNK
<1>5. ~Unserved(This) => Networked(This) /\ Mode(This) # "dpuHost"
  <2>1. config.cni[This] = "ovnk" /\ ~Unserved(This) => Networked(This)
    BY <1>4 DEF Unserved, Networked
  <2>2. config.cni[This] # "ovnk" => Networked(This)
    BY <1>4 DEF Networked
  <2>3. Mode(This) = "dpuHost" => config.cni[This] = "ovnk" /\ config.offload
    BY <1>1, Configured DEF Mode, Cluster
  <2> QED BY <2>1, <2>2, <2>3 DEF Unserved
<1>6. a = "cert-manager" /\ Unserved(This)
  BY <1>2, <1>4, <1>5 DEF MayNotGetReady, GetsReady
<1>7. "cert-manager" \in done'[This]
  BY <1>1, <1>2, <1>6 DEF Put, Effects, Known, Addon, TypedThings
<1> QED BY <1>1, <1>6, <1>7

(* No step of a run on new clusters fails by itself, and only an add-on    *)
(* without a network ends it.                                              *)
LEMMA FreshStep ==
  ASSUME Delivered, FreshRunSucceeds, [Next]_vars
  PROVE  FreshRunSucceeds'
<1>a. Typed /\ TypedRun /\ TypedThings /\ Control /\ Begun /\ Walks /\ config' = config
  BY WalksStep, ConfigurationKept DEF Delivered, Sound, Typed
<1>b. \A c \in Cluster : Unserved(c)' = Unserved(c)
  BY <1>a DEF Unserved
<1> SUFFICES ASSUME fresh', ~faulted'
             PROVE  /\ result' # "failed"
                    /\ result' = "unavailable" =>
                         \E c \in Cluster : Unserved(c) /\ "cert-manager" \in done'[c]
  BY <1>b DEF FreshRunSucceeds
<1>1. CASE RunFresh \/ Rerun
  BY <1>1 DEF RunFresh, Rerun
<1>2. CASE ~(RunFresh \/ Rerun)
  <2>1. result' \in {"failed", "unavailable"} => ~faulted
    BY <1>a DEF Walks, Begun
  <2>2. ASSUME result \in {"failed", "unavailable"}, ~faulted
        PROVE  /\ result = "unavailable"
               /\ \E c \in Cluster : Unserved(c) /\ "cert-manager" \in done'[c]
    <3>1. pc = "idle"
      BY <1>a, <2>2 DEF Begun
    <3>2. fresh' = fresh
      BY <1>2, <3>1 DEF Next, SetupOVS, Primary, InstallAddons, PreAddon, PostAddon,
         InstallOVNK, PatchCoreDNS, LabelNodes, DeployPlugin, WriteValues, HelmInstall,
         ApplyCRDs, DeleteProxy, CreateAccessSecret, PostInstall, MultusReady,
         SuspendDeployment, PatchDeployment, ResumeDeployment, RestartDeployment,
         WaitForCoreDNS, UserCommands, HostAccess, ExternalHelm, GenerateValues, Unrun,
         Disturbance, CallFails, Kill, SuspendRefused, ResumeRefused, RestartRefused,
         FlannelUnconfigured, UserScales, vars
    <3>3. PICK c \in Cluster : Unserved(c) /\ "cert-manager" \in done[c]
      BY <2>2, <3>2 DEF FreshRunSucceeds
    <3>4. "cert-manager" \in done'[c]
      BY <1>a, <1>2, <3>3, StaysStep DEF Stays
    <3> QED BY <2>2, <3>2, <3>3, <3>4 DEF FreshRunSucceeds
  <2>3. CASE HelmInstall
    <3>1. fresh
      BY <2>3 DEF HelmInstall, Ran, own
    <3> QED BY <1>a, <2>3, <3>1, HelmCan DEF HelmInstall, Goto, Begun
  <2>4. CASE MultusReady
    BY <1>a, <2>4, MultusRuns DEF MultusReady, Goto, Begun
  <2>5. CASE WaitForCoreDNS
    <3>1. pc = "dns" /\ faulted' = faulted
      BY <2>5 DEF WaitForCoreDNS, Ran
    <3>2. ClusterRestored
      BY <2>5, <3>1, DNSRuns DEF WaitForCoreDNS
    <3>3. result' \in {result, "done"} /\ result = "none"
      BY <1>a, <3>1, <3>2 DEF ClusterRestored, End, Begun
    <3> QED BY <3>3
  <2>6. ASSUME NEW a \in Addon, StopsAt(a)
        PROVE  \E c \in Cluster : Unserved(c) /\ "cert-manager" \in done'[c]
    BY <2>6, AddonStops
  <2>7. result' = "failed" => result = "failed" \/ HelmInstall \/ MultusReady \/ WaitForCoreDNS
    BY <1>a DEF Walks
  <2>8. result' = "unavailable" => result = "unavailable" \/ \E a \in Addon : StopsAt(a)
    BY <1>a DEF Walks
  <2> QED BY <2>1, <2>2, <2>3, <2>4, <2>5, <2>6, <2>7, <2>8
<1> QED BY <1>1, <1>2

(* On new clusters every run in which no call fails by itself succeeds,    *)
(* for every configuration and list of add-ons: the host cluster's         *)
(* credentials are there when the DPU cluster's release needs them, no     *)
(* release is in the way, Multus and CoreDNS find the network they wait    *)
(* for.  Only cert-manager may find none, which ends the run: where the    *)
(* user installs OVN-Kubernetes after it, or on DPU hosts.                 *)
THEOREM FreshRunsSucceed == Spec => []FreshRunSucceeds
<1>1. Init => FreshRunSucceeds
  BY DEF Init, FreshRunSucceeds
<1> QED BY <1>1, DeliveredInvariance, FreshStep, PTL DEF Spec

(* The inductive invariant has what a finished run promises.               *)
LEMMA DeliveredComplete ==
  ASSUME Delivered
  PROVE  DeploymentComplete
<1> SUFFICES ASSUME result = "done", NEW c \in Cluster
             PROVE  /\ ToSet(config.addons) \ {"whereabouts"} \subseteq done[c]
                    /\ "multus" \in ToSet(config.addons) => ToSet(config.addons) \subseteq done[c]
                    /\ Deferred(c) => values[c] \notin {"none", "stale"}
                    /\ ~Deferred(c) => DNSServes(c)
                    /\ ~Deferred(c) /\ ~faulted => \A d \in ToSet(Loop) : restarted[c][d]
  BY DEF DeploymentComplete, DNSServes
<1>1. config \in Configs
  BY DEF Delivered, Sound, Typed, TypedRun
<1>2. ToSet(PreAddons(c)) \subseteq done[c] /\ ToSet(PostAddons(c)) \subseteq done[c]
  BY DEF Delivered, AddonProgress, Over
<1>3. /\ ToSet(config.addons) \ {"whereabouts"} \subseteq done[c]
      /\ "multus" \in ToSet(config.addons) => ToSet(config.addons) \subseteq done[c]
  BY <1>1, <1>2, Divided
<1>4. Deferred(c) => values[c] \notin {"none", "stale"}
  BY DEF Delivered, HandedOver, Over
<1>5. ~Deferred(c) => /\ DNSServes(c)
                      /\ ~faulted => \A i \in 1..Len(Loop) : restarted[c][Loop[i]]
  BY DEF Delivered, Brought, Restored
<1>6. ToSet(Loop) = {Loop[i] : i \in 1..Len(Loop)}
  BY DEF Loop, ToSet
<1> QED BY <1>3, <1>4, <1>5, <1>6

(* A run that ends well, after whatever runs before it left behind, leaves *)
(* every cluster with its add-ons, with values files that are neither      *)
(* missing nor stale where the release is the user's, and with a CoreDNS   *)
(* that has its networks and runs unless the user scaled it to zero; no    *)
(* call having failed, restarted on its network.                           *)
THEOREM RunsComplete == Spec => []DeploymentComplete
  BY DeliveredInvariance, DeliveredComplete, PTL
=============================================================================
