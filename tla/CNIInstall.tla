----------------------------- MODULE CNIInstall -----------------------------
(***************************************************************************)
(* dpu-sim puts the CNI and the add-ons on its clusters (pkg/cni, with     *)
(* KindManager.InstallCNI and VMManager.SetupAllK8sClusters around it):    *)
(* cluster by cluster in install order, then CoreDNS and the provisioner   *)
(* are restored everywhere.  A run works on new clusters, or on what the   *)
(* runs before it left; any call may fail and the process may be killed.   *)
(***************************************************************************)
EXTENDS SystemDeployments, SequencesExt

CONSTANTS
  AddonLists,  \* the lists of add-ons that are tried
  MaxFaults    \* bound: failing calls, kills and users' scalings in all

Addon == {"multus", "whereabouts", "cert-manager"}
CNI == {"ovnk", "flannel", "kindnet"}

(* What validateAndNormalizeAddons lets through: known add-ons, the first  *)
(* of each.                                                                *)
Normalized(list) == list \in Seq(Addon) /\ IsInjective(list)

ASSUME CNIAssumption ==
  /\ \A list \in AddonLists : Normalized(list)
  /\ MaxFaults \in Nat

(* What an installation leaves in a cluster, apart from the Helm release.  *)
Thing == Addon \cup {"ovs", "flannel", "podcidr", "corefile", "zones", "mode",
                     "plugin", "crds", "proxy", "secret", "frr", "nad"}

(* The configurations.  Kindnet needs Kind; with an offload the host runs  *)
(* OVN-Kubernetes and the DPU cluster something else of its own.  The      *)
(* order is the one of the configuration file; without an offload the two  *)
(* clusters are alike and one order stands for both.  Whether              *)
(* OVN-Kubernetes is installed, or its values only, is asked where it is.  *)
Configs ==
  {k \in [kind : BOOLEAN, offload : BOOLEAN, install : BOOLEAN,
          order : {<<"host", "dpu">>, <<"dpu", "host">>},
          cni : [Cluster -> CNI], addons : AddonLists] :
     /\ \A c \in Cluster : k.cni[c] = "kindnet" => k.kind
     /\ k.install \/ \E c \in Cluster : k.cni[c] = "ovnk"
     /\ IF k.offload THEN k.cni["host"] = "ovnk" /\ k.cni["dpu"] # "ovnk"
        ELSE k.order = <<"host", "dpu">>}

Steps == {"idle", "ovs", "pre", "primary", "corefile", "label", "plugin",
          "values", "helm", "crds", "proxy", "secret", "post", "multusready",
          "suspend", "patch", "resume", "restart", "dns"}

VARIABLES
  config,    \* the configuration, the same for every run
  pc,        \* the step of the run in progress
  k, at,     \* the cluster, and the element of its loop, the run is at
  result,    \* how the last run ended: "none", "done", "failed", "killed",
             \* "unavailable" when an add-on it waited for did not get ready
  fresh,     \* TRUE when the clusters are new in this run
  faulted,   \* TRUE when a call of this run failed, or the user scaled a
             \* Deployment to zero during it
  faults,
  unrecorded,  \* the Deployments whose count a suspension has not recorded:
               \* the API refused it, or the user scaled to or away from zero
  done,      \* the things in place in each cluster
  release,   \* the OVN-Kubernetes release: "none", "failed", "deployed"
  values     \* the host credentials of each Helm values file: "none" when
             \* there is no file, "empty", "current", "stale"

installVars == <<done, release, values>>
vars == <<config, pc, k, at, result, fresh, faulted, faults, unrecorded,
          installVars, deploymentVars>>

TypeOK ==
  /\ config \in Configs
  /\ pc \in Steps /\ k \in 1..2 /\ at \in Nat \ {0}
  /\ result \in {"none", "done", "failed", "killed", "unavailable"}
  /\ fresh \in BOOLEAN /\ faulted \in BOOLEAN /\ faults \in 0..MaxFaults
  /\ unrecorded \subseteq Cluster \X Deployment
  /\ done \in [Cluster -> SUBSET Thing]
  /\ release \in [Cluster -> {"none", "failed", "deployed"}]
  /\ values \in [Cluster -> {"none", "empty", "current", "stale"}]
  /\ replicas \in [Cluster -> [Deployment -> Nat]]
  /\ saved \in [Cluster -> [Deployment -> Nat]]
  /\ patched \in [Cluster -> [Deployment -> BOOLEAN]]
  /\ restarted \in [Cluster -> [Deployment -> BOOLEAN]]
  /\ wanted \in [Cluster -> [Deployment -> Nat]]

Init ==
  /\ config \in Configs
  /\ pc = "idle" /\ k = 1 /\ at = 1
  /\ result = "none" /\ fresh = TRUE /\ faulted = FALSE /\ faults = 0
  /\ unrecorded = {}
  /\ done = [c \in Cluster |-> {"proxy"}]
  /\ release = [c \in Cluster |-> "none"]
  /\ values = [c \in Cluster |-> "none"]
  /\ replicas = [c \in Cluster |-> [d \in Deployment |-> Created(d)]]
  /\ saved = [c \in Cluster |-> [d \in Deployment |-> 0]]
  /\ patched = [c \in Cluster |-> [d \in Deployment |-> FALSE]]
  /\ restarted = [c \in Cluster |-> [d \in Deployment |-> FALSE]]
  /\ wanted = [c \in Cluster |-> [d \in Deployment |-> Created(d)]]

-----------------------------------------------------------------------------
(* What the configuration makes of a cluster.                              *)
NeedsOVNK(c) == config.offload /\ c = "dpu" /\ config.cni["host"] = "ovnk"
InstallsOVNK(c) == config.cni[c] = "ovnk" \/ NeedsOVNK(c)
Deferred(c) == ~config.install /\ InstallsOVNK(c)
Mode(c) == IF ~config.offload THEN "full" ELSE IF c = "dpu" THEN "dpu" ELSE "dpuHost"

(* ClustersOrderedForInstall: with an offload, DPU clusters go last (there *)
(* are two clusters, so a DPU cluster in front changes places).            *)
ConfigOrder == config.order
Ordered ==
  IF config.offload /\ config.order[1] = "dpu"
  THEN <<config.order[2], config.order[1]>> ELSE config.order
This == Ordered[k]

Loop == IF config.kind THEN <<"coredns", "provisioner">> ELSE <<"coredns">>

(* resolveAddonInstallOrder: Whereabouts goes directly before Multus, and  *)
(* nowhere without it.                                                     *)
ConfiguredOrder(list) == list
BeforeMultus(list) ==
  IF "multus" \in ToSet(list)
  THEN InsertAt(list, SelectInSeq(list, LAMBDA a : a = "multus"), "whereabouts")
  ELSE list
ResolveOrder(list) ==
  IF "whereabouts" \in ToSet(list) THEN BeforeMultus(RemoveFirst(list, "whereabouts"))
  ELSE list

(* needsMultusBeforeOVNKubernetes and partitionPreCNIAddons.               *)
MultusFirst(c) ==
  config.install /\ Mode(c) = "dpuHost" /\ "multus" \in ToSet(config.addons)
Pre(list) == RemoveFirst(list, "cert-manager")
Post(list) == RemoveFirst(RemoveFirst(list, "multus"), "whereabouts")
PreAddons(c) == IF MultusFirst(c) THEN Pre(ResolveOrder(config.addons)) ELSE <<>>
PostDropped(c) ==
  IF MultusFirst(c) THEN <<>> ELSE ResolveOrder(ResolveOrder(config.addons))
PostAddons(c) ==
  ResolveOrder(IF MultusFirst(c) THEN Post(ResolveOrder(config.addons))
               ELSE ResolveOrder(config.addons))

-----------------------------------------------------------------------------
Goto(step) == pc' = step /\ at' = 1 /\ UNCHANGED <<k, result>>

(* The next element of the loop over a list, or the step after it.         *)
Advance(list, after) ==
  IF at < Len(list) THEN at' = at + 1 /\ UNCHANGED <<pc, k, result>> ELSE Goto(after)

End(r) == pc' = "idle" /\ k' = 1 /\ at' = 1 /\ result' = r

(* PostInstall runs when every cluster is installed.                       *)
PostInstallEach == pc' = "resume" /\ at' = 1 /\ UNCHANGED <<k, result>>
ClusterInstalled ==
  /\ at' = 1 /\ UNCHANGED result
  /\ IF k < Len(Ordered) THEN pc' = "ovs" /\ k' = k + 1 ELSE pc' = "resume" /\ k' = 1

(* The cluster of this run after this one in PostInstall, or the end.      *)
RestoredOneMore ==
  IF k <= Len(Ordered) THEN pc' = "resume" /\ at' = 1 /\ k' = k + 1 /\ UNCHANGED result
  ELSE End("done")
ClusterRestored ==
  IF k < Len(Ordered) THEN pc' = "resume" /\ at' = 1 /\ k' = k + 1 /\ UNCHANGED result
  ELSE End("done")

Put(c, things) == done' = [done EXCEPT ![c] = @ \cup things]

own == <<config, fresh, faults, unrecorded>>
Ran == UNCHANGED <<own, faulted>>
Failed ==
  /\ faults < MaxFaults /\ faults' = faults + 1 /\ faulted' = TRUE
  /\ UNCHANGED <<config, fresh>>

-----------------------------------------------------------------------------
(* The user runs dpu-sim, on new clusters or on those there are.  The      *)
(* values files stay on the host: the credentials in them become stale.    *)
RunFresh ==
  /\ pc = "idle" /\ pc' = "ovs" /\ result' = "none" /\ fresh' = TRUE /\ faulted' = FALSE
  /\ done' = [c \in Cluster |-> {"proxy"}]
  /\ release' = [c \in Cluster |-> "none"]
  /\ values' = [c \in Cluster |->
       IF Mode(c) = "dpu" /\ values[c] = "current" THEN "stale" ELSE values[c]]
  /\ DeploymentsFresh /\ unrecorded' = {}
  /\ UNCHANGED <<config, k, at, faults>>

Rerun ==
  /\ pc = "idle" /\ result # "none"
  /\ pc' = "ovs" /\ result' = "none" /\ fresh' = FALSE /\ faulted' = FALSE
  /\ UNCHANGED <<config, k, at, faults, unrecorded, installVars, deploymentVars>>

(* SetupOVNKOffloadToDPUNodeOVS on every DPU, before anything is installed.*)
SetupOVS ==
  /\ pc = "ovs" /\ Goto("pre")
  /\ IF NeedsOVNK(This) THEN Put(This, {"ovs"}) ELSE UNCHANGED done
  /\ Ran /\ UNCHANGED <<release, values, deploymentVars>>

(* An add-on of the list, of the types InstallAddon knows.  installMultus  *)
(* creates the primary network's attachment definition where               *)
(* OVN-Kubernetes is the cluster's own CNI.                                *)
Known(a) == {a} \cap Addon
Effects(a) ==
  IF a = "multus" /\ config.cni[This] = "ovnk" THEN {"multus", "nad"} ELSE Known(a)

PreAddon ==
  /\ pc = "pre"
  /\ Advance(PreAddons(This), "primary")
  /\ IF at <= Len(PreAddons(This)) THEN Put(This, Effects(PreAddons(This)[at]))
     ELSE UNCHANGED done
  /\ Ran /\ UNCHANGED <<release, values, deploymentVars>>

(* Pods get a network when the CNI of their cluster is up.                 *)
Networked(c) ==
  CASE config.cni[c] = "ovnk"    -> /\ release[c] = "deployed"
                                    /\ config.offload => {"mode", "plugin"} \subseteq done[c]
    [] config.cni[c] = "flannel" -> "flannel" \in done[c]
    [] OTHER                     -> TRUE

(* InstallAddon waits for Multus, unless OVN-Kubernetes comes later, and   *)
(* for the Deployments of cert-manager.  (The pods of Multus and           *)
(* Whereabouts are on the network of the node.)                            *)
GetsReady(a) ==
  /\ a = "multus" /\ config.cni[This] = "ovnk" /\ config.install => release[This] = "deployed"
  /\ a = "cert-manager" => Networked(This)

(* DPU hosts reject pods that ask for no VF, and cert-manager's ask for    *)
(* none: they run only where the scheduler finds other nodes.              *)
MayNotGetReady(a) == ~GetsReady(a) \/ (a = "cert-manager" /\ Mode(This) = "dpuHost")

PostAddon ==
  /\ pc = "post"
  /\ IF at > Len(PostAddons(This)) THEN Goto("multusready") /\ UNCHANGED done
     ELSE LET a == PostAddons(This)[at] IN
          /\ Put(This, Effects(a))
          /\ \/ GetsReady(a) /\ Advance(PostAddons(This), "multusready")
             \/ MayNotGetReady(a) /\ End("unavailable")
  /\ Ran /\ UNCHANGED <<release, values, deploymentVars>>

(* InstallCNI: Flannel is applied, configured and awaited, Kindnet is      *)
(* there already, and OVN-Kubernetes comes alone or on top.                *)
Primary ==
  /\ pc = "primary"
  /\ Goto(IF InstallsOVNK(This) THEN "corefile" ELSE "post")
  /\ IF config.cni[This] = "flannel" THEN Put(This, {"flannel", "podcidr"})
     ELSE UNCHANGED done
  /\ Ran /\ UNCHANGED <<release, values, deploymentVars>>

-----------------------------------------------------------------------------
(* installOVNKubernetes.                                                   *)
PatchCoreDNS ==
  /\ pc = "corefile" /\ Goto("label") /\ Put(This, {"corefile"})
  /\ Ran /\ UNCHANGED <<release, values, deploymentVars>>

LabelNodes ==
  /\ pc = "label"
  /\ Goto(IF Mode(This) = "dpuHost" THEN "plugin"
          ELSE IF config.install THEN "helm" ELSE "values")
  /\ Put(This, IF Mode(This) = "full" THEN {"zones"} ELSE {"zones", "mode"})
  /\ Ran /\ UNCHANGED <<release, values, deploymentVars>>

DeployPlugin ==
  /\ pc = "plugin" /\ Goto(IF config.install THEN "helm" ELSE "values")
  /\ Put(This, {"plugin"})
  /\ Ran /\ UNCHANGED <<release, values, deploymentVars>>

(* writeOVNKubernetesHelmValues: in DPU mode with the credentials that the *)
(* host cluster has for it, or without any.                                *)
HasCredentials == "secret" \in done["host"]
Generated(c) == IF Mode(c) = "dpu" /\ ~HasCredentials THEN "empty" ELSE "current"

WriteValues ==
  /\ pc = "values" /\ Goto("post")
  /\ values' = [values EXCEPT ![This] = Generated(This)]
  /\ Ran /\ UNCHANGED <<done, release, deploymentVars>>

(* helm install takes no name that a release has, whatever its state, and  *)
(* in DPU mode it needs the credentials.                                   *)
HelmInstall ==
  /\ pc = "helm"
  /\ IF (Mode(This) = "dpu" => HasCredentials) /\ release[This] = "none"
     THEN Goto("crds") /\ release' = [release EXCEPT ![This] = "deployed"]
     ELSE End("failed") /\ UNCHANGED release
  /\ Ran /\ UNCHANGED <<done, values, deploymentVars>>

ApplyCRDs ==
  /\ pc = "crds" /\ Goto("proxy") /\ Put(This, {"crds"})
  /\ Ran /\ UNCHANGED <<release, values, deploymentVars>>

(* In DPU mode the cluster's own CNI still relies on kube-proxy.           *)
DeleteProxy ==
  /\ pc = "proxy" /\ Goto(IF Mode(This) = "dpuHost" THEN "secret" ELSE "post")
  /\ done' = IF Mode(This) = "dpu" THEN done ELSE [done EXCEPT ![This] = @ \ {"proxy"}]
  /\ Ran /\ UNCHANGED <<release, values, deploymentVars>>

CreateAccessSecret ==
  /\ pc = "secret" /\ Goto("post") /\ Put(This, {"secret"})
  /\ Ran /\ UNCHANGED <<release, values, deploymentVars>>

-----------------------------------------------------------------------------
(* PostInstallPerCluster.  Multus becomes ready when the CNI it delegates  *)
(* to has written its configuration.                                       *)
MultusCanRun(c) ==
  "multus" \in done[c] /\ (config.cni[c] = "ovnk" => release[c] = "deployed")

MultusReady ==
  /\ pc = "multusready"
  /\ IF "multus" \in ToSet(config.addons) /\ ~Deferred(This) /\ ~MultusCanRun(This)
     THEN End("failed") ELSE Goto("suspend")
  /\ Ran /\ UNCHANGED <<installVars, deploymentVars>>

AfterSuspend ==
  IF at < Len(Loop) THEN at' = at + 1 /\ UNCHANGED <<pc, k, result>>
  ELSE IF Mode(This) = "dpuHost" THEN Goto("patch") ELSE ClusterInstalled

SuspendDeployment ==
  /\ pc = "suspend" /\ AfterSuspend /\ Suspend(This, Loop[at])
  /\ Ran /\ UNCHANGED installVars

PatchDeployment ==
  /\ pc = "patch" /\ Patch(This, Loop[at])
  /\ IF at < Len(Loop) THEN at' = at + 1 /\ UNCHANGED <<pc, k, result>>
     ELSE ClusterInstalled
  /\ Ran /\ UNCHANGED installVars

(* PostInstall, for one cluster after the other.                           *)
ResumeDeployment ==
  /\ pc = "resume"
  /\ IF Deferred(This) THEN ClusterRestored /\ UNCHANGED deploymentVars
     ELSE Advance(Loop, "restart") /\ Resume(This, Loop[at])
  /\ Ran /\ UNCHANGED installVars

RestartDeployment ==
  /\ pc = "restart" /\ Advance(Loop, "dns") /\ Restart(This, Loop[at])
  /\ Ran /\ UNCHANGED installVars

(* Whether the network of a cluster is up; its CoreDNS asks for a VF once  *)
(* it is patched, and is served by the DPU cluster.                        *)
NetUp(c) == Networked(c) /\ (NeedsOVNK(c) => release[c] = "deployed" /\ "ovs" \in done[c])

DNSNetworked(c) ==
  NetUp(c) /\ (patched[c]["coredns"] => "plugin" \in done[c] /\ NetUp("dpu"))
DNSCanRun(c) == replicas[c]["coredns"] # 0 /\ DNSNetworked(c)

WaitForCoreDNS ==
  /\ pc = "dns"
  /\ IF DNSCanRun(This) THEN ClusterRestored ELSE End("failed")
  /\ Ran /\ UNCHANGED <<installVars, deploymentVars>>

-----------------------------------------------------------------------------
(* A values-only deployment: the user installs the release himself with    *)
(* the generated values, runs "dpu-sim ovnk host-access" on the host       *)
(* cluster, whose namespace and account the release brings, and "dpu-sim   *)
(* ovnk values", with or without --require-host-credentials.               *)
Commands == pc = "idle" /\ result # "none" /\ ~config.install
Unrun == UNCHANGED <<config, pc, k, at, result, fresh, faulted, faults, unrecorded,
                   deploymentVars>>

ExternalHelm(c) ==
  /\ Commands /\ InstallsOVNK(c) /\ values[c] = "current" /\ release[c] = "none"
  /\ release' = [release EXCEPT ![c] = "deployed"]
  /\ Unrun /\ UNCHANGED <<done, values>>

HostAccess ==
  /\ Commands /\ config.offload /\ release["host"] = "deployed"
  /\ Put("host", {"secret", "frr"})
  /\ Unrun /\ UNCHANGED <<release, values>>

GenerateValues(require) ==
  /\ Commands
  /\ values' = [c \in Cluster |->
       IF ~InstallsOVNK(c) \/ (Mode(c) = "dpu" /\ require /\ ~({"secret", "frr"} \subseteq done["host"]))
       THEN values[c] ELSE Generated(c)]
  /\ Unrun /\ UNCHANGED <<done, release>>

-----------------------------------------------------------------------------
(* A call whose error ends the run, perhaps half-way: Multus without its   *)
(* attachment definition, a release that failed, things that arrived.      *)
Half ==
  \/ UNCHANGED <<done, release>>
  \/ /\ pc = "helm" /\ release[This] = "none"
     /\ release' = [release EXCEPT ![This] = "failed"] /\ UNCHANGED done
  \/ /\ pc = "pre" /\ at <= Len(PreAddons(This)) /\ Put(This, Known(PreAddons(This)[at]))
     /\ UNCHANGED release
  \/ /\ pc = "post" /\ at <= Len(PostAddons(This)) /\ Put(This, Known(PostAddons(This)[at]))
     /\ UNCHANGED release
  \/ pc = "primary" /\ config.cni[This] = "flannel" /\ Put(This, {"flannel"}) /\ UNCHANGED release
  \/ pc = "label" /\ Put(This, {"zones"}) /\ UNCHANGED release

CallFails ==
  /\ pc \notin {"idle", "suspend", "resume", "restart"} /\ Failed /\ End("failed") /\ Half
  /\ UNCHANGED <<unrecorded, values, deploymentVars>>

Kill ==
  /\ pc # "idle" /\ faults < MaxFaults /\ faults' = faults + 1 /\ End("killed") /\ Half
  /\ UNCHANGED <<config, fresh, faulted, unrecorded, values, deploymentVars>>

(* Errors that are only logged: the run goes on.                           *)
SuspendRefused ==
  /\ pc = "suspend" /\ Failed /\ AfterSuspend
  /\ unrecorded' = unrecorded \cup {<<This, Loop[at]>>}
  /\ UNCHANGED <<installVars, deploymentVars>>
ResumeRefused ==
  /\ pc = "resume" /\ ~Deferred(This) /\ Failed /\ Advance(Loop, "restart")
  /\ UNCHANGED <<unrecorded, installVars, deploymentVars>>
RestartRefused ==
  /\ pc = "restart" /\ Failed /\ Advance(Loop, "dns")
  /\ UNCHANGED <<unrecorded, installVars, deploymentVars>>
FlannelUnconfigured ==
  /\ pc = "primary" /\ config.cni[This] = "flannel" /\ Failed
  /\ Put(This, {"flannel"}) /\ Goto(IF InstallsOVNK(This) THEN "corefile" ELSE "post")
  /\ UNCHANGED <<unrecorded, release, values, deploymentVars>>

(* The user scales a Deployment, between runs or during one, to a count it *)
(* does not have or was not meant to have.  A suspension records no count  *)
(* of zero, and none that is set on top of it.                             *)
UserScales(c, d, n) ==
  /\ <<pc, result>> # <<"idle", "none">> /\ d \in ToSet(Loop)
  /\ {replicas[c][d], wanted[c][d]} # {n}
  /\ faults < MaxFaults /\ faults' = faults + 1 /\ Scale(c, d, n)
  /\ unrecorded' = IF n = 0 \/ saved[c][d] # 0 THEN unrecorded \cup {<<c, d>>}
                   ELSE IF pc = "idle" THEN unrecorded \ {<<c, d>>} ELSE unrecorded
  /\ faulted' = (faulted \/ (n = 0 /\ pc # "idle"))
  /\ UNCHANGED <<config, pc, k, at, result, fresh, installVars>>

-----------------------------------------------------------------------------
InstallAddons == PreAddon \/ PostAddon
InstallOVNK ==
  \/ PatchCoreDNS \/ LabelNodes \/ DeployPlugin \/ WriteValues \/ HelmInstall
  \/ ApplyCRDs \/ DeleteProxy \/ CreateAccessSecret
PostInstall ==
  \/ MultusReady \/ SuspendDeployment \/ PatchDeployment
  \/ ResumeDeployment \/ RestartDeployment \/ WaitForCoreDNS
UserCommands ==
  HostAccess \/ (\E c \in Cluster : ExternalHelm(c)) \/ \E r \in BOOLEAN : GenerateValues(r)
Disturbance ==
  \/ CallFails \/ Kill \/ SuspendRefused \/ ResumeRefused \/ RestartRefused
  \/ FlannelUnconfigured
  \/ \E c \in Cluster, d \in Deployment, n \in Counts : UserScales(c, d, n)

Next ==
  \/ RunFresh \/ Rerun \/ SetupOVS \/ Primary
  \/ InstallAddons \/ InstallOVNK \/ PostInstall \/ UserCommands \/ Disturbance

Spec == Init /\ [][Next]_vars

-----------------------------------------------------------------------------
(* On new clusters a run in which no call fails by itself succeeds: what   *)
(* it needs of a cluster is there when it is needed, the credentials for   *)
(* the DPU cluster and the networks of CoreDNS above all.  One case is     *)
(* excepted, "unavailable": cert-manager in a cluster whose pods get no    *)
(* network in this run, as the user installs OVN-Kubernetes after it, or   *)
(* as they ask for no VF on DPU hosts.                                     *)
Unserved(c) == config.cni[c] = "ovnk" /\ (config.install => config.offload)
FreshRunSucceeds ==
  fresh /\ ~faulted =>
    /\ result # "failed"
    /\ result = "unavailable" => \E c \in Cluster : Unserved(c) /\ "cert-manager" \in done[c]

(* A run that succeeds, whatever the runs before it left, leaves the       *)
(* clusters whole: networks, the add-ons (Whereabouts with Multus), and    *)
(* CoreDNS restarted on the network, unless the user scaled it to zero.    *)
DeploymentComplete ==
  result = "done" =>
    \A c \in Cluster :
      /\ ToSet(config.addons) \ {"whereabouts"} \subseteq done[c]
      /\ "multus" \in ToSet(config.addons) =>
           ToSet(config.addons) \subseteq done[c]
      /\ Deferred(c) => values[c] \notin {"none", "stale"}
      /\ ~Deferred(c) => /\ DNSNetworked(c)
                         /\ wanted[c]["coredns"] # 0 => replicas[c]["coredns"] # 0
      /\ ~Deferred(c) /\ ~faulted => \A d \in ToSet(Loop) : restarted[c][d]

(* However runs are repeated or cut short, the replicas a Deployment was   *)
(* created with, or the user asked for since, are either running or        *)
(* written down to be restored.  Three exceptions lose the count: the API  *)
(* refused to suspend the Deployment, which is logged and forgotten, or    *)
(* the user scaled it to zero (it comes back with one replica), or scaled  *)
(* it while it was suspended (the older annotation overwrites that).  They *)
(* last until the user scales it between runs with no annotation on it.    *)
CountNeverLost ==
  \A c \in Cluster, d \in Deployment : <<c, d>> \notin unrecorded =>
    \/ replicas[c][d] = wanted[c][d] /\ saved[c][d] = 0
    \/ replicas[c][d] = 0 /\ saved[c][d] = wanted[c][d]

(* Multus, whose networks may ask Whereabouts for addresses, never arrives *)
(* in a cluster before it.                                                 *)
WhereaboutsBeforeMultus ==
  \A c \in Cluster :
    "multus" \in done[c] /\ "whereabouts" \in ToSet(config.addons) => "whereabouts" \in done[c]

(* The installation keeps the promise: see InstallPromise.                 *)
Serving(c) ==
  replicas[c]["coredns"] # 0 /\ restarted[c]["coredns"]
Promise == INSTANCE InstallPromise WITH
  offload <- config.offload, up <- {c \in Cluster : NetUp(c)},
  serving <- {c \in Cluster : Serving(c)}
KeepsPromise == Promise!Spec
=============================================================================
