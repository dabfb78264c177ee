# TLA+ models of dpu-simulator

dpu-simulator deploys simulated DPU environments: Kubernetes clusters on
libvirt VMs or Kind containers, in which host nodes have simulated virtual
functions (VFs, veth pairs `eth0-<i>`) whose other ends are in DPU nodes.  This
directory holds TLA+ models of its components, TLC configurations that check
them on small instances, and TLAPS proofs of the main properties for every
instance.

    tlc -config MCDevicePlugin_single.cfg MCDevicePlugin.tla
    tlapm DevicePluginProofs.tla

## 1. Inventory of the system

| Component | Source | State | Operations | What is hard |
|---|---|---|---|---|
| Device plugin, one pool | `cmd/dpu-sim-dp/plugin.go` | device table (health, ifindex, misses, time of last Allocate), device-info files | discoverDevices, checkDevices, ListAndWatch, Allocate, Run | concurrent gRPC handlers; two snapshots taken before the lock; kubelet lags, the CNI moves netdevs, restarts lose the table |
| Device plugin process, pools | `cmd/dpu-sim-dp/main.go`, `pkg/deviceplugin`, `pkg/config` | environment of the DaemonSet, errgroup context | validation, BuildResourcePools, start, shutdown | two validations written apart; index ranges; end of the process |
| VM manager, VMs | `pkg/vm/{lifecycle,create,disk,cleanup,info}.go`, `cmd/vmctl` | domains, disks, ISOs, NVRAM files, cloud image | CleanupVMs, CreateAllVMs, wait, start/stop/destroy | runs cut short, "skip if it exists", errors that only warn |
| VM manager, networks | `pkg/vm/network.go` | libvirt networks, OVS bridges, libvirt's firewall backend | create, delete, configure the backend | half-made networks, unequal idempotence, lookups that fail |
| VM manager, clusters | `pkg/vm/{install,baremetal}.go`, `pkg/k8s` | kubeadm state of nodes, kubeconfigs, routes and FORWARD rules, a bare-metal node that outlives every run | init, join, node IPs, bare-metal adoption | order of joins, reboots, one node failing |
| Orchestrator | `cmd/dpu-sim/main.go` | none | workflows over all others | order, which failures abort and which warn |
| Kind manager | `pkg/kind` | Kind clusters, veths, gateway network, iptables rules | create, delete, set up and clean up veths and routing | partial set-up, clean-up of what another run made |
| Registry | `pkg/registry` | a container and its images | Start, SetupAll, Stop | a container in any prior state, readiness, nodes that know an old address |
| CNI manager | `pkg/cni` | manifests applied, Helm releases, values files, suspended deployments | install CNI and add-ons in order, redeploy, post-install | add-on order; two clusters that need each other; system deployments deferred until OVN-Kubernetes runs |
| OVN-Kubernetes image | `pkg/cni/ovn_kubernetes.go` | source tree, `.dockerignore`, images by key | clone, compute key, build, tag | the user edits the tree at any time, git may fail |
| Kubernetes client | `pkg/k8s/client.go` | API objects | apply, wait, suspend, resume | retries on conflicts, saved replica counts |
| Configuration | `pkg/config` | a parsed file | load, validate, derive | cross-field limits |
| Helm values, container engine, executors, packages, SSH, logging, naming, test runners | the remaining packages | - | text, command lines, I/O | - |

How they interact: `dpu-sim` (one process, sequential) reads the configuration,
cleans up, starts the registry, makes VMs or Kind clusters, installs Kubernetes
and the CNI, and for an offloaded DPU deploys the device plugin as a DaemonSet
with the VF counts in its environment.  The device plugin then runs on every
host node, called by kubelet over gRPC, and calling kubelet's PodResources API.
What survives a `dpu-sim` process is only what it left on the host.

What makes each component correct:

* device plugin: a VF of a running pod is never reported Unhealthy; a destroyed
  VF is; kubelet's view follows the table; a pod's VFs have device-info files;
* pools: an accepted network starts; pools are disjoint, leave out the gateway
  and the uplinks, and every other VF of the topology belongs to one;
* VMs: a defined domain has its files; a successful run deployed what it made;
  repeating the command recovers from anything;
* networks, Kind topology, registry, clusters: as for VMs, set-up after an
  interrupted set-up or clean-up converges, clean-up leaves nothing and removes
  nothing in service, and a run that reports success has done all its work;
* CNI: every cluster ends with a network, its add-ons in order and its system
  deployments restored with the replicas they had, in an order in which
  nothing waits for what comes later;
* image: the image used is one of the tree it was asked for, and building it
  leaves the user's files alone.

## 2. The models

### DevicePlugin, DeviceContract

One resource pool with its environment.  `Dev` is the set of interface names
the pool's matcher takes; a netdev is `where` it is and its `index`; a netdev
destroyed and created again has a new index.  The device table is `known`,
`health`, `ifindex`, `misses` and `grace`.

* Time is `Tick`, one healthCheckInterval.  `grace[d]` is what is left of
  `now.Sub(lastAllocated) < allocationGracePeriod`, so 12 is one minute.
* `checkDevices` is four steps because it reads two snapshots before it takes
  `p.mu`: `CheckListIfaces` (net.Interfaces), `CheckListAllocated` or
  `CheckListFails` (PodResources), `CheckUpdate` (the locked region with the
  device-info files of adopted devices), `WatchSend` (the push that its result
  asks for).  Its first call, from Run, has no stream to push to.
* `Allocate` is `AllocateValidate`, `AllocateWrite` and `AllocateMark` for each
  container request; each can fail on its own.
* `kview` is what kubelet was last sent; `granted` what it holds for pods;
  `listed` the part that PodResources reports.  `CniAdd`, `KubeletFree` and
  `CniDel` carry a VF through the life of a pod; `limbo` is the window in which
  kubelet has freed the VF and the CNI has not moved it back.
* `Crash`, `KubeletRestart`, `Rename` and `Destroy` happen when `Env` says so.

Assumptions on the environment, all visible in guards of `Tick` and `Discover`:
a check takes at most `CheckSpan` ticks (its PodResources call has a timeout of
five seconds); the CNI returns a freed VF in `TeardownMax` ticks; kubelet lists
a grant while more than a check's worth of the grace period is left; a plugin
restart takes longer than kubelet needs to list earlier grants.  The constants
must satisfy `GraceCoversCheck` and `MissesCoverTeardown`.  The second is tight:
with one more tick of teardown, or a check one tick longer, TLC finds a healthy
VF reported Unhealthy.  With the code's three misses, it says that the CNI must
return a VF before the next health check (5 s) when checks can take as long as
the PodResources timeout, and before the second one when they are instant.

`DeviceContract` is the abstract specification: what the plugin and kubelet owe
each other, without checks, misses, grace periods or ifindexes.  Its variables
are the plugin's table, kubelet's view of it, whether the stream is open and a
report on its way, the pods' devices, the described ones, and those whose netdev,
as last seen, is destroyed (`lost`).  Its steps say that kubelet is told every
change of the table, that a living plugin forgets no device, that only a lost
device in no pod turns Unhealthy, and that a pod gets described devices which no
other pod has.  The refinement mapping is the instance `Contract` at the end of
`DevicePlugin`: a report is on its way while `check.pc = "send"`.

| Run | Instance | Shows |
|---|---|---|
| single | 1 VF, the code's 3 misses and 12 ticks, slow checks, every event | `HeldNeverBenched`, `OnlyDestroyedBenched`: an allocation, a rename, a teardown, an outage of PodResources or a restart never gets a VF benched; fair, `DestroyedIsReported` and `PresentIsAdvertised`; `TypeOK` |
| pair | 2 VFs, short grace, destroyed netdevs and restarts | `KeepsContract` (the refinement), `GrantedHasDevinfo` |

One VF is enough for `single`, whose properties are about one VF and whose
devices meet only in Allocate; `pair` has the meetings.  Renames and restarts of
kubelet happen in `single` only (with them `pair` takes too long); the theorem
`ContractKept` has them with any set of VFs.  `MaxIndex` bounds how
often a netdev is recreated: three indexes allow a VF recreated twice.
Device symmetry is used only in `pair`, which has no liveness.

Fairness (`Fairness`): the plugin's goroutines run and time passes (weak);
the two listing steps are strongly fair because each is an alternative to its
own failure, which may recur but not for ever; kubelet lists its grants and the
CNI finishes a DEL.  `Destroy`, `Rename`, crashes and restarts are never forced.

### ResourcePools and DevicePluginProcess

`ResourcePools` holds, as operators over integers, the normalisation and
validation of a HostToDpu network (`Accepted`, `NormMgmt`, ...) and
`BuildResourcePools` with its matchers.  `DevicePluginProcess` takes every
network within its bounds (negative and omitted numbers too), and an offload
without such a network (`config = {}`), which `pkg/config` accepts as well,
through deployment, start, registration, failure, signals and restart, with two
pools under one errgroup.  Manifests that predate `NUM_PAIRS` leave it unset.
`Discover` finds any subset of the VFs a pool matches, since others may be in
pods across a restart, and `Adopt` is what `checkDevices` takes up later; a pool
that runs may be empty, as the code says.

| Run | Instance | Shows |
|---|---|---|
| process | num_pairs up to 6, mgmt up to 4, uplink up to 3, VFs 0..7 | `AcceptedConfigStarts`, `ReservedNeverAdvertised`, `EveryVFHasUse`, `TypeOK`, `EndsOnceUnwatched` (fair) |
| cancel | num_pairs up to 4 | violation: a cancelled Run waits for kubelet to drop its stream |

The bounds pass every branch of the validation on both sides: a default
clamped by num_pairs, by the uplinks, and not clamped, a budget exceeded by one.
`AcceptedConfigStarts` excepts the offload without a network: its default counts
(one pair, one management VF, no uplink) are refused at
every start.  `EveryVFHasUse` is about what the matchers take, not about what is
visible at a time.
The process may stop for good (a rejected configuration, nothing deployed), so
deadlock is not checked there.  Fairness is weak on the steps of the process;
opening and closing streams is left to kubelet.

### VMProvision

The sequence of `dpu-sim` runs over VMs `1..N`.  `pc` is the step of the run in
progress, one per call that changes something or may fail: `lookup`, `destroy`,
`undefine`, `rmdisk`, `rmiso`, `rmnvram` of DeleteVM, `exists` to `start` of
CreateVM, and `wait`.  Per VM the host keeps a libvirt domain and three files,
each `absent`, `torn` (cut short), `small` (a disk not resized) or `ok`.
`Interrupted` ends the run at any step, by an error or a kill; `DeleteFails` is
an error that CleanupVMs only collects; `ExistsFails` a failing lookup that
VMExists takes for an absent VM; `HostReboot`, `VmctlStart` and `VmctlStop` come
from outside.  `made` and `removed` record what the current run made and
removed.  A transient domain (undefined while running) is libvirt's semantics.

`result = "deployed"` is doVMDeploy returning without an error; the installation
of Kubernetes that follows changes nothing of this state.  `vmctl reboot` leaves
an active domain active, which is no step.

Left out of it: libvirt networks and what comes after the VMs (VMDeploy), and
two `dpu-sim` at once.

| Run | Instance | Shows |
|---|---|---|
| provision | 2 VMs, one of them to be resized, firmware, OCI image, 4 faults | `DefinedHasFiles`, `DeployedIsFresh`, `DeployedBoots`, `TypeOK`, and `RerunDeploys` (fair) |
| disk | 1 VM, 1 fault | violation: a disk smaller than `disk_size` is deployed |

Four faults suffice for the longest interplay we know: a VM stopped, started
again by vmctl between `IsActive` and `undefine` (a transient domain), and a kill
before the files go.  Any number of runs fits, since nothing counts them.
Fairness: a run's steps return or time out (weak), and the user keeps coming
back to the plain command (strong, since `--cleanup` and `--skip-cleanup` runs
may come in between).

### KindNodes, VethTopology, GatewayNetwork, LocalRegistry, KindDeploy

The runs of `dpu-sim` in Kind mode, with an offloaded DPU and a registry.  Three
modules hold the state a run leaves, with the operators that read and change it;
`KindDeploy` extends them with the steps of a run:

* `VethTopology`: `veth`, the set of veths by the place of their ends (root
  namespace, in the container under the temporary name, renamed, up).  Names are
  unique per namespace: `CanAdd` and `CanStage` are what `ip link` refuses.
* `GatewayNetwork`: the gateway container network, the DPUs' addresses (the
  engine's choice) and the hosts' (`AssignHostIP`, the highest one free of those
  the run knows), the forwarding rules by the bridge they name (`rules`, and
  `oldRules` for a bridge that is gone).
* `LocalRegistry`: the container, its images, its connection to the kind
  network, and the address each cluster's nodes are configured with.
* `KindDeploy`: SetupAll of the registry (`start`, then `ready` and `push` for a
  container of its own, or `reuse`: one found running is pushed to without a
  wait, and the run ends `unready` when it does not answer), CleanupAll
  (`unroute`, `delete`, `netrm`, `regstop`), the clusters (`create`, `connect`,
  `nodes`), the topology (`cleanlinks`, `network`, `attach`, `route`, `add`,
  `stage`, `address`) and the CNI.  `CommandFails` ends the run; the other
  `...Fails` actions are errors the code collects or ignores.  `Kill` is between
  any two commands, and in the middle of a cluster's creation or deletion.
  `Debug` models `--log-level debug`, at which RunCmd's errors lose their text.

| Run | Instance | Shows |
|---|---|---|
| kind | 2 pairs, 2 channels each, 5 addresses, podman, 2 faults | `IdempotentByDefault`, `DeploymentComplete`, `AddressesDistinct`, `KillsNeverLeak`, `EstablishedLinksSurvive`, `TypeOK` |
| kind_debug | 2 pairs, 1 channel each, no fault, debug level | violation: a run with `--cleanup` on a clean host fails, as a deployment does on the same step |

Two pairs and channels are the least for which the loops have a next element and
hosts compete for addresses; five addresses are the bridge's, two DPUs' and two
hosts', so none is spare.  Two faults allow a run cut short whose clean-up is
cut short too.  `IdempotentByDefault` excepts the run that ends `unready`; without
that exception one fault is enough for TLC to violate it. `DOCKER-USER` only
doubles the chain of rules, so `DockerUser` is FALSE in the runs.

### SystemDeployments, CNIInstall, InstallPromise

`SystemDeployments` is CoreDNS and local-path-provisioner of two clusters with
the operations of the Kubernetes client on them: `Suspend` keeps the replica
count in an annotation, unless it is there already or the Deployment is at zero;
`Resume` restores it, or sets one replica; `Scale` is the user, who may set any
count, zero too, and of a suspended Deployment.  `CNIInstall`
takes a host and a DPU cluster through InstallCNI and PostInstall, one action
per call: `ovs`, `pre` and `post` (add-ons before and after the network),
`primary`, the steps of installOVNKubernetes (`corefile` to `secret`), the steps
of PostInstallPerCluster (`multusready`, `suspend`, `patch`), and, for all
clusters in the end, `resume`, `restart`, `dns`.  `Configs` are all accepted
combinations of platform, offload, values-only mode, order and CNIs;
`MCCNIInstall` gives the add-on lists.  `done` records what is in a cluster;
`Networked`, `NetUp`, `DNSNetworked` and `DNSCanRun` say when Kubernetes can make
pods run, and are the external part.  `PostAddon` waits as InstallAddon does
(`GetsReady`): for Multus, unless OVN-Kubernetes comes later, and for
cert-manager's Deployments, whose pods need a network, and on a DPU host a node
that takes pods without a VF (`MayNotGetReady`); the run then ends
`unavailable`.  `unrecorded` are the Deployments whose count no annotation has.
The user reruns on new or on old clusters, scales Deployments,
and in values-only mode installs the release and runs `dpu-sim ovnk` himself.

`InstallPromise` is the abstract specification: three variables (`offload`, the
clusters whose network is `up`, those whose CoreDNS is `serving`) and the order
promised between them.  The refinement mapping computes them from `config`,
`NetUp` and `restarted`; run `cni` checks it as the property `KeepsPromise`, and
`CNIInstallProofs` proves it.

The add-on lists are those validateAndNormalizeAddons lets through
(`Normalized`: none twice), which is the assumption on `AddonLists`.
`ResolveOrder` moves a configured Whereabouts ahead of Multus, and `PreAddons` and
`PostAddons` split the result around the network.  `DeploymentComplete` is about
every run that ends well, on new clusters or over what earlier runs left.

| Run | Instance | Shows |
|---|---|---|
| cni | every configuration, 2 add-on lists, users' counts 0 and 1, 2 faults | `FreshRunSucceeds`, `DeploymentComplete`, `CountNeverLost`, `WhereaboutsBeforeMultus`, `KeepsPromise`, `TypeOK` |

The lists are one with all add-ons in an order that has to change, and Multus
alone, with which a values-only run can succeed.  Without an offload the clusters
are alike and one order stands for both; values-only mode is tried where there is
an OVN-Kubernetes to install.  Two faults let a run be cut between a suspension
and its resumption and the next one as well, or a user scale in between.  A
cluster is created with two replicas of CoreDNS, so that zero and one are the
count that nothing records and one that differs from the recorded one.

Known exceptions written into the properties.  `CountNeverLost`: a refused
suspension (logged, not an error) loses the count, since Resume finds no
annotation and sets one replica; a Deployment the user scaled to zero comes back
with one replica; one scaled while its annotation is there gets the older count
back.  `FreshRunSucceeds`: it is about new clusters, since a rerun over a Helm
release of the same name fails, and it excepts the wait for cert-manager where a
cluster gives its pods no network in that run (values-only mode, DPU hosts).
`DeploymentComplete`: Whereabouts without Multus is not installed (only the proof,
which is for any lists, has such a one), and CoreDNS
stays at zero when the user put it there after its resumption.

### HostNetworks, BareMetalNode, VMDeploy

The runs of `dpu-sim` in VM mode above the files of the VMs.  `HostNetworks` has
libvirt networks and OVS bridges, and the firewall backend in `network.conf` and
in the running daemon.  `BareMetalNode` has the bare-metal worker, which no
clean-up touches: SSH key, kubeadm files, kubelet, its extra node address,
routes, and the host's FORWARD rules for it; `AdoptStages` is the order of
adoptAndJoinBareMetalWorkers.  `VMDeploy` extends both with runDeploy and
runVMDeploymentWorkflow: kubeconfigs removed, the backend, CleanupAll,
CreateAllNetworks, CreateAllVMs, the gateway address, InstallKubernetes and for
each cluster setupK8sCluster, then the CNI (one step, of CNIInstall) and the
end.  `RunFails` ends the run, half-way through a step (`Half`) perhaps;
`CleanupFails` and `LookupFails` are errors that only warn or are not seen;
`StopRefused` is the `|| true` of the reset.

| Run | Instance | Shows |
|---|---|---|
| vm | a NAT, an OVS and a host-to-DPU network, Debian, bootc, 2 masters, 1 VM worker, 1 bare-metal worker, a DPU cluster, 3 faults | `IdempotentByDefault`, `DeploymentComplete`, `CleanupComplete`, `KubeconfigHasCluster`, `MemberIsReachable`, `NetworkHasBridge`, `TypeOK` |

One network of each kind and one node of each role: the code treats further ones
alike.  Three faults allow a failure in a run, one in the clean-up after it and
a kill.  Excepted: a host whose libvirt was never restarted with the backend of
its file (`StaleBackend`: the restart failed or the run was killed before it,
and every later run finds the file unchanged), and networks that a failed
lookup hid (`misread`).

### OVNImage

The source tree of OVN-Kubernetes and the image built from it.  `head`, `index`
and `work` are the contents of the tracked files committed, staged and on disk;
the user edits, stages and commits at any step.  A run is `source` (the tree is
there, or `clone`), `ignore` (the generated `.dockerignore`), the three git
commands `revision` (rev-parse), `status` and `diff`, each a step of its own,
then `lookup`, `build`, `tag`, `restore`.  A revision is `<<head>>` for a clean
tree and holds the diff too for a changed one; `images` maps revisions to
contents.  What the properties leave out is recorded: `raced`, an edit, staging
or commit between rev-parse and diff, or an edit before the build ends (a commit
between rev-parse and status caches the new content under the old HEAD); `blind`,
a git status that failed on a changed tree; `lost`, a run killed before it put
`.dockerignore` back, or that could not; `unread`, one that could not read the
file it replaced.  `NamesContent` are the revisions that say something of the
content.

| Run | Instance | Shows |
|---|---|---|
| ovn | 3 contents, 3 edits, 2 faults | `TagIsFresh`, `IgnoreRestored`, `SourceNeverRemoved`, `TypeOK` |
| ovn_staged | 3 contents, 4 edits, no fault | violation: two staged edits share a key |

Three edits take the tree to a content, elsewhere and back.  Four are needed for
two staged edits with a build after each.

## 3. What is proved

With TLAPS, for all values of the constants that satisfy the assumptions:

* `DevicePluginProofs`: `Spec => []DevicePluginInv`, and from it
  `TypeCorrect`, `KubeletViewCorrect`, `DevinfoCorrect`,
  `HeldDevicesStayHealthy`, `OnlyDestroyedDevicesBenched`,
  `SingleRequestFailureMarksNothing`, and `ContractKept`, the refinement of
  `DeviceContract`.
  None of the properties is inductive.  `HeldNeverBenched` needs `GraceInv`: a
  promised device that PodResources does not list has more grace left than a
  check can last, and one that the check in progress did not see listed has
  more than the rest of that check.  `OnlyDestroyedBenched` needs `MissInv`: the
  misses of an intact VF, with the one the check in progress may add and the
  tick that waits, stay within the ticks of its teardown plus `Overlap`.
  `ContractKept` needs both, and two more: `IndexOrder` (what a check saw of a
  netdev is no older than what the table has of it, so that an update loses no
  device) and `CallOpen` (an answer kubelet still waits for came over the open
  stream, for devices no pod has).  `KubeletViewCorrect` states `ViewFollows`: with
  no report on its way, kubelet's view is the table.
* `DevicePluginProcessProofs`: `AcceptedBuilds` (the two validations agree on all
  integers), `PoolsSeparate`, and from them that an accepted network starts (an
  offload without one is excepted), reserved VFs stay reserved, and every VF has
  a use (`VFsAreUsed`: it matches a pool or is an uplink, and one at least is for
  pods); `ProcessTypeCorrect`.
* `VMProvisionProofs`: `Spec => []ProvisionInv`; `DomainsHaveFiles` from
  `StepFiles` (what each step has made or removed behind it),
  `DeploymentsAreFresh` from `Freshness` (what clean-up removed is there again
  only if this run made it), `DeploymentsBoot` from `Booting`;
  `ProvisionTypeCorrect`.
* `OVNImageProofs`: `Spec => []Inv`.  `TagIsFresh` needs that, while nobody has
  changed the tree under a run, the revision the git commands have got to names
  what rev-parse found, that an image built from it has that content (`Sound`),
  and that no revision has two images (`Keyed`);
  `IgnoreRestored` needs that the copy a run saved is the user's (`Kept`), unless
  a run was lost or could not read the file;
  `SourceNeverRemoved` follows from where `Clone` can be reached.

* `VMDeployProofs`, for any number of networks, masters and workers:
  `TypeCorrect` from `Typed` and `Bounded` (which loop a step is in, and how far
  it goes).  `NetworksStandOnBridges` needs `Bridged`: a bridge is removed after
  its network or what a failed lookup took for none.  `MembersAreReachable` needs
  `Reachable`: a worker holds files of a cluster only while its control plane is
  there, and the stages before `join` have set the node address.
  `KubeconfigsHaveClusters` needs `Matched`: kubeconfigs are forgotten before the
  first VM goes, and fetched from a control plane this run has made.
  `CleanupsComplete` needs `Cleaned`: what the loops behind the run removed.
* `VMDeployCompletionProofs`: `DeploymentsComplete` from `Built` (networks, VMs
  and addresses up to the loop's place) and `Installed` (nodes joined and patched
  in the order of `PatchOrder`, cluster by cluster).  `DefaultRunsSucceed` from
  `Smooth`: in a clean run each of the alternatives that fail is out of reach,
  because clean-up left nothing (`Emptied`), what creation needs stands
  (`Raised`, `Blank`) and the bare-metal node can be adopted (`Adopted`), and
  clean-up in turn can remove everything because `Kept` holds in all runs.
* `KindDeployProofs`, for any number of pairs, channels and addresses:
  `TypeCorrect`; `AddressesStayDistinct` from `Addressed` (a host that has an
  address has its eth0-0, so that no rerun renames another channel to it and
  comes to its address again; hosts get theirs in order, after all DPUs);
  `KillsLeakNothing` from `Tidy` (the network goes after every rule, and rules
  come only while it is there); `LinksSurvive`, an action property;
  and, in its second part, `DeploymentsComplete` from `Wired`, `Routed` and
  `Registered`.  `Wired` holds because the veth in progress shares neither end's
  place with another of its channel (`Alone`), so that each command takes the
  one that was added.  `DefaultRunsSucceed`, with the assumption `~Debug`, from
  `Grounded` (a container that is not there holds no veth and no attachment, in
  every state) and `Unspoilt` (what a clean run finds at each step); only a reused
  registry that refuses the push ends such a run (`unready`).
* `CNIInstallProofs`, for any lists of add-ons, replica counts and faults:
  `TypeCorrect`; `CountsSurvive` from `AwaitedHeld` (a Deployment the run still has
  to resume is written down, or is one of `unrecorded`: Resume of one that is
  not suspended would set one replica); `PromiseKept`, the refinement of
  `InstallPromise`.  It needs `OnNetwork` (a CoreDNS that was restarted keeps all
  the networks its path needs, so that whoever scales it up finds it served),
  `Progress` (what is in a cluster once the run is past
  a step of it) and `Credentials`: the release of the DPU cluster needs the
  host's credentials, those exist only where the host has its release, and the
  OVS set-up of the DPU comes after the host's labels and device plugin; so a DPU
  network that comes up finds the host's.
  Its second part proves `WhereaboutsFirst`, `FreshRunsSucceed` and `RunsComplete`.
  They rest on lemmas about lists of any length (`Inserted`, `Removed`: what
  InsertAt and RemoveFirst make of a list without repetitions; `Resolved`: the
  resolved order keeps every add-on but a Whereabouts without Multus, and has
  Whereabouts ahead of Multus; `Divided`: neither side of the split loses that),
  and on `Delivered`: the add-ons up to the loop's place are in the cluster
  (`AddonProgress`), a cluster the run is past has its values file or, on the
  host, its credentials (`HandedOver`), on new clusters no release is there
  before its turn (`Unreleased`), and the system deployments of the clusters
  restored so far run on their network (`Brought`, with `DNSServes`).  The only
  step of such a run that can end it is an add-on's wait, and `AddonStops` shows
  that this is cert-manager's in a cluster that does not serve its pods.

Only model-checked: the liveness properties (`DestroyedIsReported`,
`PresentIsAdvertised`, `EndsOnceUnwatched`, `RerunDeploys`), which need fairness
and with it ENABLED.  Every invariant, action property and refinement of the
passing runs is proved.

## 4. Findings

Shown by runs that end in a violation:

* `Run` does not return when its context is cancelled while kubelet watches
  (run `cancel`): one failed pool leaves the process alive without it.
* A disk whose resize was cut short is deployed at its small size (run `disk`).
* With `--log-level debug` CleanupAll of an offloaded Kind deployment takes a
  missing gateway network for a failure: a `--cleanup` run on a clean host fails,
  and a deployment aborts on the same step (run `kind_debug`).
* Two different staged edits of the OVN-Kubernetes tree share a cache key, and
  the second is deployed with the image of the first (run `ovn_staged`).

Met while modelling, and written into the properties as exceptions (those that
contradict a document are marked with its line):

* A registry that is still starting when its run fails or is killed is taken for
  running by the next run, which does not wait for it; a refused push aborts that
  run (`unready` in `IdempotentByDefault`; README.md:1260 of the repository says
  that dpu-sim can be run multiple times safely).
* In values-only mode the run waits for cert-manager in a cluster whose pods have
  no network yet, and ends with an error (`unavailable` in `FreshRunSucceeds`;
  README.md:938-941 has the add-ons created in that mode).  On DPU hosts
  cert-manager's pods ask for no VF and are rejected, so that its wait may fail
  there too.
* SuspendDeployment records no count when an older annotation is there: what the
  user set in between is lost (`unrecorded` in `CountNeverLost`; client.go:874-875
  says that the prior value is recorded).
* A `.dockerignore` that cannot be read is taken for none, overwritten, and
  removed after the build (`unread` in `IgnoreRestored`;
  ovn_kubernetes.go:812-814 says that an existing one is restored).
* A failed `Allocate` with several container requests keeps the devices of the
  earlier ones marked; kubelet sends one request per call.
* A partial wget download is taken for the cloud image by every later run.
* Whereabouts configured without Multus is dropped by resolveAddonInstallOrder.
* A refused SuspendDeployment (one conflict is enough, there is no retry) is only
  logged; ResumeDeployment then sets one replica, as it does for a Deployment
  that the user had scaled to zero.
* The libvirt daemon is never restarted once its changed configuration file is
  in place and the restart failed.
* A failing command can leave forwarding rules for a bridge that is gone; no
  later clean-up finds them.  Clean-up of a VM deployment leaves the bare-metal
  worker joined and the host's FORWARD rules in place.
* A commit, staging or edit between the three git commands of a revision can
  cache an image under the revision of another content.
* A revision that git did not give is cached as "unknown", and a failed
  `git diff` as "-dirty": both can find an image of other contents.
* There is no registration after a kubelet restart.
* An offload without a HostToDpu network is accepted, and its default counts (one
  pair, one management VF, no uplink) build no pools: the plugin crash-loops
  (`AcceptedConfigStarts` excepts it).

## 5. Plan

Done: the device plugin and its process and pools, with the contract between
plugin and kubelet; VM provisioning; the Kind and the VM workflow over any
sequence of runs; registry; CNI installation with its abstract specification; the
OVN-Kubernetes image; proofs of every safety property the runs check.  Left, in
order:

1. an abstract specification of a deployment (a host that is clean, being
   built, or whole), which the Kind and the VM workflow both implement;
2. redeployment of a CNI and the legacy daemonset path; image loading without a
   registry; `BuildAndLoadImage` of the device plugin;
3. the workflows with the tests they start.

## 6. Not modelled, and why

The text of Helm values, cloud-init and XML is generated, not kept; package
installation, executors, SSH, container-engine wrappers and the kube-burner and
traffic-flow-test runners are I/O without state of their own.  Time-outs are
modelled by the failure they lead to.  Two `dpu-sim` processes at once are not
supported by the code and not modelled.  `CNIInstall` has its own clusters: that
Kind or kubeadm made them is `KindDeploy`'s and `VMDeploy`'s, where the CNI is a
step that succeeds or fails.
