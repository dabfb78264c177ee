------------------------- MODULE DevicePluginProcess -------------------------
(***************************************************************************)
(* The dpu-sim-dp process: main (cmd/dpu-sim-dp/main.go) starts one        *)
(* plugin per resource pool under an errgroup, whose first error cancels   *)
(* the context all of them wait on.  DevicePlugin models what a pool does  *)
(* while it serves; here a pool is its progress through Run, and the       *)
(* point is how the process as a whole starts and ends.                    *)
(***************************************************************************)
EXTENDS ResourcePools, FiniteSets

CONSTANTS
  MaxNumPairs, MaxMgmt, MaxUplink,  \* bounds: values a HostToDpu network may give
  MaxVF                             \* bound: host data interfaces looked at

ASSUME BoundsType    == {MaxNumPairs, MaxMgmt, MaxUplink, MaxVF} \subseteq Nat
ASSUME VFsCoverPairs == MaxNumPairs <= MaxVF + 1

(* As the YAML may give them: omitted is 0, and negative values parse too. *)
Network == [numPairs: -1..MaxNumPairs, mgmt: -1..MaxMgmt, uplink: -1..MaxUplink]

(* The HostToDpu networks of the file: an offload is accepted without one. *)
Configs == {{}} \union {{n} : n \in Network}

Pools == {"mgmtvf", "vf"}
VFs   == 0..MaxVF

VARIABLES
  config,      \* the HostToDpu network of the configuration file, if any
  env,         \* what the DaemonSet manifest gives the process
  proc,        \* the process, as its container's status shows it
  phase,       \* each pool's progress through Run
  cancelled,   \* the errgroup's context
  failed,      \* some pool's Run returned an error
  advertised,  \* the VFs each pool discovered or adopted
  stream       \* pools with a ListAndWatch stream open

vars == <<config, env, proc, phase, cancelled, failed, advertised, stream>>

NoEnv == [numPairs |-> 0, mgmt |-> 0, uplink |-> 0]

TypeOK ==
  /\ config \in Configs
  /\ env \in [numPairs: Int, mgmt: Int, uplink: Int]
  /\ proc \in {"absent", "starting", "running", "exited 0", "exited 1", "rejected"}
  /\ phase \in [Pools -> {"idle", "discovered", "serving", "draining", "returned"}]
  /\ cancelled \in BOOLEAN /\ failed \in BOOLEAN
  /\ advertised \in [Pools -> SUBSET VFs]
  /\ stream \subseteq Pools

Init ==
  /\ config \in Configs
  /\ env = NoEnv /\ proc = "absent"
  /\ phase = [p \in Pools |-> "idle"]
  /\ cancelled = FALSE /\ failed = FALSE
  /\ advertised = [p \in Pools |-> {}]
  /\ stream = {}

-----------------------------------------------------------------------------
(* The counts dpu-sim passes on: those of the network the configuration    *)
(* was accepted with, or the defaults of GetHostToDpuNumPairs,              *)
(* DPUHostManagementPortVFsCount and DPUHostUplinkVFsCount without one.     *)
DefaultCounts == [numPairs |-> 1, mgmt |-> 1, uplink |-> 0]
Counts(n) == [numPairs |-> NormNumPairs(n.numPairs),
              mgmt     |-> NormMgmt(n.numPairs, n.mgmt, n.uplink),
              uplink   |-> NormUplink(n.uplink)]

(* DeployDevicePlugin.  A manifest from before NUM_PAIRS leaves it unset.   *)
DeployWith(counts) ==
  /\ proc = "absent" /\ proc' = "starting"
  /\ env' \in {counts, [counts EXCEPT !.numPairs = 0]}
  /\ UNCHANGED <<config, phase, cancelled, failed, advertised, stream>>

Deploy ==
  \/ config = {} /\ DeployWith(DefaultCounts)
  \/ \E n \in config : Accepted(n.numPairs, n.mgmt, n.uplink) /\ DeployWith(Counts(n))

(* main up to the errgroup: BuildResourcePools, or os.Exit(1). *)
Start ==
  /\ proc = "starting"
  /\ proc' = IF PoolsBuild(env.mgmt, env.uplink, env.numPairs) THEN "running" ELSE "rejected"
  /\ UNCHANGED <<config, env, phase, cancelled, failed, advertised, stream>>

Matches(p, i) == IF p = "mgmtvf" THEN InMgmtPool(env.mgmt, i)
                                 ELSE InPodPool(env.mgmt, env.uplink, env.numPairs, i)

Matching(p) == {i \in VFs : Matches(p, i)}

\* Mutant: the interfaces are counted from one.
DiscoverFromOne(p) ==
  /\ proc = "running" /\ phase[p] = "idle"
  /\ phase' = [phase EXCEPT ![p] = "discovered"]
  /\ advertised' = [advertised EXCEPT ![p] = {i + 1 : i \in Matching(p)}]
  /\ UNCHANGED <<config, env, proc, cancelled, failed, stream>>

(* discoverDevices, writeDeviceInfoFiles and the first checkDevices find    *)
(* the matching VFs that are visible on the host, if any: others may be in  *)
(* pods across a restart, or renamed, and some be there by accident.        *)
Discover(p) ==
  /\ proc = "running" /\ phase[p] = "idle"
  /\ phase' = [phase EXCEPT ![p] = "discovered"]
  /\ \E visible \in SUBSET Matching(p) : advertised' = [advertised EXCEPT ![p] = visible]
  /\ UNCHANGED <<config, env, proc, cancelled, failed, stream>>

(* checkDevices, at the ticks of a stream: what has appeared is adopted.    *)
Adopt(p) ==
  /\ p \in stream
  /\ \E i \in Matching(p) \ advertised[p] :
       advertised' = [advertised EXCEPT ![p] = @ \union {i}]
  /\ UNCHANGED <<config, env, proc, phase, cancelled, failed, stream>>

(* startServer and registerWithKubelet.  Run looks at the context only      *)
(* afterwards.                                                              *)
Register(p) ==
  /\ phase[p] = "discovered"
  /\ phase' = [phase EXCEPT ![p] = "serving"]
  /\ UNCHANGED <<config, env, proc, cancelled, failed, advertised, stream>>

\* Mutant: the pools run in a plain errgroup, without its context.
FailAlone(p) ==
  /\ proc = "running" /\ phase[p] \in {"idle", "discovered"}
  /\ phase' = [phase EXCEPT ![p] = "returned"]
  /\ failed' = TRUE
  /\ UNCHANGED <<config, env, proc, cancelled, advertised, stream>>

(* A step of Run fails: the errgroup records it and cancels the others. *)
Fail(p) ==
  /\ proc = "running" /\ phase[p] \in {"idle", "discovered"}
  /\ phase' = [phase EXCEPT ![p] = "returned"]
  /\ failed' = TRUE /\ cancelled' = TRUE
  /\ UNCHANGED <<config, env, proc, advertised, stream>>

(* SIGINT or SIGTERM. *)
Signal ==
  /\ proc = "running" /\ ~cancelled
  /\ cancelled' = TRUE
  /\ UNCHANGED <<config, env, proc, phase, failed, advertised, stream>>

(* kubelet connects back and keeps its ListAndWatch stream for as long as   *)
(* it runs (external).                                                      *)
StreamOpens(p) ==
  /\ phase[p] = "serving" /\ p \notin stream
  /\ stream' = stream \union {p}
  /\ UNCHANGED <<config, env, proc, phase, cancelled, failed, advertised>>

StreamCloses(p) ==
  /\ p \in stream
  /\ stream' = stream \ {p}
  /\ UNCHANGED <<config, env, proc, phase, cancelled, failed, advertised>>

(* <-ctx.Done(): GracefulStop takes no new calls ... *)
Drain(p) ==
  /\ phase[p] = "serving" /\ cancelled
  /\ phase' = [phase EXCEPT ![p] = "draining"]
  /\ UNCHANGED <<config, env, proc, cancelled, failed, advertised, stream>>

(* ... and returns when the calls it has are over.  ListAndWatch ends with  *)
(* its stream's context, which GracefulStop leaves alone.                   *)
Return(p) ==
  /\ phase[p] = "draining" /\ p \notin stream
  /\ phase' = [phase EXCEPT ![p] = "returned"]
  /\ UNCHANGED <<config, env, proc, cancelled, failed, advertised, stream>>

AllReturned == \A p \in Pools : phase[p] = "returned"

(* g.Wait *)
Exit ==
  /\ proc = "running" /\ AllReturned
  /\ proc' = IF failed THEN "exited 1" ELSE "exited 0"
  /\ UNCHANGED <<config, env, phase, cancelled, failed, advertised, stream>>

(* The DaemonSet restarts the container. *)
Restart ==
  /\ proc \in {"exited 0", "exited 1", "rejected"}
  /\ proc' = "starting"
  /\ phase' = [p \in Pools |-> "idle"]
  /\ cancelled' = FALSE /\ failed' = FALSE
  /\ advertised' = [p \in Pools |-> {}]
  /\ stream' = {}
  /\ UNCHANGED <<config, env>>

PoolStep(p) == \/ Discover(p) \/ Register(p) \/ Fail(p) \/ Drain(p) \/ Return(p)
               \/ StreamOpens(p) \/ StreamCloses(p) \/ Adopt(p)
Next == Deploy \/ Start \/ Signal \/ Exit \/ Restart \/ \E p \in Pools : PoolStep(p)

Spec == Init /\ [][Next]_vars

(* The goroutines of the process run. *)
Fairness ==
  /\ WF_vars(Start) /\ WF_vars(Exit)
  /\ \A p \in Pools : /\ WF_vars(Discover(p)) /\ WF_vars(Register(p))
                      /\ WF_vars(Drain(p)) /\ WF_vars(Return(p))
FairSpec == Spec /\ Fairness

-----------------------------------------------------------------------------
(* A HostToDpu network that dpu-sim accepts never leaves the plugin in a    *)
(* crash loop on BuildResourcePools: the two validations, written apart in  *)
(* pkg/config and pkg/deviceplugin, agree.  Excepted is an offload without  *)
(* such a network, which is accepted too: with its default counts           *)
(* BuildResourcePools fails at every start.                                 *)
AcceptedConfigStarts == proc = "rejected" => config = {}

(* No pool ever advertises the gateway interface or a VF that FRR was told  *)
(* to use as an uplink, and no VF is in two pools.                          *)
ReservedNeverAdvertised ==
  /\ advertised["mgmtvf"] \intersect advertised["vf"] = {}
  /\ \A p \in Pools : \A i \in advertised[p] :
       i # GatewayIndex /\ ~IsUplinkVF(env.mgmt, env.uplink, i)

(* Every VF the topology creates, eth0-1 to the last of num_pairs, has a    *)
(* use: a pool takes it once it is visible, or FRR was told to; and the pod *)
(* pool takes one at least.  What is visible at a time is another question: *)
(* a pool that runs may be empty.                                           *)
EveryVFHasUse ==
  proc = "running" /\ env.numPairs > 0 =>
    /\ \A i \in VFs : GatewayIndex < i /\ i < env.numPairs =>
         IsUplinkVF(env.mgmt, env.uplink, i) \/ \E p \in Pools : Matches(p, i)
    /\ \E i \in VFs : i < env.numPairs /\ Matches("vf", i)

(* "It blocks until ctx is cancelled" (Run): once the context is cancelled, *)
(* every Run returns and the process ends.                                  *)
CancelledRunReturns == cancelled ~> proc # "running"

(* What the code does guarantee: the first pool to fail, or a signal, takes *)
(* the whole process down, for the DaemonSet to restart, provided kubelet   *)
(* keeps dropping its streams.                                              *)
EndsOnceUnwatched == []<>(stream = {}) => (failed \/ cancelled ~> proc # "running")
=============================================================================
