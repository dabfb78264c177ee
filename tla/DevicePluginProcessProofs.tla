---------------------- MODULE DevicePluginProcessProofs ----------------------
(***************************************************************************)
(* The two validations of a HostToDpu network agree, and what follows for  *)
(* the process, for configurations of any size.                            *)
(***************************************************************************)
EXTENDS DevicePluginProcess, TLAPS

(* The bounds are naturals.                                                *)
LEMMA BoundTypes ==
  MaxNumPairs \in Nat /\ MaxMgmt \in Nat /\ MaxUplink \in Nat /\ MaxVF \in Nat
  BY BoundsType

(* Normalising the counts of a network yields integers.                    *)
LEMMA NormTypes ==
  ASSUME NEW np \in Int, NEW m \in Int, NEW u \in Int
  PROVE  /\ NormNumPairs(np) \in Int /\ NormMgmt(np, m, u) \in Int /\ NormUplink(u) \in Int
         /\ NormNumPairs(np) = np \/ NormNumPairs(np) = 1
<1>1. NormNumPairs(np) \in Int /\ NormUplink(u) \in Int /\ (NormNumPairs(np) = np \/ NormNumPairs(np) = 1)
  BY DEF NormNumPairs, NormUplink
<1>2. Available(np) \in Int
  BY <1>1 DEF Available
<1>3. DefaultMgmt(np) \in Int
  BY <1>2 DEF DefaultMgmt, AtMost, DefaultMgmtPortVFsCount
<1> QED
  BY <1>1, <1>2, <1>3 DEF NormMgmt, AtMost, AtLeast

(* Whatever numbers a HostToDpu network gives, if the configuration accepts *)
(* them, BuildResourcePools accepts what they are normalised to, whether    *)
(* the manifest passes NUM_PAIRS on or leaves it unset.                     *)
THEOREM AcceptedBuilds ==
  ASSUME NEW np \in Int, NEW m \in Int, NEW u \in Int, Accepted(np, m, u),
         NEW n \in {NormNumPairs(np), 0}
  PROVE  PoolsBuild(NormMgmt(np, m, u), NormUplink(u), n)
<1> DEFINE M == NormMgmt(np, m, u)
           U == NormUplink(u)
<1>1. /\ NormNumPairs(np) \in Nat \ {0} /\ Available(np) = NormNumPairs(np) - 2
      /\ U \in Nat
  BY DEF NormNumPairs, Available, NormUplink
<1>2. M \in Int /\ M >= 1
  BY <1>1 DEF Accepted, NormMgmt, DefaultMgmt, AtMost, AtLeast, DefaultMgmtPortVFsCount
<1>3. M <= Available(np)
  BY <1>1, <1>2
  DEF Accepted, NormMgmt, DefaultMgmt, AtMost, AtLeast, DefaultMgmtPortVFsCount
<1>4. M + U <= Available(np)
  BY <1>1, <1>2, <1>3 DEF Accepted
<1> QED
  BY <1>1, <1>2, <1>4 DEF PoolsBuild, PodVFStart

(* The pools BuildResourcePools builds share no VF, leave the gateway and   *)
(* the uplink VFs alone, and the pod pool starts below num_pairs.           *)
THEOREM PoolsSeparate ==
  ASSUME NEW m \in Int, NEW u \in Int, NEW np \in Int, PoolsBuild(m, u, np), NEW i \in Int
  PROVE  /\ ~(InMgmtPool(m, i) /\ InPodPool(m, u, np, i))
         /\ InMgmtPool(m, i) \/ InPodPool(m, u, np, i)
              => i # GatewayIndex /\ ~IsUplinkVF(m, u, i)
         /\ np > 0 => InPodPool(m, u, np, PodVFStart(m, u)) /\ PodVFStart(m, u) < np
  BY DEF PoolsBuild, InMgmtPool, InPodPool, IsUplinkVF, IsHostDataVF, PodVFStart,
         MgmtVFStart, GatewayIndex

-----------------------------------------------------------------------------
(* The counts of a network are integers, num_pairs within its bound.       *)
LEMMA NetworkTypes ==
  ASSUME NEW c \in Network
  PROVE  c.numPairs \in Int /\ c.mgmt \in Int /\ c.uplink \in Int /\ c.numPairs <= MaxNumPairs
  BY BoundTypes DEF Network

(* An environment that gives the pools of a network, or the defaults.      *)
Deployable(e) ==
  /\ e \in [numPairs: Int, mgmt: Int, uplink: Int]
  /\ e.numPairs <= MaxNumPairs \/ e.numPairs <= 1

(* What the process is given for a network that was accepted builds; so a   *)
(* process that runs has pools that build, and each advertises VFs that its *)
(* matcher takes.                                                           *)
ProcessInv ==
  /\ config \in Configs
  /\ Deployable(env)
  /\ proc \in {"absent", "starting", "running", "exited 0", "exited 1", "rejected"}
  /\ phase \in [Pools -> {"idle", "discovered", "serving", "draining", "returned"}]
  /\ advertised \in [Pools -> SUBSET VFs]
  /\ proc # "absent" /\ config # {} => PoolsBuild(env.mgmt, env.uplink, env.numPairs)
  /\ proc = "rejected" => config = {}
  /\ proc \in {"running", "exited 0", "exited 1"} =>
       PoolsBuild(env.mgmt, env.uplink, env.numPairs)
  /\ \A p \in Pools : advertised[p] \subseteq Matching(p)
  /\ \A p \in Pools : advertised[p] = {} \/ proc \in {"running", "exited 0", "exited 1"}
  /\ stream = {} \/ proc \in {"running", "exited 0", "exited 1"}
  /\ \A p \in Pools : phase[p] = "serving" => proc \in {"running", "exited 0", "exited 1"}
  /\ \A p \in Pools : phase[p] = "discovered" => proc \in {"running", "exited 0", "exited 1"}

(* The process invariant holds initially.                                  *)
LEMMA InitProcessInv == Init => ProcessInv
  BY BoundsType DEF Init, ProcessInv, Deployable, NoEnv, Pools

(* What is deployed for a configuration.                                   *)
LEMMA DeployedEnv ==
  ASSUME ProcessInv, Deploy
  PROVE  /\ Deployable(env')
         /\ config # {} => PoolsBuild(env'.mgmt, env'.uplink, env'.numPairs)
<1>1. CASE config = {} /\ DeployWith(DefaultCounts)
  BY <1>1 DEF DeployWith, DefaultCounts, Deployable
<1>2. ASSUME NEW n \in config, Accepted(n.numPairs, n.mgmt, n.uplink), DeployWith(Counts(n))
      PROVE  Deployable(env') /\ PoolsBuild(env'.mgmt, env'.uplink, env'.numPairs)
  <2> DEFINE N == NormNumPairs(n.numPairs)
             M == NormMgmt(n.numPairs, n.mgmt, n.uplink)
             U == NormUplink(n.uplink)
  <2>1. n.numPairs \in Int /\ n.mgmt \in Int /\ n.uplink \in Int /\ n.numPairs <= MaxNumPairs
    <3>1. n \in Network
      BY <1>2 DEF ProcessInv, Configs
    <3> QED
      BY <3>1, NetworkTypes
  <2>2. PICK np \in {N, 0} : env' = [numPairs |-> np, mgmt |-> M, uplink |-> U]
    <3>1. env' = Counts(n) \/ env' = [Counts(n) EXCEPT !.numPairs = 0]
      BY <1>2 DEF DeployWith
    <3> QED
      BY <3>1 DEF Counts
  <2>3. /\ \A a \in Int : NormNumPairs(a) \in Int /\ (NormNumPairs(a) = a \/ NormNumPairs(a) = 1)
        /\ \A a, b, c \in Int : NormMgmt(a, b, c) \in Int
        /\ \A a \in Int : NormUplink(a) \in Int
    BY NormTypes
  <2>4. N \in Int /\ M \in Int /\ U \in Int /\ (N = n.numPairs \/ N = 1)
    <3>1. N \in Int /\ (N = n.numPairs \/ N = 1)
      BY <2>1, <2>3
    <3>2. M \in Int /\ U \in Int
      BY <2>1, <2>3, Zenon
    <3> QED BY <3>1, <3>2
  <2>5. PoolsBuild(M, U, np)
    BY <1>2, <2>1, AcceptedBuilds
  <2> HIDE DEF N, M, U
  <2> QED
    BY <2>1, <2>2, <2>4, <2>5 DEF Deployable
<1> QED
  BY <1>1, <1>2 DEF Deploy

(* Every step keeps the process invariant.                                 *)
LEMMA StepProcessInv == ProcessInv /\ [Next]_vars => ProcessInv'
<1> SUFFICES ASSUME ProcessInv, [Next]_vars PROVE ProcessInv'
  OBVIOUS
<1> USE DEF Matching, Matches
<1>1. CASE Deploy
  <2>1. /\ proc = "absent" /\ proc' = "starting"
        /\ UNCHANGED <<config, phase, cancelled, failed, advertised, stream>>
    BY <1>1 DEF Deploy, DeployWith
  <2>2. \A p \in Pools : advertised[p] = {}
    BY <2>1 DEF ProcessInv
  <2> QED
    BY <1>1, <2>1, <2>2, DeployedEnv DEF ProcessInv
<1>2. CASE Start
  BY <1>2 DEF Start, ProcessInv
<1>3. ASSUME NEW p \in Pools, Discover(p) \/ Adopt(p) PROVE ProcessInv'
  <2>1. /\ UNCHANGED <<config, env, proc, stream>>
        /\ proc \in {"running", "exited 0", "exited 1"}
    BY <1>3 DEF Discover, Adopt, ProcessInv
  <2>2. phase' \in [Pools -> {"idle", "discovered", "serving", "draining", "returned"}]
    BY <1>3 DEF Discover, Adopt, ProcessInv
  <2>3. PICK S \in SUBSET Matching(p) : advertised' = [advertised EXCEPT ![p] = S]
    BY <1>3 DEF Discover, Adopt, ProcessInv
  <2>4. /\ advertised' \in [Pools -> SUBSET VFs]
        /\ \A q \in Pools : advertised'[q] \subseteq Matching(q)
    BY <2>3 DEF ProcessInv
  <2> QED
    BY <2>1, <2>2, <2>4 DEF ProcessInv
<1>4. ASSUME NEW p \in Pools, Register(p) \/ Fail(p) \/ Drain(p) \/ Return(p) PROVE ProcessInv'
  <2>1. UNCHANGED <<config, env, proc, advertised, stream>>
    BY <1>4 DEF Register, Fail, Drain, Return
  <2>2. phase' \in [Pools -> {"idle", "discovered", "serving", "draining", "returned"}]
    BY <1>4 DEF Register, Fail, Drain, Return, ProcessInv
  <2>3. \A q \in Pools : \/ phase'[q] = phase[q]
                         \/ phase'[q] = "serving" /\ phase[q] = "discovered"
                         \/ phase'[q] \in {"draining", "returned"}
    BY <1>4 DEF Register, Fail, Drain, Return, ProcessInv
  <2> QED
    BY <2>1, <2>2, <2>3 DEF ProcessInv
<1>5. ASSUME NEW p \in Pools, StreamOpens(p) \/ StreamCloses(p) PROVE ProcessInv'
  BY <1>5 DEF StreamOpens, StreamCloses, ProcessInv
<1>6. CASE Restart
  BY <1>6 DEF Restart, ProcessInv
<1>7. CASE Signal \/ Exit \/ UNCHANGED vars
  BY <1>7 DEF Signal, Exit, vars, ProcessInv
<1> QED
  BY <1>1, <1>2, <1>3, <1>4, <1>5, <1>6, <1>7 DEF Next, PoolStep

(* The process invariant holds in every state.                             *)
THEOREM ProcessInvariance == Spec => []ProcessInv
  BY InitProcessInv, StepProcessInv, PTL DEF Spec

(* No accepted network puts the plugin in a crash loop: only a process that *)
(* was deployed without one is ever rejected.                               *)
THEOREM AcceptedConfigurationsStart == Spec => []AcceptedConfigStarts
<1>1. ProcessInv => AcceptedConfigStarts
  BY DEF ProcessInv, AcceptedConfigStarts
<1> QED
  BY <1>1, ProcessInvariance, PTL

(* No VF is in two pools, and neither the gateway nor an uplink is in any.  *)
THEOREM ReservedVFsStayReserved == Spec => []ReservedNeverAdvertised
<1>1. ProcessInv => ReservedNeverAdvertised
  <2> SUFFICES ASSUME ProcessInv PROVE ReservedNeverAdvertised
    OBVIOUS
  <2>1. /\ "mgmtvf" \in Pools /\ "vf" \in Pools /\ VFs \subseteq Int
        /\ env.mgmt \in Int /\ env.uplink \in Int /\ env.numPairs \in Int
    <3>1. "mgmtvf" \in Pools /\ "vf" \in Pools
      BY DEF Pools
    <3>2. VFs \subseteq Int
      BY BoundTypes DEF VFs
    <3> QED
      BY <3>1, <3>2 DEF ProcessInv, Deployable
  <2>2. ASSUME NEW p \in Pools, NEW i \in advertised[p]
        PROVE  /\ i \in Int /\ Matches(p, i)
               /\ PoolsBuild(env.mgmt, env.uplink, env.numPairs)
    BY <2>1, <2>2 DEF ProcessInv, Matching
  <2>3. advertised["mgmtvf"] \intersect advertised["vf"] = {}
    BY <2>1, <2>2, PoolsSeparate DEF Matches
  <2>4. ASSUME NEW p \in Pools, NEW i \in advertised[p]
        PROVE  i # GatewayIndex /\ ~IsUplinkVF(env.mgmt, env.uplink, i)
    BY <2>1, <2>2, <2>4, PoolsSeparate DEF Matches
  <2> QED
    BY <2>3, <2>4 DEF ReservedNeverAdvertised
<1> QED
  BY <1>1, ProcessInvariance, PTL

(* The pools and the uplink VFs leave out none of the VFs the topology      *)
(* creates, and the pod pool's range is not empty.                          *)
THEOREM VFsAreUsed == Spec => []EveryVFHasUse
<1>1. ProcessInv => EveryVFHasUse
  <2> SUFFICES ASSUME ProcessInv, proc = "running", env.numPairs > 0
               PROVE  /\ \A i \in VFs : GatewayIndex < i /\ i < env.numPairs =>
                           \/ IsUplinkVF(env.mgmt, env.uplink, i)
                           \/ \E p \in Pools : Matches(p, i)
                      /\ \E i \in VFs : i < env.numPairs /\ Matches("vf", i)
    BY DEF EveryVFHasUse
  <2> DEFINE first == PodVFStart(env.mgmt, env.uplink)
  <2>1. /\ env.mgmt \in Int /\ env.uplink \in Int /\ env.numPairs \in Int
        /\ PoolsBuild(env.mgmt, env.uplink, env.numPairs)
        /\ VFs \subseteq Int /\ "mgmtvf" \in Pools /\ "vf" \in Pools
    BY BoundTypes DEF ProcessInv, Deployable, VFs, Pools
  <2>2. ASSUME NEW i \in VFs, GatewayIndex < i, i < env.numPairs
        PROVE  \/ IsUplinkVF(env.mgmt, env.uplink, i)
               \/ InMgmtPool(env.mgmt, i)
               \/ InPodPool(env.mgmt, env.uplink, env.numPairs, i)
    BY <2>1, <2>2 DEF PoolsBuild, PodVFStart, IsUplinkVF, InMgmtPool, InPodPool, IsHostDataVF,
       MgmtVFStart, GatewayIndex
  <2>3. first \in Int /\ first >= 2 /\ first < env.numPairs
        /\ InPodPool(env.mgmt, env.uplink, env.numPairs, first)
    BY <2>1 DEF PoolsBuild, PodVFStart, InPodPool, IsHostDataVF, GatewayIndex
  <2>4. first \in VFs
    <3>1. env.numPairs <= MaxNumPairs \/ env.numPairs <= 1
      BY DEF ProcessInv, Deployable
    <3>2. first <= MaxVF
      BY <2>1, <2>3, <3>1, BoundTypes, VFsCoverPairs
    <3> HIDE DEF first
    <3> QED
      BY <2>3, <3>2, BoundTypes DEF VFs
  <2>5. Matches("vf", first)
    BY <2>3 DEF Matches
  <2>6. ASSUME NEW i \in VFs, GatewayIndex < i, i < env.numPairs,
               ~IsUplinkVF(env.mgmt, env.uplink, i)
        PROVE  \E p \in Pools : Matches(p, i)
    BY <2>1, <2>2, <2>6 DEF Matches
  <2> QED
    BY <2>3, <2>4, <2>5, <2>6
<1> QED
  BY <1>1, ProcessInvariance, PTL

-----------------------------------------------------------------------------
(* What ProcessInv leaves out of the types: the flags and the streams.      *)
Flags == cancelled \in BOOLEAN /\ failed \in BOOLEAN /\ stream \subseteq Pools

LEMMA StepFlags == Flags /\ [Next]_vars => Flags'
<1> SUFFICES ASSUME Flags, [Next]_vars PROVE Flags'
  OBVIOUS
<1> USE DEF Flags
<1>1. CASE Deploy \/ Start \/ Signal \/ Exit \/ Restart
  BY <1>1 DEF Deploy, DeployWith, Start, Signal, Exit, Restart
<1>2. ASSUME NEW p \in Pools, PoolStep(p) PROVE Flags'
  BY <1>2 DEF PoolStep, Discover, Adopt, Register, Fail, Drain, Return, StreamOpens, StreamCloses
<1>3. CASE UNCHANGED vars
  BY <1>3 DEF vars
<1> QED BY <1>1, <1>2, <1>3 DEF Next

(* The process's types, whatever the bounds; in particular what the         *)
(* normalised configuration gives the process are integers, although any of *)
(* its numbers may be omitted or negative.                                  *)
THEOREM ProcessTypeCorrect == Spec => []TypeOK
<1>1. Init => Flags
  BY DEF Init, Flags
<1>2. ProcessInv /\ Flags => TypeOK
  BY DEF ProcessInv, Deployable, Flags, TypeOK
<1> QED BY <1>1, <1>2, StepFlags, ProcessInvariance, PTL DEF Spec
=============================================================================
