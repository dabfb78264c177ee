--------------------------- MODULE KindDeployProofs ---------------------------
(***************************************************************************)
(* Proofs about KindDeploy: its type invariant, that the addresses of the  *)
(* gateway subnet stay distinct, that kills alone leak no routing rule,    *)
(* that a channel in service survives, and that what succeeds is whole.    *)
(***************************************************************************)
EXTENDS KindDeploy, SequenceTheorems, TLAPS

Assumptions ==
  PairsAssumption /\ VethAssumption /\ GatewayAssumption /\ KindAssumption

LEMMA AssumptionsHold == Assumptions
  BY PairsAssumption, VethAssumption, GatewayAssumption, KindAssumption DEF Assumptions

LEMMA Sizes ==
  /\ P \in Nat /\ P >= 1 /\ NumPairs \in Nat /\ NumPairs >= 1
  /\ MaxIP \in Nat /\ MaxIP >= 2 * P + 1 /\ MaxFaults \in Nat
  BY AssumptionsHold DEF Assumptions, PairsAssumption, VethAssumption, GatewayAssumption,
     KindAssumption

(* The loops over the clusters, and those over the pairs.                  *)
ClusterLoops == {"delete", "create", "nodes"}
PairLoops == {"attach", "add", "stage", "address"}
Rounds == IF DockerUser THEN 6 ELSE 4

(* The two orders of the rules, as concatenations whose parts are known.   *)
Names == {"rawGateway", "rawKind", "userToGateway", "userToKind", "toGateway", "toKind"}
UserRules == IF DockerUser THEN <<"userToGateway", "userToKind">> ELSE <<>>
FilterRules == <<"toGateway", "toKind">>

LEMMA Joined ==
  ASSUME NEW a \in Seq(Names), NEW b \in Seq(Names)
  PROVE  /\ a \o b \in Seq(Names) /\ Len(a \o b) = Len(a) + Len(b)
         /\ \A i \in 1..(Len(a) + Len(b)) :
               (a \o b)[i] = IF i <= Len(a) THEN a[i] ELSE b[i - Len(a)]
  BY ConcatProperties

LEMMA RuleParts ==
  /\ UserRules \in Seq(Names) /\ FilterRules \in Seq(Names) /\ RawRules \in Seq(Names)
  /\ Len(FilterRules) = 2 /\ Len(RawRules) = 2
  /\ Len(UserRules) = IF DockerUser THEN 2 ELSE 0
<1>1. Names = {"rawGateway", "rawKind", "userToGateway", "userToKind", "toGateway", "toKind"}
  BY DEF Names
<1>2. FilterRules \in Seq(Names) /\ Len(FilterRules) = 2
  BY <1>1 DEF FilterRules
<1>3. RawRules \in Seq(Names) /\ Len(RawRules) = 2
  BY <1>1 DEF RawRules
<1>4. CASE DockerUser
  BY <1>1, <1>2, <1>3, <1>4 DEF UserRules
<1>5. CASE ~DockerUser
  BY <1>2, <1>3, <1>5 DEF UserRules
<1> QED BY <1>4, <1>5

LEMMA ForwardLength ==
  ForwardRules \in Seq(Names) /\ Len(ForwardRules) = Rounds - 2
<1>1. ForwardRules = UserRules \o FilterRules
  BY DEF ForwardRules, UserRules, FilterRules
<1>2. UserRules \in Seq(Names) /\ FilterRules \in Seq(Names) /\ Len(FilterRules) = 2
  BY RuleParts
<1>3. /\ UserRules \o FilterRules \in Seq(Names)
      /\ Len(UserRules \o FilterRules) = Len(UserRules) + Len(FilterRules)
  BY ONLY <1>2, Joined
<1>4. Len(UserRules) = IF DockerUser THEN 2 ELSE 0
  BY RuleParts
<1>5. Len(UserRules) + 2 = Rounds - 2
  BY <1>4 DEF Rounds
<1> QED BY <1>1, <1>2, <1>3, <1>5

LEMMA Orders ==
  /\ Len(Order) = 2 /\ Order[1] = "host" /\ Order[2] = "dpu"
  /\ Len(SetupOrder) = Rounds /\ Rounds \in Nat /\ Rounds >= 1
  /\ \A r \in 1..Rounds : SetupOrder[r] \in RuleKinds
  /\ RuleKinds \subseteq {CleanupOrder[r] : r \in 1..Rounds}
  /\ RuleKinds = {SetupOrder[r] : r \in 1..Rounds}
<1>1. Len(Order) = 2 /\ Order[1] = "host" /\ Order[2] = "dpu"
  BY DEF Order
<1>2. Rounds \in Nat /\ Rounds >= 4
  BY DEF Rounds
<1>3. ForwardRules \in Seq(Names) /\ RawRules \in Seq(Names)
  BY ForwardLength, RuleParts
<1>4. Len(ForwardRules) = Rounds - 2
  BY ForwardLength
<1>5. Len(RawRules) = 2
  BY RuleParts
<1>6. 2 + (Rounds - 2) = Rounds /\ (Rounds - 2) + 2 = Rounds
  BY <1>2
<1>7. /\ Len(RawRules \o ForwardRules) = Rounds
      /\ \A i \in 1..Rounds : (RawRules \o ForwardRules)[i] =
            IF i <= 2 THEN RawRules[i] ELSE ForwardRules[i - 2]
  <2>1. /\ Len(RawRules \o ForwardRules) = Len(RawRules) + Len(ForwardRules)
        /\ \A i \in 1..(Len(RawRules) + Len(ForwardRules)) : (RawRules \o ForwardRules)[i] =
              IF i <= Len(RawRules) THEN RawRules[i] ELSE ForwardRules[i - Len(RawRules)]
    BY ONLY <1>3, Joined
  <2> QED BY ONLY <2>1, <1>4, <1>5, <1>6
<1>8. \A i \in 1..Rounds : (ForwardRules \o RawRules)[i] =
        IF i <= Rounds - 2 THEN ForwardRules[i] ELSE RawRules[i - (Rounds - 2)]
  <2>1. \A i \in 1..(Len(ForwardRules) + Len(RawRules)) : (ForwardRules \o RawRules)[i] =
          IF i <= Len(ForwardRules) THEN ForwardRules[i] ELSE RawRules[i - Len(ForwardRules)]
    BY ONLY <1>3, Joined
  <2> QED BY ONLY <2>1, <1>4, <1>5, <1>6
<1>9. Len(SetupOrder) = Rounds
  BY <1>7 DEF SetupOrder
<1>10. RuleKinds = {SetupOrder[r] : r \in 1..Rounds}
  BY <1>9 DEF RuleKinds
<1>11. ASSUME NEW k \in 1..Rounds
       PROVE  \E r \in 1..Rounds : SetupOrder[k] = CleanupOrder[r]
  <2>1. CASE k <= 2
    <3>1. k + (Rounds - 2) \in 1..Rounds /\ ~(k + (Rounds - 2) <= Rounds - 2)
          /\ (k + (Rounds - 2)) - (Rounds - 2) = k
      BY <1>2, <2>1
    <3>2. SetupOrder[k] = RawRules[k]
      BY <1>7, <2>1 DEF SetupOrder
    <3>3. CleanupOrder[k + (Rounds - 2)] = RawRules[k]
      BY <1>8, <3>1 DEF CleanupOrder
    <3> QED BY <3>1, <3>2, <3>3
  <2>2. CASE ~(k <= 2)
    <3>1. k - 2 \in 1..Rounds /\ k - 2 <= Rounds - 2
      BY <1>2, <2>2
    <3>2. SetupOrder[k] = ForwardRules[k - 2]
      BY <1>7, <2>2 DEF SetupOrder
    <3>3. CleanupOrder[k - 2] = ForwardRules[k - 2]
      BY <1>8, <3>1 DEF CleanupOrder
    <3> QED BY <3>1, <3>2, <3>3
  <2> QED BY <2>1, <2>2
<1>12. \A r \in 1..Rounds : SetupOrder[r] \in RuleKinds
  BY <1>10
<1>13. RuleKinds \subseteq {CleanupOrder[r] : r \in 1..Rounds}
  BY ONLY <1>10, <1>11
<1>14. Rounds >= 1
  BY <1>2
<1> QED BY ONLY <1>1, <1>2, <1>9, <1>10, <1>12, <1>13, <1>14

LEMMA StageList ==
  /\ Len(Stages) = 6
  /\ Stages[1] = [end |-> "host", from |-> "out",   to |-> "in"]
  /\ Stages[2] = [end |-> "dpu",  from |-> "out",   to |-> "in"]
  /\ Stages[3] = [end |-> "host", from |-> "in",    to |-> "named"]
  /\ Stages[4] = [end |-> "host", from |-> "named", to |-> "up"]
  /\ Stages[5] = [end |-> "dpu",  from |-> "in",    to |-> "named"]
  /\ Stages[6] = [end |-> "dpu",  from |-> "named", to |-> "up"]
  BY DEF Stages

(* What a stage does to the veth it picks.                                 *)
Moved(v, h, d) == [pair |-> v.pair, idx |-> v.idx, host |-> h, dpu |-> d]
LEMMA StageMoves ==
  ASSUME veth \subseteq Veth, NEW p \in Pair, NEW i \in Idx, NEW s \in 1..6,
         Stage(p, i, Stages[s])
  PROVE  \E v \in Channel(p, i), h \in Place, d \in Place :
           /\ veth' = (veth \ {v}) \cup {Moved(v, h, d)}
           /\ s \in {1, 3, 4} => /\ v.host = Stages[s].from /\ h = Stages[s].to /\ d = v.dpu
           /\ s \in {2, 5, 6} => /\ v.dpu = Stages[s].from /\ d = Stages[s].to /\ h = v.host
<1> PICK v \in Channel(p, i) : /\ v[Stages[s].end] = Stages[s].from
                               /\ veth' = (veth \ {v}) \cup {[v EXCEPT ![Stages[s].end] = Stages[s].to]}
  BY DEF Stage
<1>1. v \in Veth
  BY DEF Channel
<1>2. Stages[s].to \in Place
  BY StageList DEF Place
<1>3. CASE s \in {1, 3, 4}
  <2>1. Stages[s].end = "host"
    BY <1>3, StageList
  <2>2. [v EXCEPT ![Stages[s].end] = Stages[s].to] = Moved(v, Stages[s].to, v.dpu)
    <3>1. [v EXCEPT !.host = Stages[s].to] = Moved(v, Stages[s].to, v.dpu)
      BY <1>1, <1>2 DEF Veth, Moved
    <3>2. [v EXCEPT !["host"] = Stages[s].to] = [v EXCEPT !.host = Stages[s].to]
      OBVIOUS
    <3> QED BY <2>1, <3>1, <3>2
  <2>3. v.host = Stages[s].from /\ v.dpu \in Place
    BY <1>1, <2>1 DEF Veth
  <2> QED BY <1>2, <1>3, <2>2, <2>3
<1>4. CASE s \in {2, 5, 6}
  <2>1. Stages[s].end = "dpu"
    BY <1>4, StageList
  <2>2. [v EXCEPT ![Stages[s].end] = Stages[s].to] = Moved(v, v.host, Stages[s].to)
    <3>1. [v EXCEPT !.dpu = Stages[s].to] = Moved(v, v.host, Stages[s].to)
      BY <1>1, <1>2 DEF Veth, Moved
    <3>2. [v EXCEPT !["dpu"] = Stages[s].to] = [v EXCEPT !.dpu = Stages[s].to]
      OBVIOUS
    <3> QED BY <2>1, <3>1, <3>2
  <2>3. v.dpu = Stages[s].from /\ v.host \in Place
    BY <1>1, <2>1 DEF Veth
  <2> QED BY <1>2, <1>4, <2>2, <2>3
<1> QED BY <1>3, <1>4

-----------------------------------------------------------------------------
(* The type invariant, with where at, idx and stage can be at each step.   *)
Bounded ==
  /\ at \in Nat \ {0}
  /\ pc \in ClusterLoops => at <= 2
  /\ pc \in PairLoops => at <= P
  /\ pc \in {"unroute", "route"} => at <= Rounds
  /\ pc \notin ClusterLoops \cup PairLoops \cup {"unroute", "route"} => at = 1
  /\ idx \in Idx /\ stage \in 1..6
  /\ pc \notin {"add", "stage"} => idx = 0
  /\ pc # "stage" => stage = 1

TypedRun ==
  /\ pc \in Steps /\ flags \in RealFlags /\ result \in Results
  /\ errors \in BOOLEAN /\ faulted \in BOOLEAN /\ failedEver \in BOOLEAN
  /\ faults \in 0..MaxFaults
TypedHost ==
  /\ cluster \in [Cluster -> {"absent", "partial", "ready"}]
  /\ veth \subseteq Veth
  /\ gateway \in BOOLEAN
  /\ dpuIP \in [Pair -> 0..MaxIP] /\ hostIP \in [Pair -> 0..MaxIP]
  /\ rules \subseteq RuleKinds /\ oldRules \subseteq RuleKinds
TypedRegistry ==
  /\ reg \in {"absent", "stopped", "booting", "ready"}
  /\ onKind \in BOOLEAN /\ images \in BOOLEAN
  /\ hosts \in [Cluster -> {"none", "current", "stale"}]
Typed == TypedRun /\ TypedHost /\ TypedRegistry /\ Bounded

LEMMA Lengths ==
  /\ Len(Order) = 2 /\ Len(Stages) = 6 /\ Len(SetupOrder) = Rounds
  /\ Rounds \in Nat /\ Rounds >= 1 /\ P \in Nat /\ P >= 1
  /\ 0 \in Idx /\ Idx \subseteq Nat
<1>1. Len(Order) = 2 /\ Len(SetupOrder) = Rounds /\ Rounds \in Nat /\ Rounds >= 1
  BY Orders
<1>2. Len(Stages) = 6
  BY StageList
<1> QED BY <1>1, <1>2, Sizes DEF Idx

LEMMA BoundedStep == ASSUME Typed, [Next]_vars PROVE Bounded'
<1> USE Lengths DEF Bounded, ClusterLoops, PairLoops, Goto, Advance, End
<1>1. ASSUME NEW f \in RealFlags, Run(f) PROVE Bounded'
  BY <1>1 DEF Typed, Run
<1>2. CASE SetupRegistry
  BY <1>2 DEF Typed, SetupRegistry, StartRegistry, RegistryReady, PushImages
<1>3. CASE Cleanup
  BY <1>3 DEF Typed, Cleanup, Unroute, DeleteCluster, RemoveGateway, StopRegistry, AfterCleanup
<1>4. CASE DeployClusters
  BY <1>4 DEF Typed, DeployClusters, CreateCluster, ConnectRegistry, ConfigureNodes
<1>5. CASE SetupGateway
  BY <1>5 DEF Typed, SetupGateway, CleanupVeths, EnsureNetwork, AttachDPU, Route
<1>6. CASE CreateVeths
  <2>1. CASE AddVeth
    BY <1>6, <2>1 DEF Typed, AddVeth
  <2>2. CASE StageVeth
    <3>1. pc = "stage" /\ idx \in Nat /\ at <= P
      BY <2>2 DEF Typed, StageVeth
    <3>2. idx + 1 < NumPairs => idx + 1 \in Idx
      BY <3>1, Sizes DEF Idx
    <3>3. CASE AfterChannel
      BY <3>1, <3>2, <3>3 DEF Typed, AfterChannel
    <3>4. CASE stage < 6 /\ stage' = stage + 1 /\ UNCHANGED <<pc, at, idx, result, errors>>
      BY <3>1, <3>4 DEF Typed
    <3> QED BY <2>2, <3>1, <3>3, <3>4 DEF Typed, StageVeth
  <2>3. CASE AssignAddress
    BY <2>3 DEF Typed, AssignAddress
  <2> QED BY <1>6, <2>1, <2>2, <2>3 DEF CreateVeths
<1>7. CASE InstallCNI \/ CommandFails \/ RemoveGatewayFails \/ StopRegistryFails \/ Kill
  BY <1>7 DEF Typed, InstallCNI, CommandFails, RemoveGatewayFails, StopRegistryFails, Kill
<1>8. CASE UnrouteFails \/ DeleteFails \/ NodesSkipped \/ CleanupVethsFails
  BY <1>8 DEF Typed, UnrouteFails, DeleteFails, NodesSkipped, CleanupVethsFails, Collect
<1>9. CASE RegistryBoots \/ RegistryStops \/ UNCHANGED vars
  BY <1>9 DEF Typed, RegistryBoots, RegistryStops, vars
<1> QED
  BY <1>1, <1>2, <1>3, <1>4, <1>5, <1>6, <1>7, <1>8, <1>9 DEF Next, Process, Disturbance

LEMMA TypedRunStep == ASSUME Typed, [Next]_vars PROVE TypedRun'
<1> USE DEF Typed, TypedRun, Goto, Advance, End, Ran, own, Steps, Results
<1>a. MaxFaults \in Nat
  BY Sizes
<1>1. ASSUME NEW f \in RealFlags, Run(f) PROVE TypedRun'
  BY <1>1 DEF Run
<1>2. CASE SetupRegistry
  BY <1>2 DEF SetupRegistry, StartRegistry, RegistryReady, PushImages
<1>3. CASE Cleanup
  BY <1>3 DEF Cleanup, Unroute, DeleteCluster, RemoveGateway, StopRegistry, AfterCleanup
<1>4. CASE DeployClusters
  BY <1>4 DEF DeployClusters, CreateCluster, ConnectRegistry, ConfigureNodes
<1>5. CASE SetupGateway
  BY <1>5 DEF SetupGateway, CleanupVeths, EnsureNetwork, AttachDPU, Route
<1>6. CASE CreateVeths
  BY <1>6 DEF CreateVeths, AddVeth, StageVeth, AfterChannel, AssignAddress
<1>b. Failed => /\ faults' \in 0..MaxFaults /\ flags' = flags
                /\ faulted' \in BOOLEAN /\ failedEver' \in BOOLEAN
  BY <1>a DEF Failed
<1>7. CASE InstallCNI
  BY <1>7 DEF InstallCNI
<1>8. CASE CommandFails \/ RemoveGatewayFails \/ StopRegistryFails
  BY <1>8, <1>b DEF CommandFails, RemoveGatewayFails, StopRegistryFails
<1>9. CASE Kill
  <2>1. faults' \in 0..MaxFaults
    BY <1>9, <1>a DEF Kill
  <2> QED BY <1>9, <2>1 DEF Kill
<1>10. CASE UnrouteFails \/ DeleteFails
  BY <1>10, <1>b DEF UnrouteFails, DeleteFails, Collect
<1>11. CASE NodesSkipped \/ CleanupVethsFails
  BY <1>11, <1>b DEF NodesSkipped, CleanupVethsFails
<1>12. CASE RegistryBoots \/ RegistryStops \/ UNCHANGED vars
  BY <1>12, <1>a DEF RegistryBoots, RegistryStops, vars
<1> QED
  BY <1>1, <1>2, <1>3, <1>4, <1>5, <1>6, <1>7, <1>8, <1>9, <1>10, <1>11, <1>12
  DEF Next, Process, Disturbance

(* The cluster a loop over the clusters is at.                             *)
LEMMA OrderAt ==
  ASSUME Typed
  PROVE  pc \in ClusterLoops => Order[at] \in Cluster /\ (at = 1 \/ at = 2)
<1> SUFFICES ASSUME pc \in ClusterLoops PROVE Order[at] \in Cluster /\ (at = 1 \/ at = 2)
  OBVIOUS
<1>1. at \in Nat \ {0} /\ at <= 2
  BY DEF Typed, Bounded
<1>2. at = 1 \/ at = 2
  BY <1>1
<1> QED BY <1>2, Orders DEF Cluster

(* What the operations on the state of the host do to its types.           *)
LEMMA AddTypes ==
  ASSUME veth \subseteq Veth, NEW p \in Pair, NEW i \in Idx, Add(p, i)
  PROVE  veth' \subseteq Veth
  BY DEF Add, Veth, Place
LEMMA StageTypes ==
  ASSUME veth \subseteq Veth, NEW p \in Pair, NEW i \in Idx, NEW s \in 1..6,
         Stage(p, i, Stages[s])
  PROVE  veth' \subseteq Veth
<1>1. PICK v \in Channel(p, i), h \in Place, d \in Place :
        veth' = (veth \ {v}) \cup {Moved(v, h, d)}
  BY StageMoves
<1>2. Moved(v, h, d) \in Veth
  BY DEF Channel, Moved, Veth
<1> QED BY <1>1, <1>2

LEMMA TypedHostStep == ASSUME Typed, [Next]_vars PROVE TypedHost'
<1> USE DEF TypedHost, gatewayVars
<1>a. TypedHost
  BY DEF Typed
<1>b. pc \in PairLoops => at \in Pair
  BY Sizes DEF Typed, Bounded, Pair
<1>c. pc = "route" => SetupOrder[at] \in RuleKinds
  BY Orders DEF Typed, Bounded
<1>1. ASSUME NEW f \in RealFlags, Run(f) PROVE TypedHost'
  BY <1>1, <1>a DEF Run
<1>2. CASE SetupRegistry
  BY <1>2, <1>a DEF SetupRegistry, StartRegistry, RegistryReady, PushImages
<1>3. CASE Unroute
  BY <1>3, <1>a DEF Unroute, DeleteRule
<1>4. CASE DeleteCluster
  <2>1. Order[at] \in Cluster
    BY <1>4, OrderAt DEF DeleteCluster, ClusterLoops
  <2>2. cluster' \in [Cluster -> {"absent", "partial", "ready"}]
    BY <1>4, <1>a, <2>1 DEF DeleteCluster
  <2>3. 0 \in 0..MaxIP
    BY Sizes
  <2>4. CASE ClusterGone(Order[at])
    BY <1>a, <2>2, <2>3, <2>4 DEF ClusterGone, ContainersGone, DetachAll
  <2>5. CASE UNCHANGED <<veth, gatewayVars, registryVars>>
    BY <1>a, <2>2, <2>5
  <2> QED BY <1>4, <2>4, <2>5 DEF DeleteCluster
<1>5. CASE RemoveGateway
  BY <1>5, <1>a DEF RemoveGateway, RemoveNetwork
<1>6. CASE StopRegistry \/ ConnectRegistry \/ ConfigureNodes \/ InstallCNI
  BY <1>6, <1>a DEF StopRegistry, ConnectRegistry, ConfigureNodes, InstallCNI
<1>7. CASE CreateCluster
  BY <1>7, <1>a, OrderAt DEF CreateCluster, ClusterLoops
<1>8. CASE CleanupVeths \/ EnsureNetwork
  BY <1>8, <1>a DEF CleanupVeths, EnsureNetwork, CleanLinks, CreateNetwork
<1>9. CASE AttachDPU
  <2>1. at \in Pair
    BY <1>9, <1>b DEF AttachDPU, PairLoops
  <2>2. dpuIP' \in [Pair -> 0..MaxIP]
    <3>1. CASE UNCHANGED dpuIP
      BY <1>a, <3>1
    <3>2. CASE \E a \in 2..MaxIP : dpuIP' = [dpuIP EXCEPT ![at] = a]
      <4> PICK a \in 2..MaxIP : dpuIP' = [dpuIP EXCEPT ![at] = a]
        BY <3>2
      <4>1. a \in 0..MaxIP
        BY Sizes
      <4> QED BY <1>a, <4>1
    <3> QED BY <1>9, <3>1, <3>2 DEF AttachDPU, Attach
  <2> QED BY <1>9, <1>a, <2>2 DEF AttachDPU, Attach
<1>10. CASE Route
  BY <1>10, <1>a, <1>c DEF Route, EnsureRule
<1>11. CASE AddVeth
  <2>1. at \in Pair /\ idx \in Idx
    BY <1>11, <1>b DEF AddVeth, PairLoops, Typed, Bounded
  <2>2. veth' \subseteq Veth
    BY <1>11, <1>a, <2>1, AddTypes DEF AddVeth
  <2> QED BY <1>11, <1>a, <2>2 DEF AddVeth
<1>12. CASE StageVeth
  <2>1. at \in Pair /\ idx \in Idx /\ stage \in 1..6
    BY <1>12, <1>b DEF StageVeth, PairLoops, Typed, Bounded
  <2>2. veth' \subseteq Veth
    BY <1>12, <1>a, <2>1, StageTypes DEF StageVeth
  <2> QED BY <1>12, <1>a, <2>2 DEF StageVeth
<1>13. CASE AssignAddress
  <2>1. at \in Pair
    BY <1>13, <1>b DEF AssignAddress, PairLoops
  <2>2. PICK a \in FreeIPs(at) : hostIP' = [hostIP EXCEPT ![at] = a]
    BY <1>13 DEF AssignAddress, AssignHostIP
  <2>3. a \in 0..MaxIP
    BY <2>2, Sizes DEF FreeIPs
  <2> QED BY <1>13, <1>a, <2>1, <2>2, <2>3 DEF AssignAddress, AssignHostIP
<1>14. CASE CommandFails \/ UnrouteFails \/ RemoveGatewayFails \/ StopRegistryFails
  BY <1>14, <1>a DEF CommandFails, UnrouteFails, RemoveGatewayFails, StopRegistryFails
<1>15. CASE NodesSkipped \/ CleanupVethsFails \/ RegistryBoots \/ RegistryStops \/ UNCHANGED vars
  BY <1>15, <1>a DEF NodesSkipped, CleanupVethsFails, RegistryBoots, RegistryStops, vars
<1>16. CASE DeleteFails
  BY <1>16, <1>a, OrderAt DEF DeleteFails, ClusterLoops
<1>17. CASE Kill
  BY <1>17, <1>a, OrderAt DEF Kill, ClusterLoops
<1> QED
  BY <1>1, <1>2, <1>3, <1>4, <1>5, <1>6, <1>7, <1>8, <1>9, <1>10, <1>11, <1>12, <1>13, <1>14,
     <1>15, <1>16, <1>17
  DEF Next, Process, Disturbance, Cleanup, DeployClusters, SetupGateway, CreateVeths

LEMMA TypedRegistryStep == ASSUME Typed, [Next]_vars PROVE TypedRegistry'
<1> USE DEF Typed, TypedRegistry, registryVars, Aged
<1>1. ASSUME NEW f \in RealFlags, Run(f) PROVE TypedRegistry'
  BY <1>1 DEF Run
<1>2. CASE SetupRegistry
  BY <1>2 DEF SetupRegistry, StartRegistry, RunContainer, RegistryReady, PushImages, Push
<1>3. CASE DeleteCluster
  <2>1. CASE NodesGone(Order[at])
    BY <2>1 DEF NodesGone
  <2> QED BY <1>3, <2>1 DEF DeleteCluster, ClusterGone
<1>4. CASE Unroute \/ RemoveGateway \/ StopRegistry
  BY <1>4 DEF Unroute, RemoveGateway, StopRegistry, RemoveContainer
<1>5. CASE DeployClusters
  BY <1>5 DEF DeployClusters, CreateCluster, ConnectRegistry, Connect, ConfigureNodes,
     ConfigureNode
<1>6. CASE SetupGateway \/ CreateVeths \/ InstallCNI
  BY <1>6 DEF SetupGateway, CleanupVeths, EnsureNetwork, AttachDPU, Route, CreateVeths,
     AddVeth, StageVeth, AssignAddress, InstallCNI
<1>7. CASE CommandFails \/ UnrouteFails \/ DeleteFails \/ RemoveGatewayFails
  BY <1>7 DEF CommandFails, UnrouteFails, DeleteFails, RemoveGatewayFails
<1>8. CASE StopRegistryFails \/ NodesSkipped \/ CleanupVethsFails \/ Kill
  BY <1>8 DEF StopRegistryFails, NodesSkipped, CleanupVethsFails, Kill
<1>9. CASE RegistryBoots \/ RegistryStops \/ UNCHANGED vars
  BY <1>9 DEF RegistryBoots, BecomesReady, RegistryStops, Stops, vars
<1> QED
  BY <1>1, <1>2, <1>3, <1>4, <1>5, <1>6, <1>7, <1>8, <1>9
  DEF Next, Process, Disturbance, Cleanup

LEMMA TypedInit == Init => Typed
<1> SUFFICES ASSUME Init PROVE Typed
  OBVIOUS
<1>1. TypedRun
  <2>1. flags \in RealFlags
    BY DEF Init, RealFlags, Flags
  <2>2. faults \in 0..MaxFaults
    BY Sizes DEF Init
  <2> QED BY <2>1, <2>2 DEF Init, TypedRun, Steps, Results
<1>2. TypedHost
  <2>1. 0 \in 0..MaxIP
    BY Sizes
  <2> QED BY <2>1 DEF Init, TypedHost
<1>3. TypedRegistry
  BY DEF Init, TypedRegistry
<1>4. Bounded
  BY Lengths DEF Init, Bounded, ClusterLoops, PairLoops
<1> QED BY <1>1, <1>2, <1>3, <1>4 DEF Typed

LEMMA AlwaysTyped == Spec => []Typed
<1>1. Typed /\ [Next]_vars => Typed'
  BY BoundedStep, TypedRunStep, TypedHostStep, TypedRegistryStep DEF Typed
<1> QED BY <1>1, TypedInit, PTL DEF Spec

(* Every state of every sequence of runs has the declared types: no loop   *)
(* runs over its end, no address leaves the subnet.                        *)
THEOREM TypeCorrect == Spec => []TypeOK
<1>1. Typed => TypeOK
  <2> SUFFICES ASSUME Typed PROVE TypeOK
    OBVIOUS
  <2>1. at \in 1..(Len(SetupOrder) + P + 2)
    BY Lengths DEF Typed, Bounded, ClusterLoops, PairLoops
  <2>2. stage \in 1..Len(Stages) /\ idx \in Idx
    BY Lengths DEF Typed, Bounded
  <2> QED BY <2>1, <2>2 DEF Typed, TypedRun, TypedHost, TypedRegistry, TypeOK
<1> QED BY <1>1, AlwaysTyped, PTL

-----------------------------------------------------------------------------
(* What AddressesDistinct rests on: hosts have addresses in the order of   *)
(* the pairs, and a host that has one has its eth0-0, so that a run cannot *)
(* rename another channel to it and come to its address again; and all     *)
(* DPUs are attached before the first host gets one, and stay so.          *)
InService(p) == \E w \in Channel(p, 0) : w.host \in {"named", "up"}
Renamed == \/ pc = "address"
           \/ pc = "add" /\ idx # 0
           \/ pc = "stage" /\ (idx # 0 \/ stage > 3)

Addressed ==
  /\ AddressesDistinct
  /\ \A q \in Pair : hostIP[q] # 0 =>
        InService(q) /\ \A r \in Pair : r < q => hostIP[r] # 0
  /\ \A q \in Pair : hostIP[q] # 0 => \A d \in Pair : dpuIP[d] # 0
  /\ pc = "attach" => \A d \in Pair : d < at => dpuIP[d] # 0
  /\ pc \in {"route", "add", "stage", "address"} => \A d \in Pair : dpuIP[d] # 0
  /\ pc \in {"add", "stage", "address"} => \A q \in Pair : q < at => hostIP[q] # 0
  /\ Renamed => hostIP[at] = 0 /\ InService(at)

LEMMA ServiceKept ==
  ASSUME veth \subseteq Veth, NEW p \in Pair, NEW i \in Idx, NEW s \in 1..6,
         Stage(p, i, Stages[s]), NEW q \in Pair, InService(q)
  PROVE  InService(q)'
<1>1. PICK v \in Channel(p, i), h \in Place, d \in Place :
        /\ veth' = (veth \ {v}) \cup {Moved(v, h, d)}
        /\ s \in {1, 3, 4} => /\ v.host = Stages[s].from /\ h = Stages[s].to /\ d = v.dpu
        /\ s \in {2, 5, 6} => /\ v.dpu = Stages[s].from /\ d = Stages[s].to /\ h = v.host
  BY StageMoves
<1>2. PICK w \in veth : w.pair = q /\ w.idx = 0 /\ w.host \in {"named", "up"}
  BY DEF InService, Channel
<1>3. CASE w # v
  BY <1>1, <1>2, <1>3 DEF InService, Channel
<1>4. CASE w = v
  <2>1. h \in {"named", "up"}
    BY <1>1, <1>2, <1>4, StageList
  <2>2. Moved(v, h, d).host = h /\ Moved(v, h, d).pair = q /\ Moved(v, h, d).idx = 0
    BY <1>2, <1>4 DEF Moved
  <2> QED BY <1>1, <2>1, <2>2 DEF InService, Channel
<1> QED BY <1>3, <1>4

(* The third stage, which renames the host end of a pair's first channel.  *)
LEMMA FirstRenaming ==
  ASSUME veth \subseteq Veth, NEW p \in Pair, CanStage(p, 0, Stages[3]),
         Stage(p, 0, Stages[3]), 0 \in Idx
  PROVE  ~InService(p) /\ InService(p)'
<1>1. Stages[3].end = "host" /\ Stages[3].from = "in" /\ Stages[3].to = "named"
  BY StageList
<1>2. ~InService(p)
  <2> SUFFICES ASSUME NEW w \in Channel(p, 0), w.host \in {"named", "up"} PROVE FALSE
    BY DEF InService
  <2>1. PICK v \in Channel(p, 0) :
          /\ v.host = "in"
          /\ \A u \in Channel(p, 0) \ {v} : ~SameName(u.host, "named")
    BY <1>1 DEF CanStage
  <2>2. SameName(w.host, "named")
    BY DEF SameName
  <2> QED BY <2>1, <2>2
<1>3. PICK v \in Channel(p, 0), h \in Place, d \in Place :
        veth' = (veth \ {v}) \cup {Moved(v, h, d)} /\ h = Stages[3].to
  BY StageMoves
<1>4. /\ Moved(v, h, d).host = "named" /\ Moved(v, h, d).pair = p
      /\ Moved(v, h, d).idx = 0
  BY <1>1, <1>3 DEF Moved, Channel
<1>5. InService(p)'
  BY <1>3, <1>4 DEF InService, Channel
<1> QED BY <1>2, <1>5

LEMMA AddressedStep == ASSUME Typed, Addressed, [Next]_vars PROVE Addressed'
<1> USE DEF Addressed, AddressesDistinct, Renamed, Goto, Advance, End, gatewayVars
<1>a. /\ veth \subseteq Veth
      /\ dpuIP \in [Pair -> 0..MaxIP] /\ hostIP \in [Pair -> 0..MaxIP]
  BY DEF Typed, TypedHost
<1>b. pc \in PairLoops => at \in Pair
  BY Sizes DEF Typed, Bounded, Pair
<1>c. ASSUME NEW q \in Pair, UNCHANGED veth PROVE InService(q)' <=> InService(q)
  BY <1>c DEF InService, Channel
<1>d. /\ Bounded /\ Pair \subseteq Nat
      /\ \A q \in Pair : q <= P
  BY DEF Typed, Pair
<1>e. ASSUME UNCHANGED <<veth, dpuIP, hostIP>>, pc' \notin PairLoops \cup {"route"}
      PROVE  Addressed'
  BY <1>c, <1>e DEF PairLoops
<1>1. ASSUME NEW f \in RealFlags, Run(f) PROVE Addressed'
  BY <1>1, <1>e DEF Run, PairLoops
<1>2. CASE SetupRegistry
  BY <1>2, <1>e DEF SetupRegistry, StartRegistry, RegistryReady, PushImages, PairLoops
<1>3. CASE Unroute
  <2>1. pc' \in {"unroute", "delete"}
    BY <1>3 DEF Unroute
  <2>2. UNCHANGED <<veth, dpuIP, hostIP>>
    BY <1>3 DEF Unroute, DeleteRule
  <2> QED BY <2>1, <2>2, <1>e DEF PairLoops
<1>4. CASE DeleteCluster
  <2>1. pc' \in {"delete", "netrm"}
    BY <1>4 DEF DeleteCluster
  <2>2. CASE ClusterGone(Order[at])
    <3>1. \A q \in Pair : hostIP'[q] = 0
      BY <2>2 DEF ClusterGone, DetachAll
    <3> QED BY <2>1, <3>1
  <2>3. CASE UNCHANGED <<veth, gatewayVars, registryVars>>
    BY <2>1, <2>3, <1>e DEF PairLoops
  <2> QED BY <1>4, <2>2, <2>3 DEF DeleteCluster
<1>5. CASE RemoveGateway \/ StopRegistry \/ DeployClusters \/ InstallCNI
  <2>1. pc' \in {"idle", "regstop", "create", "cni", "connect", "nodes", "cleanlinks"}
    BY <1>5 DEF RemoveGateway, AfterCleanup, StopRegistry, DeployClusters, CreateCluster,
       ConnectRegistry, ConfigureNodes, InstallCNI
  <2>2. UNCHANGED <<veth, dpuIP, hostIP>>
    BY <1>5 DEF RemoveGateway, RemoveNetwork, StopRegistry, DeployClusters, CreateCluster,
       ConnectRegistry, ConfigureNodes, InstallCNI
  <2> QED BY <2>1, <2>2, <1>e DEF PairLoops
<1>6. CASE CleanupVeths
  <2>1. \A q \in Pair : InService(q) => InService(q)'
    BY <1>6 DEF CleanupVeths, CleanLinks, InService, Channel
  <2> QED BY <1>6, <2>1 DEF CleanupVeths
<1>7. CASE EnsureNetwork
  <2>1. \A d \in Pair : ~(d < 1)
    BY DEF Pair
  <2> QED BY <1>7, <1>c, <2>1 DEF EnsureNetwork, CreateNetwork
<1>8. CASE AttachDPU
  <2>1. at \in Pair /\ pc = "attach"
    BY <1>8, <1>b DEF AttachDPU, PairLoops
  <2>2. CASE UNCHANGED dpuIP /\ dpuIP[at] # 0
    <3>1. \A d \in Pair : d < at + 1 => dpuIP[d] # 0
      BY <1>d, <2>1, <2>2
    <3>2. ~(at < P) => \A d \in Pair : dpuIP[d] # 0
      BY <1>d, <2>1, <2>2, <3>1, Sizes
    <3> QED BY <1>8, <1>c, <2>1, <2>2, <3>1, <3>2 DEF AttachDPU, Attach
  <2>3. CASE dpuIP[at] = 0
    <3> PICK a \in 2..MaxIP : dpuIP' = [dpuIP EXCEPT ![at] = a]
      BY <1>8, <2>3 DEF AttachDPU, Attach
    <3>1. \A d \in Pair : d < at + 1 => dpuIP'[d] # 0
      BY <1>a, <1>d, <2>1
    <3>2. ~(at < P) => \A d \in Pair : dpuIP'[d] # 0
      BY <1>d, <2>1, <3>1, Sizes
    <3>3. \A q \in Pair : hostIP[q] = 0
      BY <2>1, <2>3
    <3>4. hostIP' = hostIP
      BY <1>8 DEF AttachDPU, Attach
    <3> QED BY <1>8, <2>1, <3>1, <3>2, <3>3, <3>4 DEF AttachDPU
  <2> QED BY <1>8, <2>2, <2>3 DEF AttachDPU, Attach
<1>9. CASE Route
  <2>1. UNCHANGED <<veth, dpuIP, hostIP>> /\ pc = "route"
    BY <1>9 DEF Route, EnsureRule
  <2>2. pc' = "route" \/ (pc' = "add" /\ at' = 1 /\ idx' = 0)
    BY <1>9, <1>d DEF Route, Bounded
  <2>3. \A d \in Pair : ~(d < 1)
    BY DEF Pair
  <2> QED BY <1>c, <2>1, <2>2, <2>3
<1>10. CASE AddVeth
  <2>1. at \in Pair /\ pc = "add" /\ stage = 1 /\ UNCHANGED gatewayVars
    BY <1>10, <1>b, <1>d DEF AddVeth, PairLoops, Bounded
  <2>2. \A q \in Pair : InService(q) => InService(q)'
    BY <1>10 DEF AddVeth, Add, InService, Channel
  <2> QED BY <1>10, <2>1, <2>2 DEF AddVeth
<1>11. CASE StageVeth
  <2>1. /\ at \in Pair /\ pc = "stage" /\ UNCHANGED gatewayVars
        /\ idx \in Idx /\ stage \in 1..6
    BY <1>11, <1>b, <1>d DEF StageVeth, PairLoops, Bounded
  <2>2. CASE Stage(at, idx, Stages[stage]) /\ CanStage(at, idx, Stages[stage])
    <3>1. \A q \in Pair : InService(q) => InService(q)'
      BY <1>a, <2>1, <2>2, ServiceKept
    <3>2. Renamed' => hostIP[at] = 0 /\ InService(at)' /\ at' = at
      <4>1. CASE Renamed
        BY <1>11, <2>1, <3>1, <4>1 DEF StageVeth, AfterChannel
      <4>2. CASE idx = 0 /\ stage = 3
        <5> PICK p \in Pair : p = at
          BY <2>1
        <5>1. CanStage(p, 0, Stages[3]) /\ Stage(p, 0, Stages[3]) /\ 0 \in Idx
          BY <2>1, <2>2, <4>2
        <5>2. ~InService(p) /\ InService(p)'
          BY <1>a, <5>1, FirstRenaming
        <5>3. hostIP[p] = 0
          BY <5>2
        <5>4. at' = p
          BY <1>11, <2>1, <2>2, <4>2, Lengths DEF StageVeth, AfterChannel
        <5> QED BY <5>2, <5>3, <5>4
      <4>3. CASE idx = 0 /\ stage < 3
        BY <1>11, <2>1, <4>3, Lengths DEF StageVeth, AfterChannel
      <4> QED BY <2>1, <4>1, <4>2, <4>3
    <3>3. pc' \in {"stage", "add", "address", "idle"} /\ (pc' # "idle" => at' = at)
      BY <1>11, <2>1 DEF StageVeth, AfterChannel
    <3> QED BY <2>1, <3>1, <3>2, <3>3
  <2>3. CASE End("failed") /\ UNCHANGED veth
    BY <2>1, <2>3, <1>e DEF PairLoops
  <2> QED BY <1>11, <2>2, <2>3 DEF StageVeth
<1>12. CASE AssignAddress
  <2>1. at \in Pair /\ pc = "address" /\ idx = 0 /\ UNCHANGED <<veth, dpuIP>>
    BY <1>12, <1>b, <1>d DEF AssignAddress, AssignHostIP, PairLoops, Bounded
  <2>2. PICK a \in FreeIPs(at) : hostIP' = [hostIP EXCEPT ![at] = a]
    BY <1>12 DEF AssignAddress, AssignHostIP
  <2>3. a # 0 /\ a # 1 /\ \A d \in Pair : a # dpuIP[d]
    BY <2>2 DEF FreeIPs, UsedIPs, UsedByRuntime
  <2>4. \A q \in Pair : q < at => hostIP[q] # a
    <3> SUFFICES ASSUME NEW q \in Pair, q < at PROVE hostIP[q] # a
      OBVIOUS
    <3>1. q \in 1..(at - 1)
      BY <2>1 DEF Pair
    <3> QED BY <2>2, <3>1 DEF FreeIPs, UsedIPs
  <2>5. \A q \in Pair : at < q => hostIP[q] = 0
    BY <2>1
  <2>6. \A q \in Pair : q # at => hostIP'[q] = hostIP[q] /\ hostIP[q] # a
    BY <1>a, <1>d, <2>1, <2>2, <2>3, <2>4, <2>5
  <2>7. hostIP'[at] = a
    BY <1>a, <2>1, <2>2
  <2>8. AddressesDistinct'
    BY <2>1, <2>3, <2>6, <2>7
  <2>9. \A q \in Pair : hostIP'[q] # 0 => q <= at
    BY <1>d, <2>1, <2>5, <2>6
  <2>10. \A q \in Pair : q <= at => hostIP'[q] # 0
    BY <1>d, <2>1, <2>3, <2>6, <2>7
  <2>11. \A q \in Pair : hostIP'[q] # 0 => InService(q)'
    BY <1>c, <2>1, <2>6
  <2>12. \/ pc' = "add" /\ at' = at + 1 /\ idx' = 0
         \/ pc' = "cni"
    BY <1>12, <2>1 DEF AssignAddress
  <2>13. \A q \in Pair : q < at + 1 => q <= at
    BY <1>d, <2>1
  <2>14. \A q, r \in Pair : q <= at /\ r < q => r <= at
    BY <1>d, <2>1
  <2> QED BY <2>1, <2>8, <2>9, <2>10, <2>11, <2>12, <2>13, <2>14
<1>13. CASE CommandFails \/ RemoveGatewayFails \/ StopRegistryFails \/ Kill
  BY <1>13, <1>e DEF CommandFails, RemoveGatewayFails, StopRegistryFails, Kill, PairLoops
<1>14. CASE UnrouteFails \/ DeleteFails \/ NodesSkipped \/ CleanupVethsFails
  BY <1>14, <1>e DEF UnrouteFails, DeleteFails, NodesSkipped, CleanupVethsFails, Collect,
     PairLoops
<1>15. CASE RegistryBoots \/ RegistryStops \/ UNCHANGED vars
  <2>1. UNCHANGED <<pc, at, idx, stage, veth, gatewayVars>>
    BY <1>15 DEF RegistryBoots, RegistryStops, vars
  <2>2. \A q \in Pair : InService(q) => InService(q)'
    BY <2>1, <1>c
  <2>3. Renamed' => hostIP'[at'] = 0 /\ InService(at)'
    <3> SUFFICES ASSUME Renamed PROVE hostIP[at] = 0 /\ InService(at)'
      BY <2>1
    <3> PICK p \in Pair : p = at
      BY <1>b DEF PairLoops
    <3> QED BY <2>1, <2>2
  <2> QED BY <2>1, <2>2, <2>3
<1> QED
  BY <1>1, <1>2, <1>3, <1>4, <1>5, <1>6, <1>7, <1>8, <1>9, <1>10, <1>11, <1>12, <1>13, <1>14,
     <1>15
  DEF Next, Process, Disturbance, Cleanup, SetupGateway, CreateVeths

(* No address of the gateway subnet is given twice, whatever the runs.     *)
THEOREM AddressesStayDistinct == Spec => []AddressesDistinct
<1>1. Init => Addressed
  BY DEF Init, Addressed, AddressesDistinct, Renamed
<1>2. Typed /\ Addressed /\ [Next]_vars => Addressed'
  BY AddressedStep
<1>3. Addressed => AddressesDistinct
  BY DEF Addressed
<1> QED BY <1>1, <1>2, <1>3, AlwaysTyped, PTL DEF Spec

-----------------------------------------------------------------------------
(* What KillsNeverLeak rests on: the clean-up removes the network after    *)
(* every rule has been deleted, and the set-up adds rules only while the   *)
(* network is there.                                                       *)
Swept ==
  /\ oldRules = {} /\ (~gateway => rules = {})
  /\ pc = "unroute" /\ gateway => \A j \in 1..Rounds : j < at => CleanupOrder[j] \notin rules
  /\ pc \in {"delete", "netrm"} => rules = {}
  /\ pc \in {"attach", "route"} => gateway
Tidy == ~failedEver => Swept

LEMMA TidyStep == ASSUME Typed, Tidy, [Next]_vars PROVE Tidy'
<1> USE DEF Tidy, Swept, Goto, Advance, End, gatewayVars, Ran, own
<1>a. Bounded /\ rules \subseteq RuleKinds
  BY DEF Typed, TypedHost
<1>1. ASSUME NEW f \in RealFlags, Run(f) PROVE Tidy'
  <2>1. \A j \in 1..Rounds : ~(j < 1)
    BY Lengths
  <2>2. at = 1
    BY <1>1, <1>a DEF Run, Bounded, ClusterLoops, PairLoops
  <2> QED BY <1>1, <2>1, <2>2 DEF Run
<1>2. CASE SetupRegistry
  <2>1. UNCHANGED <<gatewayVars, failedEver>>
    BY <1>2 DEF SetupRegistry, StartRegistry, RegistryReady, PushImages
  <2>2. \/ pc' \in {"push", "ready", "reuse", "create", "cni", "idle"}
        \/ pc' = "unroute" /\ at' = 1
    BY <1>2 DEF SetupRegistry, StartRegistry, RegistryReady, PushImages
  <2>3. \A j \in 1..Rounds : ~(j < 1)
    BY Lengths
  <2> QED BY <2>1, <2>2, <2>3
<1>3. CASE Unroute
  <2> SUFFICES ASSUME ~failedEver PROVE Swept'
    BY <1>3 DEF Unroute
  <2>1. CASE ~gateway
    BY <1>3, <2>1 DEF Unroute
  <2>2. CASE gateway
    <3>1. rules' = rules \ {CleanupOrder[at]} /\ gateway' /\ oldRules' = {}
      BY <1>3, <2>2 DEF Unroute, DeleteRule
    <3>2. at \in 1..Rounds
      BY <1>3, <1>a, Lengths DEF Unroute, Bounded
    <3>3. \A j \in 1..Rounds : j < at + 1 => CleanupOrder[j] \notin rules'
      BY <1>3, <2>2, <3>1, <3>2, Lengths DEF Unroute
    <3>4. CASE at < Rounds
      <4>1. pc' = "unroute" /\ at' = at + 1
        BY <1>3, <2>2, <3>4, Lengths DEF Unroute
      <4> QED BY <3>1, <3>3, <4>1
    <3>5. CASE ~(at < Rounds)
      <4>1. pc' = "delete"
        BY <1>3, <2>2, <3>5, Lengths DEF Unroute
      <4>2. \A j \in 1..Rounds : CleanupOrder[j] \notin rules'
        BY <3>2, <3>3, <3>5, Lengths
      <4>3. rules' = {}
        <5> SUFFICES ASSUME NEW x \in rules' PROVE FALSE
          OBVIOUS
        <5>1. x \in {CleanupOrder[r] : r \in 1..Rounds}
          BY <1>a, <3>1, Orders
        <5> QED BY <4>2, <5>1
      <4> QED BY <3>1, <4>1, <4>3
    <3> QED BY <3>4, <3>5
  <2> QED BY <2>1, <2>2
<1>4. CASE DeleteCluster
  <2>1. UNCHANGED <<gateway, rules, oldRules, failedEver>> /\ pc = "delete"
    BY <1>4 DEF DeleteCluster, ClusterGone, DetachAll
  <2>2. pc' \in {"delete", "netrm"}
    BY <1>4 DEF DeleteCluster
  <2> QED BY <2>1, <2>2
<1>5. CASE RemoveGateway
  BY <1>5 DEF RemoveGateway, RemoveNetwork, AfterCleanup
<1>6. CASE StopRegistry \/ DeployClusters \/ InstallCNI \/ CleanupVeths
  <2>1. UNCHANGED <<gatewayVars, failedEver>>
    BY <1>6 DEF StopRegistry, DeployClusters, CreateCluster, ConnectRegistry, ConfigureNodes,
       InstallCNI, CleanupVeths
  <2>2. pc' \in {"idle", "create", "connect", "nodes", "cleanlinks", "network"}
    BY <1>6 DEF StopRegistry, DeployClusters, CreateCluster, ConnectRegistry, ConfigureNodes,
       InstallCNI, CleanupVeths
  <2> QED BY <2>1, <2>2
<1>7. CASE EnsureNetwork \/ AttachDPU \/ Route
  BY <1>7 DEF EnsureNetwork, CreateNetwork, AttachDPU, Attach, Route, EnsureRule
<1>8. CASE CreateVeths
  <2>1. UNCHANGED <<gateway, rules, oldRules, failedEver>>
    BY <1>8 DEF CreateVeths, AddVeth, StageVeth, AssignAddress, AssignHostIP
  <2>2. pc' \in {"add", "stage", "address", "cni", "idle"}
    BY <1>8 DEF CreateVeths, AddVeth, StageVeth, AfterChannel, AssignAddress
  <2> QED BY <2>1, <2>2
<1>9. CASE CommandFails \/ UnrouteFails \/ DeleteFails \/ RemoveGatewayFails
  BY <1>9 DEF CommandFails, UnrouteFails, DeleteFails, RemoveGatewayFails, Failed
<1>10. CASE StopRegistryFails \/ NodesSkipped \/ CleanupVethsFails
  BY <1>10 DEF StopRegistryFails, NodesSkipped, CleanupVethsFails, Failed
<1>11. CASE Kill
  BY <1>11 DEF Kill
<1>12. CASE RegistryBoots \/ RegistryStops \/ UNCHANGED vars
  <2>1. UNCHANGED <<pc, at, gatewayVars, failedEver>>
    BY <1>12 DEF RegistryBoots, RegistryStops, vars
  <2> QED BY <2>1
<1> QED
  BY <1>1, <1>2, <1>3, <1>4, <1>5, <1>6, <1>7, <1>8, <1>9, <1>10, <1>11, <1>12
  DEF Next, Process, Disturbance, Cleanup, SetupGateway

(* Kills alone leak no routing rule: none is left for a bridge that is     *)
(* gone, as long as no command has failed.                                 *)
THEOREM KillsLeakNothing == Spec => []KillsNeverLeak
<1>1. Init => Tidy
  BY DEF Init, Tidy, Swept
<1>2. Typed /\ Tidy /\ [Next]_vars => Tidy'
  BY TidyStep
<1>3. Tidy => KillsNeverLeak
  BY DEF Tidy, Swept, KillsNeverLeak
<1> QED BY <1>1, <1>2, <1>3, AlwaysTyped, PTL DEF Spec

-----------------------------------------------------------------------------
(* A veth whose two ends are up is not what a command of the set-up takes: *)
(* not the one a stage moves on, nor one left in the root namespace.       *)
Survives ==
  \A v \in veth : v.host = "up" /\ v.dpu = "up" /\ v \notin veth' =>
     \E c \in Cluster : cluster[c] # "absent" /\ cluster'[c] = "absent"

LEMMA SurvivesStep == ASSUME Typed, [Next]_vars PROVE Survives
<1> USE DEF Survives, Goto, Advance, End
<1>a. veth \subseteq Veth
  BY DEF Typed, TypedHost
<1>1. ASSUME NEW f \in RealFlags, Run(f) PROVE Survives
  BY <1>1 DEF Run
<1>2. CASE SetupRegistry
  BY <1>2 DEF SetupRegistry, StartRegistry, RegistryReady, PushImages
<1>3. CASE DeleteCluster
  <2>1. Order[at] \in Cluster
    BY <1>3, OrderAt DEF DeleteCluster, ClusterLoops
  <2>2. cluster'[Order[at]] = "absent"
    BY <1>3, <2>1 DEF DeleteCluster, Typed, TypedHost
  <2> QED BY <1>3, <2>1, <2>2 DEF DeleteCluster
<1>4. CASE Unroute \/ RemoveGateway \/ StopRegistry
  BY <1>4 DEF Unroute, RemoveGateway, StopRegistry
<1>5. CASE DeployClusters
  BY <1>5 DEF DeployClusters, CreateCluster, ConnectRegistry, ConfigureNodes
<1>6. CASE SetupGateway
  BY <1>6 DEF SetupGateway, CleanupVeths, CleanLinks, EnsureNetwork, AttachDPU, Route
<1>7. CASE AddVeth \/ AssignAddress \/ InstallCNI
  BY <1>7 DEF AddVeth, Add, AssignAddress, InstallCNI
<1>8. CASE StageVeth
  <2>1. at \in Pair /\ idx \in Idx /\ stage \in 1..6
    BY <1>8, Sizes DEF StageVeth, PairLoops, Typed, Bounded, Pair
  <2>2. CASE Stage(at, idx, Stages[stage])
    <3>1. PICK v \in Channel(at, idx), h \in Place, d \in Place :
            /\ veth' = (veth \ {v}) \cup {Moved(v, h, d)}
            /\ stage \in {1, 3, 4} => v.host = Stages[stage].from
            /\ stage \in {2, 5, 6} => v.dpu = Stages[stage].from
      BY <1>a, <2>1, <2>2, StageMoves
    <3>2. v.host # "up" \/ v.dpu # "up"
      BY <2>1, <3>1, StageList
    <3> QED BY <3>1, <3>2
  <2>3. CASE UNCHANGED veth
    BY <2>3
  <2> QED BY <1>8, <2>2, <2>3 DEF StageVeth
<1>9. CASE CommandFails \/ UnrouteFails \/ DeleteFails \/ RemoveGatewayFails
  BY <1>9 DEF CommandFails, UnrouteFails, DeleteFails, RemoveGatewayFails
<1>10. CASE StopRegistryFails \/ NodesSkipped \/ CleanupVethsFails \/ Kill
  BY <1>10 DEF StopRegistryFails, NodesSkipped, CleanupVethsFails, Kill
<1>11. CASE RegistryBoots \/ RegistryStops \/ UNCHANGED vars
  BY <1>11 DEF RegistryBoots, RegistryStops, vars
<1> QED
  BY <1>1, <1>2, <1>3, <1>4, <1>5, <1>6, <1>7, <1>8, <1>9, <1>10, <1>11
  DEF Next, Process, Disturbance, Cleanup, CreateVeths

(* No step of any run takes a channel in service away but with a cluster.  *)
THEOREM LinksSurvive == Spec => EstablishedLinksSurvive
<1>1. Typed /\ [Next]_vars => [Survives]_vars
  BY SurvivesStep
<1>2. Spec => [][Survives]_vars
  BY <1>1, AlwaysTyped, PTL DEF Spec
<1> QED BY <1>2 DEF EstablishedLinksSurvive, Survives

-----------------------------------------------------------------------------
(* That a deployment which succeeds is whole, and that a run which cleans  *)
(* up first, and of which no command fails by itself, does not fail.       *)
Setup == {"cleanlinks", "network", "attach", "route", "add", "stage", "address"}
Finished == (pc = "cni" \/ result = "done") /\ flags.deploy /\ ~flags.only

(* Which runs come to which steps.                                         *)
Phased ==
  /\ pc # "idle" => result = "none"
  /\ pc = "regstop" => flags.only
  /\ pc \in {"start", "ready", "push", "reuse", "create", "connect", "nodes", "cni"} \cup Setup =>
       ~flags.only

(* The veth a set-up works on has both ends where the stages before left   *)
(* them, and no other of its channel has an end in the same place; so each *)
(* stage's command takes this one, and the last leaves the channel whole.  *)
HostAt(s) == IF s = 1 THEN "out" ELSE IF s <= 3 THEN "in" ELSE IF s = 4 THEN "named" ELSE "up"
DpuAt(s) == IF s <= 2 THEN "out" ELSE IF s <= 5 THEN "in" ELSE "named"
Alone(v) == \A w \in Channel(v.pair, v.idx) : w # v => w.host # v.host /\ w.dpu # v.dpu
InProgress(p, i, s) ==
  \E v \in Channel(p, i) : v.host = HostAt(s) /\ v.dpu = DpuAt(s) /\ Alone(v)

Wired ==
  /\ pc \in {"add", "stage"} => \A p \in Pair, i \in Idx :
        p < at \/ (p = at /\ i < idx) => Complete(p, i)
  /\ pc = "stage" => InProgress(at, idx, stage)
  /\ pc = "address" => \A p \in Pair, i \in Idx : p <= at => Complete(p, i)
  /\ Finished => \A p \in Pair, i \in Idx : Complete(p, i)

Routed ==
  /\ pc \in {"attach", "route", "add", "stage", "address"} => gateway
  /\ pc = "route" => \A j \in 1..Rounds : j < at => SetupOrder[j] \in rules
  /\ pc \in {"add", "stage", "address"} => rules = RuleKinds
  /\ Finished => /\ gateway /\ rules = RuleKinds
                 /\ \A d \in Pair : dpuIP[d] # 0 /\ hostIP[d] # 0

AfterPush == {"unroute", "delete", "netrm", "create", "connect", "nodes", "cni"} \cup Setup
Registered ==
  /\ pc = "push" => reg = "ready"
  /\ pc \in AfterPush /\ ~flags.only => images /\ reg = "ready"
  /\ pc \in {"nodes"} \cup Setup => onKind
  /\ pc = "nodes" /\ at = 2 /\ ~faulted => hosts["host"] = "current"
  /\ pc \in Setup /\ ~faulted => \A c \in Cluster : hosts[c] = "current"
  /\ Finished /\ ~faulted => RegistryReachable

(* A container that is not there holds no end of a veth, and no attachment.*)
Grounded ==
  /\ cluster["host"] = "absent" => \A v \in veth : v.host = "out"
  /\ cluster["dpu"] = "absent" => (\A v \in veth : v.dpu = "out") /\ \A d \in Pair : dpuIP[d] = 0
  /\ pc = "create" /\ at = 2 => cluster["host"] # "absent"
  /\ pc \in {"connect", "nodes"} \cup Setup => \A c \in Cluster : cluster[c] # "absent"

(* A clean run meets nothing of the runs before: the clusters are absent   *)
(* after their deletion and ready after their creation, and each channel   *)
(* is empty when its veth is added, and holds no other until it is done.   *)
Clean == flags.cleanup /\ flags.deploy /\ ~faulted
Single(p, i) == \A v, w \in Channel(p, i) : v = w
Fresh ==
  /\ ~errors /\ result # "failed"
  /\ pc = "delete" /\ at = 2 => cluster["host"] = "absent"
  /\ pc = "netrm" => \A c \in Cluster : cluster[c] = "absent"
  /\ pc = "create" => /\ cluster["host"] = IF at = 1 THEN "absent" ELSE "ready"
                      /\ cluster["dpu"] = "absent"
  /\ pc \in {"connect", "nodes", "cni"} \cup Setup => \A c \in Cluster : cluster[c] = "ready"
  /\ pc \in {"create", "connect", "nodes", "cleanlinks"} => \A v \in veth : v.host = "out"
  /\ pc \in {"network", "attach", "route"} => veth = {}
  /\ pc \in {"add", "stage"} => \A p \in Pair, i \in Idx :
        p > at \/ (p = at /\ i > idx) => Channel(p, i) = {}
  /\ pc = "add" => Channel(at, idx) = {}
  /\ pc = "stage" => Single(at, idx)
  /\ pc = "address" => \A p \in Pair, i \in Idx : p > at => Channel(p, i) = {}
Unspoilt == (errors => faulted /\ pc # "idle") /\ (Clean => Fresh)

-----------------------------------------------------------------------------
LEMMA PhasedStep == ASSUME Typed, Phased, [Next]_vars PROVE Phased'
<1> USE DEF Phased, Setup, Goto, Advance, End, Ran, own
<1>a. flags.only => flags.cleanup /\ flags.deploy
  BY DEF Typed, TypedRun, RealFlags
<1>1. ASSUME NEW f \in RealFlags, Run(f) PROVE Phased'
  BY <1>1 DEF Run
<1>2. CASE SetupRegistry
  BY <1>2 DEF SetupRegistry, StartRegistry, RegistryReady, PushImages
<1>3. CASE Cleanup
  BY <1>3 DEF Cleanup, Unroute, DeleteCluster, RemoveGateway, AfterCleanup, StopRegistry
<1>4. CASE DeployClusters
  BY <1>4 DEF DeployClusters, CreateCluster, ConnectRegistry, ConfigureNodes
<1>5. CASE SetupGateway
  BY <1>5 DEF SetupGateway, CleanupVeths, EnsureNetwork, AttachDPU, Route
<1>6. CASE CreateVeths \/ InstallCNI
  BY <1>6 DEF CreateVeths, AddVeth, StageVeth, AfterChannel, AssignAddress, InstallCNI
<1>7. CASE CommandFails \/ RemoveGatewayFails \/ StopRegistryFails \/ Kill
  BY <1>7 DEF CommandFails, RemoveGatewayFails, StopRegistryFails, Kill, Failed
<1>8. CASE UnrouteFails \/ DeleteFails \/ NodesSkipped \/ CleanupVethsFails
  BY <1>8 DEF UnrouteFails, DeleteFails, NodesSkipped, CleanupVethsFails, Collect, Failed
<1>9. CASE RegistryBoots \/ RegistryStops \/ UNCHANGED vars
  BY <1>9 DEF RegistryBoots, RegistryStops, vars
<1> QED
  BY <1>1, <1>2, <1>3, <1>4, <1>5, <1>6, <1>7, <1>8, <1>9 DEF Next, Process, Disturbance

LEMMA AlwaysPhased == Spec => [](Typed /\ Phased)
<1>1. Init => Phased
  BY DEF Init, Phased, Setup
<1>2. Typed /\ Phased /\ [Next]_vars => Phased'
  BY PhasedStep
<1> QED BY <1>1, <1>2, AlwaysTyped, PTL DEF Spec

-----------------------------------------------------------------------------
(* A channel that is complete stays so in a step that takes no cluster.    *)
LEMMA CompleteKept ==
  ASSUME Typed, [Next]_vars, UNCHANGED cluster, NEW p \in Pair, NEW i \in Idx,
         Complete(p, i)
  PROVE  Complete(p, i)'
<1>1. Survives
  BY SurvivesStep
<1>2. PICK v \in veth : v.pair = p /\ v.idx = i /\ v.host = "up" /\ v.dpu = "up"
  BY DEF Complete, Channel
<1>3. v \in veth'
  BY <1>1, <1>2 DEF Survives
<1> QED BY <1>2, <1>3 DEF Complete, Channel

(* A channel's veth as it is added.                                        *)
LEMMA AddStarts ==
  ASSUME veth \subseteq Veth, NEW p \in Pair, NEW i \in Idx, CanAdd(p, i), Add(p, i)
  PROVE  InProgress(p, i, 1)'
<1> DEFINE n == [pair |-> p, idx |-> i, host |-> "out", dpu |-> "out"]
<1>1. n \in Channel(p, i)' /\ n.pair = p /\ n.idx = i /\ n.host = "out" /\ n.dpu = "out"
  BY DEF Add, Channel
<1>2. ASSUME NEW w \in Channel(p, i)', w # n PROVE w.host # "out" /\ w.dpu # "out"
  <2>1. w \in Channel(p, i)
    BY <1>2 DEF Add, Channel
  <2> QED BY <2>1 DEF CanAdd
<1>3. HostAt(1) = "out" /\ DpuAt(1) = "out"
  BY DEF HostAt, DpuAt
<1>4. Alone(n)'
  BY <1>1, <1>2 DEF Alone
<1> QED BY <1>1, <1>3, <1>4 DEF InProgress

(* A stage takes the channel's veth in progress a step on.                 *)
LEMMA StageProgress ==
  ASSUME veth \subseteq Veth, NEW p \in Pair, NEW i \in Idx, NEW s \in 1..6,
         InProgress(p, i, s), CanStage(p, i, Stages[s]), Stage(p, i, Stages[s])
  PROVE  /\ s < 6 => InProgress(p, i, s + 1)'
         /\ s = 6 => Complete(p, i)'
<1>1. PICK v \in Channel(p, i) : v.host = HostAt(s) /\ v.dpu = DpuAt(s) /\ Alone(v)
  BY DEF InProgress
<1>2. PICK u \in Channel(p, i), h \in Place, d \in Place :
        /\ veth' = (veth \ {u}) \cup {Moved(u, h, d)}
        /\ s \in {1, 3, 4} => /\ u.host = Stages[s].from /\ h = Stages[s].to /\ d = u.dpu
        /\ s \in {2, 5, 6} => /\ u.dpu = Stages[s].from /\ d = Stages[s].to /\ h = u.host
  BY StageMoves
<1>3. /\ s \in {1, 3, 4} => Stages[s].end = "host" /\ Stages[s].from = HostAt(s)
                             /\ DpuAt(s + 1) = DpuAt(s)
      /\ s \in {3, 1} => Stages[s].to = HostAt(s + 1)
      /\ s = 4 => Stages[s].to = "up"
      /\ s \in {2, 5, 6} => Stages[s].end = "dpu" /\ Stages[s].from = DpuAt(s)
                             /\ HostAt(s + 1) = HostAt(s)
      /\ s \in {2, 5} => Stages[s].to = DpuAt(s + 1)
      /\ s = 6 => Stages[s].to = "up" /\ HostAt(s) = "up"
      /\ s = 4 => HostAt(s + 1) = "up"
  BY StageList DEF HostAt, DpuAt
<1>4. v.pair = p /\ v.idx = i /\ Channel(v.pair, v.idx) = Channel(p, i)
  BY <1>1 DEF Channel
<1>5. u = v
  BY <1>1, <1>2, <1>3, <1>4 DEF Alone
<1>6. \A w \in Channel(p, i) : w # v =>
        /\ s \in {1, 3, 4} => w.host # Stages[s].to
        /\ s \in {2, 5, 6} => w.dpu # Stages[s].to
  <2>1. PICK x \in Channel(p, i) :
          /\ x[Stages[s].end] = Stages[s].from
          /\ \A w \in Channel(p, i) \ {x} : ~SameName(w[Stages[s].end], Stages[s].to)
    BY DEF CanStage
  <2>2. x = v
    BY <1>1, <1>3, <1>4, <2>1 DEF Alone
  <2>3. CASE s \in {1, 3, 4}
    BY <1>3, <2>1, <2>2, <2>3 DEF SameName
  <2>4. CASE s \in {2, 5, 6}
    BY <1>3, <2>1, <2>2, <2>4 DEF SameName
  <2> QED BY <2>3, <2>4
<1> DEFINE m == Moved(v, h, d)
<1>7. m.pair = p /\ m.idx = i /\ m.host = h /\ m.dpu = d
  BY <1>4 DEF Moved
<1>8. m \in Channel(p, i)'
  BY <1>2, <1>5, <1>7 DEF Channel
<1> HIDE DEF m
<1>9. \A w \in Channel(p, i)' : w # m => w \in Channel(p, i) /\ w # v
  BY <1>2, <1>5 DEF Channel, m
<1>10. \A w \in Channel(p, i)' : w # m => w.host # h /\ w.dpu # d
  <2> SUFFICES ASSUME NEW w \in Channel(p, i)', w # m PROVE w.host # h /\ w.dpu # d
    OBVIOUS
  <2>1. w \in Channel(p, i) /\ w # v
    BY <1>9
  <2>2. w.host # v.host /\ w.dpu # v.dpu
    BY <1>1, <1>4, <2>1 DEF Alone
  <2>3. CASE s \in {1, 3, 4}
    BY <1>2, <1>5, <1>6, <2>1, <2>2, <2>3
  <2>4. CASE s \in {2, 5, 6}
    BY <1>2, <1>5, <1>6, <2>1, <2>2, <2>4
  <2> QED BY <2>3, <2>4
<1>11. Alone(m)'
  BY <1>7, <1>10 DEF Alone
<1>12. CASE s < 6
  <2>1. h = HostAt(s + 1) /\ d = DpuAt(s + 1)
    BY <1>1, <1>2, <1>3, <1>5, <1>12
  <2> QED BY <1>7, <1>8, <1>11, <1>12, <2>1 DEF InProgress
<1>13. CASE s = 6
  <2>1. h = "up" /\ d = "up"
    BY <1>1, <1>2, <1>3, <1>5, <1>13
  <2> QED BY <1>7, <1>8, <1>13, <2>1 DEF Complete
<1> QED BY <1>12, <1>13

LEMMA WiredStep == ASSUME Typed, Phased, Wired, [Next]_vars PROVE Wired'
<1> USE DEF Wired, Finished, Goto, Advance, End, Ran, own
<1>a. /\ Bounded /\ veth \subseteq Veth /\ Pair \subseteq Nat /\ \A q \in Pair : q <= P
      /\ P \in Nat /\ Idx \subseteq Nat
  BY Sizes DEF Typed, TypedHost, Pair, Idx
<1>b. pc \in PairLoops => at \in Pair
  BY Sizes DEF Typed, Bounded, Pair
<1>c. pc # "idle" => result = "none"
  BY DEF Phased
<1>d. ASSUME NEW p \in Pair, NEW i \in Idx, UNCHANGED veth PROVE Complete(p, i)' <=> Complete(p, i)
  BY <1>d DEF Complete, Channel
<1>e. ASSUME pc' \notin {"add", "stage", "address", "cni"}, result' # "done" PROVE Wired'
  BY <1>e
<1>1. ASSUME NEW f \in RealFlags, Run(f) PROVE Wired'
  BY <1>1, <1>e DEF Run
<1>2. CASE SetupRegistry
  BY <1>2, <1>c DEF SetupRegistry, StartRegistry, RegistryReady, PushImages
<1>3. CASE Cleanup
  BY <1>3, <1>c DEF Cleanup, Unroute, DeleteCluster, RemoveGateway, AfterCleanup, StopRegistry,
     Phased
<1>4. CASE DeployClusters
  BY <1>4, <1>c, <1>e DEF DeployClusters, CreateCluster, ConnectRegistry, ConfigureNodes
<1>5. CASE CleanupVeths \/ EnsureNetwork \/ AttachDPU
  BY <1>5, <1>c, <1>e DEF CleanupVeths, EnsureNetwork, AttachDPU
<1>6. CASE Route
  <2>1. idx = 0 /\ pc = "route"
    BY <1>6, <1>a DEF Route, Bounded
  <2>2. pc' = "route" \/ (pc' = "add" /\ at' = 1 /\ idx' = 0)
    BY <1>6, <2>1 DEF Route
  <2>3. \A p \in Pair, i \in Idx : ~(p < 1) /\ ~(i < 0)
    BY DEF Pair, Idx
  <2> QED BY <1>6, <1>c, <2>1, <2>2, <2>3 DEF Route
<1>7. CASE AddVeth
  <2>1. at \in Pair /\ idx \in Idx /\ stage = 1 /\ pc = "add" /\ result = "none"
    BY <1>7, <1>a, <1>b, <1>c DEF AddVeth, PairLoops, Bounded
  <2>2. CASE End("failed")
    BY <2>2, <1>e
  <2>3. CASE CanAdd(at, idx) /\ Add(at, idx) /\ pc' = "stage"
             /\ UNCHANGED <<at, idx, stage, result, errors>>
    <3> PICK p \in Pair, i \in Idx : p = at /\ i = idx
      BY <2>1
    <3>1. InProgress(p, i, 1)'
      BY <1>a, <2>3, AddStarts
    <3>2. UNCHANGED cluster
      BY <1>7 DEF AddVeth
    <3>3. \A q \in Pair, k \in Idx : Complete(q, k) => Complete(q, k)'
      BY <3>2, CompleteKept
    <3>4. at' = p /\ idx' = i /\ stage' = 1
      BY <2>1, <2>3
    <3> QED BY <2>1, <2>3, <3>1, <3>3, <3>4
  <2> QED BY <1>7, <2>2, <2>3 DEF AddVeth
<1>8. CASE StageVeth
  <2>1. at \in Pair /\ idx \in Idx /\ stage \in 1..6 /\ pc = "stage" /\ result = "none"
    BY <1>8, <1>a, <1>b, <1>c DEF StageVeth, PairLoops, Bounded
  <2>2. CASE End("failed")
    BY <2>2, <1>e
  <2>3. CASE CanStage(at, idx, Stages[stage]) /\ Stage(at, idx, Stages[stage])
    <3> PICK p \in Pair, i \in Idx, s \in 1..6 : p = at /\ i = idx /\ s = stage
      BY <2>1
    <3>1. /\ s < 6 => InProgress(p, i, s + 1)'
          /\ s = 6 => Complete(p, i)'
      BY <1>a, <2>1, <2>3, StageProgress
    <3>2. UNCHANGED cluster
      BY <1>8 DEF StageVeth
    <3>3. \A q \in Pair, k \in Idx : Complete(q, k) => Complete(q, k)'
      BY <3>2, CompleteKept
    <3>4. \A q \in Pair, k \in Idx : q < p \/ (q = p /\ k < i) => Complete(q, k)'
      BY <2>1, <3>3
    <3>5. CASE s < 6
      <4>1. CanStage(at, idx, Stages[stage]) /\ stage < Len(Stages)
        BY <2>3, <3>5, Lengths
      <4>2. pc' = "stage" /\ at' = p /\ idx' = i /\ stage' = s + 1 /\ result' = "none"
        BY <1>8, <2>1, <4>1 DEF StageVeth
      <4> QED BY <3>1, <3>4, <3>5, <4>2
    <3>6. CASE s = 6
      <4>1. CanStage(at, idx, Stages[stage]) /\ ~(stage < Len(Stages))
        BY <2>3, <3>6, Lengths
      <4>2. AfterChannel
        BY <1>8, <4>1 DEF StageVeth
      <4>3. \A q \in Pair, k \in Idx : q < p \/ (q = p /\ k <= i) => Complete(q, k)'
        BY <1>a, <3>1, <3>4, <3>6
      <4>4. CASE i + 1 < NumPairs
        <5>1. pc' = "add" /\ at' = p /\ idx' = i + 1 /\ result' = "none"
          BY <2>1, <4>2, <4>4 DEF AfterChannel
        <5>2. \A k \in Idx : k < i + 1 => k <= i
          BY <1>a
        <5> QED BY <4>3, <5>1, <5>2
      <4>5. CASE ~(i + 1 < NumPairs)
        <5>1. pc' = "address" /\ at' = p /\ result' = "none"
          BY <2>1, <4>2, <4>5 DEF AfterChannel
        <5>2. \A k \in Idx : k <= i
          BY <4>5, Sizes DEF Idx
        <5>3. \A q \in Pair : q <= p => q < p \/ q = p
          BY <1>a
        <5> QED BY <4>3, <5>1, <5>2, <5>3
      <4> QED BY <4>4, <4>5
    <3> QED BY <3>5, <3>6
  <2> QED BY <1>8, <2>2, <2>3 DEF StageVeth
<1>9. CASE AssignAddress
  <2>1. /\ at \in Pair /\ pc = "address" /\ idx = 0 /\ UNCHANGED veth /\ result' = "none"
    BY <1>9, <1>a, <1>b, <1>c DEF AssignAddress, PairLoops, Bounded
  <2>2. \A p \in Pair, i \in Idx : p <= at => Complete(p, i)'
    BY <1>d, <2>1
  <2>3. CASE at < P
    <3>1. pc' = "add" /\ at' = at + 1 /\ idx' = 0
      BY <1>9, <2>1, <2>3 DEF AssignAddress
    <3>2. \A p \in Pair, i \in Idx : p < at + 1 \/ (p = at + 1 /\ i < 0) => p <= at
      BY <1>a, <2>1
    <3> QED BY <2>1, <2>2, <3>1, <3>2
  <2>4. CASE ~(at < P)
    <3>1. pc' = "cni"
      BY <1>9, <2>4 DEF AssignAddress
    <3>2. \A p \in Pair : p <= at
      BY <1>a, <2>1, <2>4
    <3> QED BY <2>1, <2>2, <3>1, <3>2
  <2> QED BY <2>3, <2>4
<1>10. CASE InstallCNI
  <2>1. UNCHANGED <<veth, flags>> /\ pc = "cni" /\ pc' = "idle"
    BY <1>10 DEF InstallCNI
  <2> QED BY <1>d, <2>1
<1>11. CASE CommandFails \/ RemoveGatewayFails \/ Kill
  BY <1>11, <1>e DEF CommandFails, RemoveGatewayFails, Kill
<1>12. CASE StopRegistryFails
  BY <1>12 DEF StopRegistryFails, Failed, Phased
<1>13. CASE UnrouteFails \/ DeleteFails \/ NodesSkipped \/ CleanupVethsFails
  BY <1>13, <1>c, <1>e DEF UnrouteFails, DeleteFails, NodesSkipped, CleanupVethsFails, Collect
<1>14. CASE RegistryBoots \/ RegistryStops \/ UNCHANGED vars
  <2>1. UNCHANGED <<pc, at, idx, stage, flags, result, veth>>
    BY <1>14 DEF RegistryBoots, RegistryStops, vars
  <2>2. pc = "stage" => InProgress(at, idx, stage)'
    BY <2>1 DEF InProgress, Alone, Channel
  <2> QED BY <1>d, <2>1, <2>2
<1> QED
  BY <1>1, <1>2, <1>3, <1>4, <1>5, <1>6, <1>7, <1>8, <1>9, <1>10, <1>11, <1>12, <1>13, <1>14
  DEF Next, Process, Disturbance, SetupGateway, CreateVeths

LEMMA AlwaysWired == Spec => []Wired
<1>1. Init => Wired
  BY DEF Init, Wired, Finished
<1>2. Typed /\ Phased /\ Wired /\ [Next]_vars => Wired'
  BY WiredStep
<1> QED BY <1>1, <1>2, AlwaysPhased, PTL DEF Spec

-----------------------------------------------------------------------------
LEMMA RoutedStep == ASSUME Typed, Phased, Addressed, Routed, [Next]_vars PROVE Routed'
<1> USE DEF Routed, Finished, Goto, Advance, End, Ran, own, gatewayVars
<1>a. /\ Bounded /\ rules \subseteq RuleKinds /\ Pair \subseteq Nat /\ P \in Nat
      /\ \A q \in Pair : q <= P
      /\ dpuIP \in [Pair -> 0..MaxIP] /\ hostIP \in [Pair -> 0..MaxIP]
  BY Sizes DEF Typed, TypedHost, Pair
<1>b. pc \in PairLoops => at \in Pair
  BY Sizes DEF Typed, Bounded, Pair
<1>c. pc # "idle" => result = "none"
  BY DEF Phased
<1>e. ASSUME pc' \notin {"attach", "route", "add", "stage", "address", "cni"}, result' # "done"
      PROVE  Routed'
  BY <1>e
<1>1. ASSUME NEW f \in RealFlags, Run(f) PROVE Routed'
  BY <1>1, <1>e DEF Run
<1>2. CASE SetupRegistry
  BY <1>2, <1>c DEF SetupRegistry, StartRegistry, RegistryReady, PushImages
<1>3. CASE Cleanup
  BY <1>3, <1>c DEF Cleanup, Unroute, DeleteCluster, RemoveGateway, AfterCleanup, StopRegistry,
     Phased
<1>4. CASE DeployClusters \/ CleanupVeths
  BY <1>4, <1>c, <1>e DEF DeployClusters, CreateCluster, ConnectRegistry, ConfigureNodes,
     CleanupVeths
<1>5. CASE EnsureNetwork
  BY <1>5, <1>c DEF EnsureNetwork, CreateNetwork
<1>6. CASE AttachDPU
  <2>1. \A j \in 1..Rounds : ~(j < 1)
    BY Lengths
  <2> QED BY <1>6, <1>c, <2>1 DEF AttachDPU, Attach
<1>7. CASE Route
  <2>1. at \in 1..Rounds /\ pc = "route" /\ SetupOrder[at] \in RuleKinds
    BY <1>7, <1>a, Orders DEF Route, Bounded
  <2>2. SetupOrder[at] \in rules' /\ rules \subseteq rules' /\ rules' \subseteq RuleKinds
    BY <1>7, <1>a, <2>1 DEF Route, EnsureRule, RuleExists
  <2>3. \A j \in 1..Rounds : j < at + 1 => SetupOrder[j] \in rules'
    BY <2>1, <2>2, Lengths
  <2>4. gateway' /\ result' = "none"
    BY <1>7, <1>c, <2>1 DEF Route, EnsureRule
  <2>5. CASE at < Rounds
    <3>1. pc' = "route" /\ at' = at + 1
      BY <1>7, <2>1, <2>5, Lengths DEF Route
    <3> QED BY <2>3, <2>4, <3>1
  <2>6. CASE ~(at < Rounds)
    <3>1. pc' = "add"
      BY <1>7, <2>6, Lengths DEF Route
    <3>2. \A j \in 1..Rounds : SetupOrder[j] \in rules'
      BY <2>1, <2>3, <2>6, Lengths
    <3>3. RuleKinds \subseteq rules'
      BY <3>2, Orders
    <3> QED BY <2>2, <2>4, <3>1, <3>3
  <2> QED BY <2>5, <2>6
<1>8. CASE AddVeth \/ StageVeth
  BY <1>8, <1>c DEF AddVeth, StageVeth, AfterChannel
<1>9. CASE AssignAddress
  <2>1. /\ at \in Pair /\ pc = "address" /\ result' = "none"
        /\ UNCHANGED <<gateway, rules, dpuIP>> /\ gateway /\ rules = RuleKinds
    BY <1>9, <1>b, <1>c DEF AssignAddress, AssignHostIP, PairLoops
  <2>2. CASE at < P
    BY <1>9, <2>1, <2>2 DEF AssignAddress
  <2>3. CASE ~(at < P)
    <3>1. PICK a \in FreeIPs(at) : hostIP' = [hostIP EXCEPT ![at] = a]
      BY <1>9 DEF AssignAddress, AssignHostIP
    <3>2. a # 0
      BY <3>1 DEF FreeIPs
    <3>3. \A q \in Pair : q # at => hostIP'[q] # 0
      BY <1>a, <2>1, <2>3, <3>1 DEF Addressed
    <3>4. \A q \in Pair : dpuIP'[q] # 0 /\ hostIP'[q] # 0
      BY <1>a, <2>1, <3>1, <3>2, <3>3 DEF Addressed
    <3>5. pc' = "cni"
      BY <1>9, <2>3 DEF AssignAddress
    <3> QED BY <2>1, <3>4, <3>5
  <2> QED BY <2>2, <2>3
<1>10. CASE InstallCNI
  BY <1>10 DEF InstallCNI
<1>11. CASE CommandFails \/ RemoveGatewayFails \/ Kill
  BY <1>11, <1>e DEF CommandFails, RemoveGatewayFails, Kill
<1>12. CASE StopRegistryFails
  BY <1>12 DEF StopRegistryFails, Failed, Phased
<1>13. CASE UnrouteFails \/ DeleteFails \/ NodesSkipped \/ CleanupVethsFails
  BY <1>13, <1>c, <1>e DEF UnrouteFails, DeleteFails, NodesSkipped, CleanupVethsFails, Collect
<1>14. CASE RegistryBoots \/ RegistryStops \/ UNCHANGED vars
  <2>1. UNCHANGED <<pc, at, flags, result, gatewayVars>>
    BY <1>14 DEF RegistryBoots, RegistryStops, vars
  <2> QED BY <2>1
<1> QED
  BY <1>1, <1>2, <1>3, <1>4, <1>5, <1>6, <1>7, <1>8, <1>9, <1>10, <1>11, <1>12, <1>13, <1>14
  DEF Next, Process, Disturbance, SetupGateway, CreateVeths

LEMMA AlwaysAddressed == Spec => []Addressed
<1>1. Init => Addressed
  BY DEF Init, Addressed, AddressesDistinct, Renamed
<1>2. Typed /\ Addressed /\ [Next]_vars => Addressed'
  BY AddressedStep
<1> QED BY <1>1, <1>2, AlwaysTyped, PTL DEF Spec

LEMMA AlwaysRouted == Spec => []Routed
<1>1. Init => Routed
  BY DEF Init, Routed, Finished
<1>2. Typed /\ Phased /\ Addressed /\ Routed /\ [Next]_vars => Routed'
  BY RoutedStep
<1> QED BY <1>1, <1>2, AlwaysPhased, AlwaysAddressed, PTL DEF Spec

-----------------------------------------------------------------------------
LEMMA RegisteredStep == ASSUME Typed, Phased, Registered, [Next]_vars PROVE Registered'
<1> USE DEF Registered, RegistryReachable, Finished, AfterPush, Setup, Goto, Advance, End,
            Ran, own, registryVars
<1>a. Bounded /\ hosts \in [Cluster -> {"none", "current", "stale"}]
  BY DEF Typed, TypedRegistry
<1>b. Cluster = {"host", "dpu"}
  BY DEF Cluster
<1>c. pc # "idle" => result = "none"
  BY DEF Phased
<1>1. ASSUME NEW f \in RealFlags, Run(f) PROVE Registered'
  BY <1>1 DEF Run
<1>2. CASE SetupRegistry
  BY <1>2, <1>c DEF SetupRegistry, StartRegistry, RegistryReady, PushImages, Push, CanPush
<1>3. CASE Unroute
  BY <1>3, <1>c DEF Unroute
<1>4. CASE DeleteCluster
  <2>1. UNCHANGED <<reg, onKind, images, flags, result>> /\ pc = "delete"
    BY <1>4 DEF DeleteCluster, ClusterGone, NodesGone
  <2>2. pc' \in {"delete", "netrm"}
    BY <1>4 DEF DeleteCluster
  <2> QED BY <1>c, <2>1, <2>2
<1>5. CASE RemoveGateway
  BY <1>5, <1>c DEF RemoveGateway, AfterCleanup, Phased
<1>6. CASE StopRegistry
  BY <1>6 DEF StopRegistry, Phased
<1>7. CASE CreateCluster
  BY <1>7, <1>c DEF CreateCluster
<1>8. CASE ConnectRegistry
  BY <1>8, <1>c DEF ConnectRegistry, Connect
<1>9. CASE ConfigureNodes
  <2>1. /\ pc = "nodes" /\ result' = "none" /\ UNCHANGED <<reg, onKind, images, flags, faulted>>
        /\ hosts' = [hosts EXCEPT ![Order[at]] = "current"] /\ (at = 1 \/ at = 2)
    BY <1>9, <1>c, OrderAt DEF ConfigureNodes, ConfigureNode, ClusterLoops
  <2>2. CASE at = 1
    <3>1. pc' = "nodes" /\ at' = 2
      BY <1>9, <2>2 DEF ConfigureNodes
    <3>2. hosts'["host"] = "current"
      BY <1>a, <1>b, <2>1, <2>2, Orders
    <3> QED BY <2>1, <3>1, <3>2
  <2>3. CASE at = 2
    <3>1. pc' = "cleanlinks"
      BY <1>9, <2>3 DEF ConfigureNodes
    <3>2. hosts'["dpu"] = "current"
      BY <1>a, <1>b, <2>1, <2>3, Orders
    <3>3. hosts'["host"] = hosts["host"]
      BY <1>a, <1>b, <2>1, <2>3, Orders
    <3>4. ~faulted => \A c \in Cluster : hosts'[c] = "current"
      BY <1>b, <2>1, <2>3, <3>2, <3>3
    <3> QED BY <2>1, <3>1, <3>4
  <2> QED BY <2>1, <2>2, <2>3
<1>10. CASE SetupGateway
  BY <1>10, <1>c DEF SetupGateway, CleanupVeths, EnsureNetwork, AttachDPU, Route
<1>11. CASE AddVeth \/ StageVeth
  BY <1>11, <1>c DEF AddVeth, StageVeth, AfterChannel
<1>12. CASE AssignAddress
  BY <1>12, <1>c DEF AssignAddress
<1>13. CASE InstallCNI
  BY <1>13 DEF InstallCNI
<1>14. CASE CommandFails \/ RemoveGatewayFails \/ Kill
  BY <1>14 DEF CommandFails, RemoveGatewayFails, Kill
<1>15. CASE StopRegistryFails
  BY <1>15 DEF StopRegistryFails, Failed, Phased
<1>16. CASE UnrouteFails \/ DeleteFails
  BY <1>16, <1>c DEF UnrouteFails, DeleteFails, Collect, Failed
<1>17. CASE NodesSkipped \/ CleanupVethsFails
  BY <1>17, <1>c DEF NodesSkipped, CleanupVethsFails, Failed
<1>18. CASE RegistryBoots
  <2>1. UNCHANGED <<pc, at, flags, faulted, result, onKind, images, hosts>> /\ reg' = "ready"
    BY <1>18 DEF RegistryBoots, BecomesReady
  <2> QED BY <2>1
<1>19. CASE RegistryStops
  <2>1. UNCHANGED <<pc, at, flags, faulted, result, onKind, images, hosts>> /\ pc = "idle"
    BY <1>19 DEF RegistryStops, Stops
  <2> QED BY <2>1
<1>20. CASE UNCHANGED vars
  BY <1>20 DEF vars
<1> QED
  BY <1>1, <1>2, <1>3, <1>4, <1>5, <1>6, <1>7, <1>8, <1>9, <1>10, <1>11, <1>12, <1>13, <1>14,
     <1>15, <1>16, <1>17, <1>18, <1>19, <1>20
  DEF Next, Process, Disturbance, Cleanup, DeployClusters, CreateVeths

LEMMA AlwaysRegistered == Spec => []Registered
<1>1. Init => Registered
  BY DEF Init, Registered, Finished, AfterPush, Setup
<1>2. Typed /\ Phased /\ Registered /\ [Next]_vars => Registered'
  BY RegisteredStep
<1> QED BY <1>1, <1>2, AlwaysPhased, PTL DEF Spec

(* A deployment that succeeds is whole: every channel up at both ends,     *)
(* every node addressed, every rule there, and, when nothing failed, a     *)
(* registry that every node can reach.                                     *)
THEOREM DeploymentsComplete == Spec => []DeploymentComplete
<1>1. Wired /\ Routed /\ Registered => DeploymentComplete
  BY DEF Wired, Routed, Registered, DeploymentComplete, Deployed, Done, Finished, Attached
<1> QED BY <1>1, AlwaysWired, AlwaysRouted, AlwaysRegistered, PTL

-----------------------------------------------------------------------------
(* What a cluster's deletion leaves of the veths and the attachments.      *)
LEMMA GoneEffect ==
  ASSUME Typed, NEW c \in Cluster, ClusterGone(c)
  PROVE  /\ veth' \subseteq veth
         /\ c = "host" => \A v \in veth' : v.host = "out"
         /\ c = "dpu" => (\A v \in veth' : v.dpu = "out") /\ \A d \in Pair : dpuIP'[d] = 0
         /\ \A d \in Pair : dpuIP[d] = 0 => dpuIP'[d] = 0
<1>1. veth' = {v \in veth : v[c] = "out"}
  BY DEF ClusterGone, ContainersGone
<1>2. dpuIP' = IF c = "dpu" THEN [d \in Pair |-> 0] ELSE dpuIP
  BY DEF ClusterGone, DetachAll
<1>3. c = "host" => \A v \in veth' : v.host = "out"
  BY <1>1
<1>4. c = "dpu" => \A v \in veth' : v.dpu = "out"
  BY <1>1
<1> QED BY <1>1, <1>2, <1>3, <1>4

LEMMA GroundedStep == ASSUME Typed, Grounded, [Next]_vars PROVE Grounded'
<1> USE DEF Grounded, Setup, Goto, Advance, End, gatewayVars
<1>a. /\ Bounded /\ veth \subseteq Veth
      /\ cluster \in [Cluster -> {"absent", "partial", "ready"}]
      /\ Cluster = {"host", "dpu"}
  BY DEF Typed, TypedHost, Cluster
<1>b. pc \in ClusterLoops =>
        /\ Order[at] \in Cluster
        /\ at = 1 \/ at = 2
        /\ at = 1 => Order[at] = "host"
        /\ at = 2 => Order[at] = "dpu"
  BY OrderAt, Orders
<1>c. ASSUME pc \in Setup PROVE cluster["host"] # "absent" /\ cluster["dpu"] # "absent"
  BY <1>a, <1>c
<1>1. ASSUME NEW f \in RealFlags, Run(f) PROVE Grounded'
  BY <1>1 DEF Run
<1>2. CASE SetupRegistry
  BY <1>2, <1>a DEF SetupRegistry, StartRegistry, RegistryReady, PushImages, Bounded, ClusterLoops,
     PairLoops
<1>3. CASE Unroute \/ RemoveGateway
  BY <1>3 DEF Unroute, DeleteRule, RemoveGateway, RemoveNetwork, AfterCleanup
<1>4. CASE DeleteCluster
  <2>1. pc' \in {"delete", "netrm"}
    BY <1>4 DEF DeleteCluster
  <2>2. PICK c \in Cluster : c = Order[at]
    BY <1>4, <1>b DEF DeleteCluster, ClusterLoops
  <2>3. \A o \in Cluster : o # c => cluster'[o] = cluster[o]
    BY <1>4, <1>a, <2>2 DEF DeleteCluster
  <2>4. CASE ClusterGone(c)
    <3>1. /\ veth' \subseteq veth
          /\ c = "host" => \A v \in veth' : v.host = "out"
          /\ c = "dpu" => (\A v \in veth' : v.dpu = "out") /\ \A d \in Pair : dpuIP'[d] = 0
          /\ \A d \in Pair : dpuIP[d] = 0 => dpuIP'[d] = 0
      BY <2>4, GoneEffect
    <3> QED BY <1>a, <2>1, <2>3, <3>1
  <2>5. CASE cluster[c] = "absent" /\ UNCHANGED <<veth, gatewayVars, registryVars>>
    BY <1>a, <2>1, <2>3, <2>5
  <2> QED BY <1>4, <2>2, <2>4, <2>5 DEF DeleteCluster
<1>5. CASE StopRegistry \/ InstallCNI
  BY <1>5 DEF StopRegistry, InstallCNI
<1>6. CASE CreateCluster
  <2>1. /\ pc = "create" /\ UNCHANGED <<veth, dpuIP>>
        /\ cluster'[Order[at]] # "absent"
        /\ \A o \in Cluster : cluster[o] # "absent" => cluster'[o] # "absent"
    BY <1>6, <1>a, <1>b DEF CreateCluster, ClusterLoops
  <2>2. pc' \in {"create", "connect", "idle"}
    BY <1>6 DEF CreateCluster
  <2>3. pc' = "create" => at = 1 /\ at' = 2
    BY <1>6, <1>b, <2>1 DEF CreateCluster, ClusterLoops
  <2>4. pc' = "connect" => at = 2
    BY <1>6, <1>b, <2>1 DEF CreateCluster, ClusterLoops
  <2> QED BY <1>a, <1>b, <2>1, <2>2, <2>3, <2>4 DEF ClusterLoops
<1>7. CASE ConnectRegistry \/ ConfigureNodes
  BY <1>7 DEF ConnectRegistry, ConfigureNodes
<1>8. CASE CleanupVeths \/ EnsureNetwork \/ AttachDPU \/ Route
  <2>1. pc \in Setup /\ cluster' = cluster /\ pc' \in Setup
    BY <1>8 DEF CleanupVeths, EnsureNetwork, AttachDPU, Route
  <2> QED BY <1>c, <2>1
<1>9. CASE CreateVeths
  <2>1. pc \in Setup /\ cluster' = cluster /\ pc' \in Setup \cup {"cni", "idle"}
    BY <1>9 DEF CreateVeths, AddVeth, StageVeth, AfterChannel, AssignAddress
  <2> QED BY <1>c, <2>1
<1>10. CASE CommandFails \/ RemoveGatewayFails \/ StopRegistryFails
  BY <1>10 DEF CommandFails, RemoveGatewayFails, StopRegistryFails
<1>11. CASE UnrouteFails \/ NodesSkipped \/ CleanupVethsFails
  BY <1>11 DEF UnrouteFails, NodesSkipped, CleanupVethsFails
<1>12. CASE DeleteFails
  <2>1. UNCHANGED <<veth, dpuIP>> /\ pc' \in {"delete", "netrm"}
    BY <1>12 DEF DeleteFails, Collect
  <2>2. \A o \in Cluster : cluster'[o] = "absent" => cluster[o] = "absent"
    BY <1>12, <1>a, <1>b DEF DeleteFails, ClusterLoops
  <2> QED BY <1>a, <2>1, <2>2
<1>13. CASE Kill
  <2>1. UNCHANGED <<veth, dpuIP>> /\ pc' = "idle"
    BY <1>13 DEF Kill
  <2>2. \A o \in Cluster : cluster'[o] = "absent" => cluster[o] = "absent"
    BY <1>13, <1>a, <1>b DEF Kill, ClusterLoops
  <2> QED BY <1>a, <2>1, <2>2
<1>14. CASE RegistryBoots \/ RegistryStops \/ UNCHANGED vars
  BY <1>14 DEF RegistryBoots, RegistryStops, vars
<1> QED
  BY <1>1, <1>2, <1>3, <1>4, <1>5, <1>6, <1>7, <1>8, <1>9, <1>10, <1>11, <1>12, <1>13, <1>14
  DEF Next, Process, Disturbance, Cleanup, DeployClusters, SetupGateway

LEMMA AlwaysGrounded == Spec => []Grounded
<1>1. Init => Grounded
  BY DEF Init, Grounded, Setup
<1>2. Typed /\ Grounded /\ [Next]_vars => Grounded'
  BY GroundedStep
<1> QED BY <1>1, <1>2, AlwaysTyped, PTL DEF Spec

-----------------------------------------------------------------------------
(* A step of a clean run is taken by none of the alternatives that fail.   *)
LEMMA UnspoiltStep ==
  ASSUME Typed, Phased, Wired, Registered, Grounded, Unspoilt, [Next]_vars, ~Debug
  PROVE  Unspoilt'
<1> USE DEF Unspoilt, Clean, Fresh, Setup, Goto, Advance, End, Ran, own, gatewayVars
<1>a. /\ Bounded /\ veth \subseteq Veth /\ Pair \subseteq Nat /\ Idx \subseteq Nat
      /\ cluster \in [Cluster -> {"absent", "partial", "ready"}]
      /\ Cluster = {"host", "dpu"}
  BY DEF Typed, TypedHost, Cluster, Pair, Idx
<1>b. pc \in ClusterLoops =>
        /\ Order[at] \in Cluster
        /\ at = 1 \/ at = 2
        /\ at = 1 => Order[at] = "host"
        /\ at = 2 => Order[at] = "dpu"
  BY OrderAt, Orders
<1>c. pc \in PairLoops => at \in Pair
  BY Sizes DEF Typed, Bounded, Pair
<1>d. pc # "idle" => result = "none"
  BY DEF Phased
<1>1. ASSUME NEW f \in RealFlags, Run(f) PROVE Unspoilt'
  BY <1>1 DEF Run
<1>2. CASE SetupRegistry
  <2>1. UNCHANGED <<flags, faulted, veth, gatewayVars, cluster>> /\ pc # "idle"
    BY <1>2 DEF SetupRegistry, StartRegistry, RegistryReady, PushImages
  <2>2. \/ pc' \in {"push", "ready", "reuse", "unroute"} /\ UNCHANGED <<errors, result>>
        \/ pc' \in {"create", "cni"} /\ ~(flags.cleanup /\ flags.deploy) /\ UNCHANGED <<errors, result>>
        \/ pc' = "idle" /\ ~errors' /\ result' = "unready"
    BY <1>2 DEF SetupRegistry, StartRegistry, RegistryReady, PushImages, CanPush, Registered
  <2> QED BY <2>1, <2>2
<1>3. CASE Unroute
  <2>1. UNCHANGED <<flags, faulted, errors, result>> /\ pc # "idle"
    BY <1>3 DEF Unroute
  <2>2. pc' = "unroute" \/ (pc' = "delete" /\ at' = 1)
    BY <1>3 DEF Unroute
  <2> QED BY <2>1, <2>2
<1>4. CASE DeleteCluster
  <2>1. UNCHANGED <<flags, faulted, errors, result>> /\ pc = "delete"
    BY <1>4 DEF DeleteCluster
  <2>2. CASE at = 1
    <3>1. pc' = "delete" /\ at' = 2 /\ cluster'["host"] = "absent"
      BY <1>4, <1>a, <1>b, <2>2 DEF DeleteCluster, ClusterLoops
    <3> QED BY <2>1, <3>1
  <2>3. CASE at = 2
    <3>1. pc' = "netrm" /\ cluster'["dpu"] = "absent" /\ cluster'["host"] = cluster["host"]
      BY <1>4, <1>a, <1>b, <2>3 DEF DeleteCluster, ClusterLoops
    <3> QED BY <1>a, <2>1, <2>3, <3>1
  <2> QED BY <1>4, <1>b, <2>2, <2>3 DEF DeleteCluster, ClusterLoops
<1>5. CASE RemoveGateway
  <2>1. /\ UNCHANGED <<flags, faulted, veth, cluster>> /\ pc = "netrm" /\ pc' # "netrm"
        /\ (errors' => errors /\ pc' # "idle")
    BY <1>5 DEF RemoveGateway, AfterCleanup
  <2> SUFFICES ASSUME Clean, Fresh PROVE Fresh'
    BY <2>1
  <2>2. cluster["host"] = "absent" /\ cluster["dpu"] = "absent"
    BY <1>a, <2>1
  <2>3. CanRemoveNetwork
    BY <2>2 DEF Grounded, CanRemoveNetwork, Attached
  <2>4. Goto(AfterCleanup)
    BY <1>5, <2>3 DEF RemoveGateway
  <2>5. \A v \in veth : v.host = "out"
    BY <2>2 DEF Grounded
  <2> QED BY <2>1, <2>2, <2>4, <2>5 DEF AfterCleanup
<1>6. CASE StopRegistry
  BY <1>6 DEF StopRegistry
<1>7. CASE CreateCluster
  <2>1. /\ pc = "create" /\ UNCHANGED <<flags, faulted, veth>> /\ (errors' => errors /\ pc' # "idle")
    BY <1>7 DEF CreateCluster
  <2> SUFFICES ASSUME Clean, Fresh PROVE Fresh'
    BY <2>1
  <2>2. CASE at = 1
    <3>1. cluster["host"] = "absent" /\ cluster["dpu"] = "absent"
      BY <2>1, <2>2
    <3>2. pc' = "create" /\ at' = 2 /\ UNCHANGED <<errors, result>>
      BY <1>7, <1>b, <2>1, <2>2, <3>1 DEF CreateCluster, ClusterLoops
    <3>3. cluster'["host"] = "ready" /\ cluster'["dpu"] = "absent"
      BY <1>7, <1>a, <1>b, <2>1, <2>2, <3>1 DEF CreateCluster, ClusterLoops
    <3> QED BY <2>1, <3>2, <3>3
  <2>3. CASE at = 2
    <3>1. cluster["host"] = "ready" /\ cluster["dpu"] = "absent"
      BY <2>1, <2>3
    <3>2. pc' = "connect" /\ UNCHANGED <<errors, result>>
      BY <1>7, <1>b, <2>1, <2>3, <3>1 DEF CreateCluster, ClusterLoops
    <3>3. cluster'["host"] = "ready" /\ cluster'["dpu"] = "ready"
      BY <1>7, <1>a, <1>b, <2>1, <2>3, <3>1 DEF CreateCluster, ClusterLoops
    <3> QED BY <1>a, <2>1, <3>2, <3>3
  <2> QED BY <1>b, <2>1, <2>2, <2>3 DEF ClusterLoops
<1>8. CASE ConnectRegistry
  <2>1. Running
    BY <1>8 DEF ConnectRegistry, Registered, Phased, AfterPush, Running
  <2> QED BY <1>8, <2>1 DEF ConnectRegistry
<1>9. CASE ConfigureNodes
  BY <1>9 DEF ConfigureNodes
<1>10. CASE CleanupVeths
  <2>1. (\A v \in veth : v.host = "out") => veth' = {}
    BY <1>10 DEF CleanupVeths, CleanLinks
  <2> QED BY <1>10, <2>1 DEF CleanupVeths
<1>11. CASE EnsureNetwork \/ AttachDPU
  BY <1>11 DEF EnsureNetwork, AttachDPU
<1>12. CASE Route
  <2>1. UNCHANGED <<flags, faulted, errors, result, veth, cluster, idx>> /\ pc = "route" /\ idx = 0
    BY <1>12, <1>a DEF Route, Bounded
  <2>2. pc' = "route" \/ (pc' = "add" /\ at' = 1)
    BY <1>12 DEF Route
  <2> SUFFICES ASSUME Clean, Fresh PROVE Fresh'
    BY <2>1, <2>2
  <2>3. veth' = {}
    BY <2>1
  <2>4. \A p \in Pair, i \in Idx : Channel(p, i)' = {}
    BY <2>3 DEF Channel
  <2>5. Channel(at, idx)' = {}
    BY <2>3 DEF Channel
  <2>6. ~errors' /\ result' # "failed"
    BY <2>1
  <2>7. \A c \in Cluster : cluster'[c] = "ready"
    BY <2>1
  <2> QED BY <2>2, <2>3, <2>4, <2>5, <2>6, <2>7
<1>13. CASE AddVeth
  <2>1. /\ pc = "add" /\ UNCHANGED <<flags, faulted, cluster>> /\ (errors' => errors /\ pc' # "idle")
        /\ at \in Pair /\ idx \in Idx /\ stage = 1
    BY <1>13, <1>a, <1>c DEF AddVeth, PairLoops, Bounded
  <2> SUFFICES ASSUME Clean, Fresh PROVE Fresh'
    BY <2>1
  <2>2. Channel(at, idx) = {}
    BY <2>1
  <2>3. CanAdd(at, idx)
    BY <2>2 DEF CanAdd
  <2>4. Add(at, idx) /\ pc' = "stage" /\ UNCHANGED <<at, idx, stage, result, errors>>
    BY <1>13, <2>3 DEF AddVeth
  <2> PICK p \in Pair, i \in Idx : p = at /\ i = idx
    BY <2>1
  <2>5. \A q \in Pair, k \in Idx : q > p \/ (q = p /\ k > i) => Channel(q, k)' = {}
    <3> SUFFICES ASSUME NEW q \in Pair, NEW k \in Idx, q > p \/ (q = p /\ k > i),
                        NEW w \in Channel(q, k)'
                 PROVE  FALSE
      OBVIOUS
    <3>1. Channel(q, k) = {}
      BY <2>1
    <3>2. w \notin veth /\ w \in veth' /\ w.pair = q /\ w.idx = k
      BY <3>1 DEF Channel
    <3>3. w = [pair |-> p, idx |-> i, host |-> "out", dpu |-> "out"]
      BY <2>4, <3>2 DEF Add
    <3>4. w.pair = p /\ w.idx = i
      BY <3>3
    <3> QED BY <1>a, <3>2, <3>4
  <2>6. Single(p, i)'
    <3>1. \A w \in Channel(p, i)' : w = [pair |-> p, idx |-> i, host |-> "out", dpu |-> "out"]
      BY <2>2, <2>4 DEF Add, Channel
    <3> QED BY <3>1 DEF Single
  <2>7. at' = p /\ idx' = i
    BY <2>4
  <2> QED BY <2>1, <2>4, <2>5, <2>6, <2>7
<1>14. CASE StageVeth
  <2>1. /\ pc = "stage" /\ UNCHANGED <<flags, faulted, cluster>> /\ (errors' => errors /\ pc' # "idle")
        /\ at \in Pair /\ idx \in Idx /\ stage \in 1..6
    BY <1>14, <1>a, <1>c DEF StageVeth, AfterChannel, PairLoops, Bounded
  <2> SUFFICES ASSUME Clean, Fresh PROVE Fresh'
    BY <2>1
  <2> PICK p \in Pair, i \in Idx, s \in 1..6 : p = at /\ i = idx /\ s = stage
    BY <2>1
  <2>2. PICK v \in Channel(p, i) : v.host = HostAt(s) /\ v.dpu = DpuAt(s)
    BY <2>1 DEF Wired, InProgress
  <2>3. \A w \in Channel(p, i) : w = v
    BY <2>1 DEF Single
  <2>4. v[Stages[s].end] = Stages[s].from
    BY <2>2, StageList DEF HostAt, DpuAt
  <2>5. CanStage(p, i, Stages[s])
    BY <2>3, <2>4 DEF CanStage
  <2>6. Stage(p, i, Stages[s])
    BY <1>14, <2>5 DEF StageVeth
  <2>7. PICK u \in Channel(p, i), h \in Place, d \in Place :
          veth' = (veth \ {u}) \cup {Moved(u, h, d)}
    BY <1>a, <2>6, StageMoves
  <2>8. Moved(u, h, d).pair = p /\ Moved(u, h, d).idx = i
    BY DEF Moved, Channel
  <2>9. \A q \in Pair, k \in Idx : Channel(q, k) = {} => Channel(q, k)' = {}
    <3> SUFFICES ASSUME NEW q \in Pair, NEW k \in Idx, Channel(q, k) = {}, NEW w \in Channel(q, k)'
                 PROVE  FALSE
      OBVIOUS
    <3>1. w \notin veth /\ w \in veth' /\ w.pair = q /\ w.idx = k
      BY DEF Channel
    <3>2. w = Moved(u, h, d)
      BY <2>7, <3>1
    <3> QED BY <2>8, <3>1, <3>2
  <2>10. \A q \in Pair, k \in Idx : q > p \/ (q = p /\ k > i) => Channel(q, k)' = {}
    BY <2>1, <2>9
  <2>11. Single(p, i)'
    <3>1. \A w \in Channel(p, i)' : w = Moved(u, h, d)
      BY <2>3, <2>7 DEF Channel
    <3> QED BY <3>1 DEF Single
  <2>12. UNCHANGED <<errors, result>> /\ at' = p
    BY <1>14, <2>5 DEF StageVeth, AfterChannel
  <2>13. CASE s < 6
    <3>1. pc' = "stage" /\ idx' = i
      BY <1>14, <2>5, <2>13, Lengths DEF StageVeth
    <3> QED BY <2>1, <2>10, <2>11, <2>12, <3>1
  <2>14. CASE s = 6
    <3>1. AfterChannel
      BY <1>14, <2>5, <2>14, Lengths DEF StageVeth
    <3>2. CASE i + 1 < NumPairs
      <4>1. pc' = "add" /\ idx' = i + 1 /\ i + 1 \in Idx /\ i + 1 > i
        BY <1>a, <3>1, <3>2, Sizes DEF AfterChannel, Idx
      <4>2. Channel(p, i + 1)' = {}
        BY <2>10, <4>1
      <4>3. \A q \in Pair, k \in Idx : q > p \/ (q = p /\ k > i + 1) => Channel(q, k)' = {}
        BY <1>a, <2>10
      <4>4. Channel(at, idx)' = {}
        BY <2>12, <4>1, <4>2 DEF Channel
      <4> QED BY <2>1, <2>12, <4>1, <4>3, <4>4
    <3>3. CASE ~(i + 1 < NumPairs)
      <4>1. pc' = "address"
        BY <3>1, <3>3 DEF AfterChannel
      <4> QED BY <2>1, <2>10, <2>12, <4>1
    <3> QED BY <3>2, <3>3
  <2> QED BY <2>13, <2>14
<1>15. CASE AssignAddress
  <2>1. /\ pc = "address" /\ UNCHANGED <<flags, faulted, cluster, veth, errors, result>>
        /\ at \in Pair /\ idx = 0
    BY <1>15, <1>a, <1>c DEF AssignAddress, PairLoops, Bounded
  <2> SUFFICES ASSUME Clean, Fresh PROVE Fresh'
    BY <1>15, <2>1 DEF AssignAddress
  <2>2. CASE at < P
    <3>1. pc' = "add" /\ at' = at + 1 /\ idx' = 0
      BY <1>15, <2>1, <2>2 DEF AssignAddress
    <3> PICK p \in Pair : p = at
      BY <2>1
    <3>2. p + 1 \in Pair /\ p + 1 > p /\ 0 \in Idx
      BY <2>2, Sizes, Lengths DEF Pair
    <3>3. \A q \in Pair, k \in Idx : q > p => Channel(q, k)' = {}
      BY <2>1 DEF Channel
    <3>4. \A q \in Pair, k \in Idx : q > p + 1 \/ (q = p + 1 /\ k > 0) => q > p
      BY <1>a
    <3>5. Channel(at, idx)' = {}
      <4>1. Channel(p + 1, 0)' = {}
        BY <3>2, <3>3
      <4> QED BY <3>1, <4>1 DEF Channel
    <3> QED BY <2>1, <3>1, <3>3, <3>4, <3>5
  <2>3. CASE ~(at < P)
    <3>1. pc' = "cni"
      BY <1>15, <2>3 DEF AssignAddress
    <3> QED BY <2>1, <3>1
  <2> QED BY <2>2, <2>3
<1>16. CASE InstallCNI
  BY <1>16, <1>a DEF InstallCNI
<1>17. CASE CommandFails \/ RemoveGatewayFails \/ StopRegistryFails
  BY <1>17 DEF CommandFails, RemoveGatewayFails, StopRegistryFails, Failed
<1>18. CASE Kill
  BY <1>18 DEF Kill
<1>19. CASE UnrouteFails \/ DeleteFails \/ NodesSkipped \/ CleanupVethsFails
  BY <1>19 DEF UnrouteFails, DeleteFails, NodesSkipped, CleanupVethsFails, Collect, Failed
<1>20. CASE RegistryBoots \/ RegistryStops \/ UNCHANGED vars
  <2>1. UNCHANGED <<pc, at, idx, flags, faulted, result, errors, cluster, veth>>
    BY <1>20 DEF RegistryBoots, RegistryStops, vars
  <2> QED BY <2>1 DEF Single, Channel
<1> QED
  BY <1>1, <1>2, <1>3, <1>4, <1>5, <1>6, <1>7, <1>8, <1>9, <1>10, <1>11, <1>12, <1>13, <1>14,
     <1>15, <1>16, <1>17, <1>18, <1>19, <1>20
  DEF Next, Process, Disturbance, Cleanup, DeployClusters, SetupGateway, CreateVeths

(* A default run succeeds, whatever the ones before left: it takes none of *)
(* the alternatives that fail, unless a command fails by itself.  The      *)
(* exceptions are the debug level (see the run kind_debug) and a registry  *)
(* that the run reuses and that does not answer yet: it ends the run as    *)
(* "unready" (PushImages after "reuse"), and nothing else does.            *)
THEOREM DefaultRunsSucceed == ASSUME ~Debug PROVE Spec => []IdempotentByDefault
<1>1. Init => Unspoilt
  BY DEF Init, Unspoilt, Clean, Fresh, Setup
<1>2. Typed /\ Phased /\ Wired /\ Registered /\ Grounded /\ Unspoilt /\ [Next]_vars => Unspoilt'
  BY UnspoiltStep
<1>3. Unspoilt => IdempotentByDefault
  BY DEF Unspoilt, Clean, Fresh, IdempotentByDefault
<1> QED
  BY <1>1, <1>2, <1>3, AlwaysPhased, AlwaysWired, AlwaysRegistered, AlwaysGrounded, PTL DEF Spec
=============================================================================
