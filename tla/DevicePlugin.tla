----------------------------- MODULE DevicePlugin -----------------------------
(***************************************************************************)
(* One resource pool of the simulated device plugin dpu-sim-dp             *)
(* (cmd/dpu-sim-dp/plugin.go), with the three parties it has to stay in    *)
(* step with: the veth netdevs of the pool's VFs, kubelet, and the CNI     *)
(* that carries VFs in and out of pod network namespaces.                  *)
(*                                                                         *)
(* Time advances in ticks of healthCheckInterval (5 s).  The timestamp     *)
(* lastAllocated is kept as the number of ticks for which                  *)
(* now - lastAllocated < allocationGracePeriod still holds, so no clock    *)
(* value ever has to be bounded.  p.mu makes each locked region one step;  *)
(* the steps of checkDevices and of Allocate interleave with everything    *)
(* else.                                                                   *)
(***************************************************************************)
EXTENDS Integers, FiniteSets

CONSTANTS
  Dev,                   \* the VF names the pool's matcher accepts
  UnhealthyAfterMisses,  \* unhealthyAfterMisses
  Grace,                 \* allocationGracePeriod, in ticks
  CheckSpan,             \* ticks a single check may take (PodResources timeout)
  TeardownMax,           \* ticks the CNI may hold a VF after kubelet freed it
  MaxIndex,              \* bound: ifindexes the kernel may hand out
  MaxContainers,         \* bound: container requests in one Allocate call
  Env                    \* which environment events may happen

EnvEvents == {"rename", "destroy", "crash", "kubelet"}

(* How many checks can find a VF missing around a pod teardown beyond the  *)
(* one that every tick brings: the check in flight when kubelet frees the  *)
(* VF and, when a check can outlast a tick, the one already due then.      *)
Overlap == IF CheckSpan = 0 THEN 1 ELSE 2

ASSUME DevFinite  == IsFiniteSet(Dev)
ASSUME BoundsType == /\ UnhealthyAfterMisses \in Nat \ {0}
                     /\ Grace \in Nat \ {0}
                     /\ CheckSpan \in Nat
                     /\ TeardownMax \in Nat
                     /\ MaxIndex \in Nat
                     /\ Cardinality(Dev) < MaxIndex
                     /\ MaxContainers \in Nat \ {0}
                     /\ Env \subseteq EnvEvents
ASSUME GraceCoversCheck    == CheckSpan + 1 < Grace
ASSUME MissesCoverTeardown == TeardownMax + Overlap < UnhealthyAfterMisses

VARIABLES
  \* host netdevs
  where,      \* where each VF's netdev is
  index,      \* its ifindex
  nextIndex,  \* the ifindex the kernel gives the next netdev
  limbo,      \* ticks a freed VF has spent in its old pod's netns
  \* kubelet
  kview,      \* the health kubelet last received for each device
  granted,    \* devices kubelet holds for a pod
  listed,     \* those its PodResources API reports
  \* DpuSimDevicePlugin
  run,        \* progress of Run
  known,      \* IDs in p.devices
  health, ifindex, misses,  \* deviceState of each known device
  grace,      \* ticks left of its allocation grace period
  devinfo,    \* device-info files on the host
  watch,      \* the ListAndWatch stream
  due,        \* a tick waits in the stream's ticker channel
  check,      \* the checkDevices in progress
  call        \* the Allocate in progress

netdevVars  == <<where, index, nextIndex, limbo>>
kubeletVars == <<kview, granted, listed>>
tableVars   == <<known, health, ifindex, misses, grace>>
vars == <<netdevVars, kubeletVars, run, tableVars, devinfo, watch, due, check, call>>

Places == {"host",     \* host netns, under its own name
           "renamed",  \* host netns, under another name (ovn-k8s-mp0)
           "pod",      \* netns of the pod that holds it
           "limbo",    \* netns of a pod that kubelet already let go of
           "gone"}     \* destroyed
Index  == 1..MaxIndex
Health == {"Healthy", "Unhealthy"}

Checks == [pc: {"idle", "ifaces", "allocated", "send"},
           byName: [Dev -> Index \union {0}], byIndex: SUBSET Index,
           allocated: SUBSET Dev, err: BOOLEAN, age: 0..CheckSpan]
Calls  == [pc: {"idle", "validate", "write", "mark", "failed", "done"},
           ids: SUBSET Dev, left: SUBSET SUBSET Dev, cur: SUBSET Dev,
           marked: SUBSET Dev, live: BOOLEAN]

NoCheck == [pc |-> "idle", byName |-> [d \in Dev |-> 0], byIndex |-> {},
            allocated |-> {}, err |-> FALSE, age |-> 0]
NoCall  == [pc |-> "idle", ids |-> {}, left |-> {}, cur |-> {}, marked |-> {},
            live |-> TRUE]

TypeOK ==
  /\ where \in [Dev -> Places]
  /\ index \in [Dev -> Index]
  /\ nextIndex \in 1..(MaxIndex + 1)
  /\ limbo \in [Dev -> 0..TeardownMax]
  /\ kview \in [Dev -> Health \union {"Absent"}]
  /\ granted \subseteq Dev /\ listed \subseteq granted
  /\ run \in {"down", "discovered", "checked", "serving"}
  /\ known \subseteq Dev
  /\ health \in [Dev -> Health]
  /\ ifindex \in [Dev -> Index \union {0}]
  /\ misses \in [Dev -> 0..UnhealthyAfterMisses]
  /\ grace \in [Dev -> 0..Grace]
  /\ devinfo \subseteq Dev
  /\ watch \in {"none", "registered", "open", "dead"}
  /\ due \in BOOLEAN
  /\ check \in Checks
  /\ call \in Calls

OnHost   == {d \in Dev : where[d] = "host"}
InHostNs == {d \in Dev : where[d] \in {"host", "renamed"}}

Init ==
  /\ where = [d \in Dev |-> "host"]
  /\ index \in [Dev -> 1..Cardinality(Dev)]
  /\ \A d, e \in Dev : d # e => index[d] # index[e]
  /\ nextIndex = Cardinality(Dev) + 1
  /\ limbo = [d \in Dev |-> 0]
  /\ kview = [d \in Dev |-> "Absent"]
  /\ granted = {} /\ listed = {}
  /\ run = "down" /\ known = {}
  /\ health = [d \in Dev |-> "Healthy"]
  /\ ifindex = [d \in Dev |-> 0]
  /\ misses = [d \in Dev |-> 0]
  /\ grace = [d \in Dev |-> 0]
  /\ devinfo = {}
  /\ watch = "none" /\ due = FALSE
  /\ check = NoCheck /\ call = NoCall

-----------------------------------------------------------------------------
(* Run: start-up, in the order of the code. *)

(* discoverDevices, then writeDeviceInfoFiles.  A failed write ends Run, and *)
(* with it the process.  Discovery waits until kubelet lists what it granted *)
(* before the restart: a restart outlasts that lag (assumption).             *)
Discover ==
  /\ run = "down"
  /\ granted \subseteq listed
  /\ \/ /\ run' = "discovered"
        /\ known' = OnHost
        /\ ifindex' = [d \in Dev |-> IF d \in OnHost THEN index[d] ELSE 0]
        /\ devinfo' = devinfo \union OnHost
     \/ /\ \E written \in SUBSET OnHost :
              written # OnHost /\ devinfo' = devinfo \union written
        /\ UNCHANGED <<run, known, ifindex>>
  /\ UNCHANGED <<netdevVars, kubeletVars, health, misses, grace, watch, due, check, call>>

(* startServer and registerWithKubelet; if either fails Run returns, which  *)
(* is Crash.                                                                *)
Register ==
  /\ run = "checked"
  /\ run' = "serving" /\ watch' = "registered"
  /\ UNCHANGED <<netdevVars, kubeletVars, tableVars, devinfo, due, check, call>>

(* The process dies, by an error of a pool, a signal or the DaemonSet.  The *)
(* table and the grace periods are lost; kubelet drops the resource and the *)
(* answer of a call in progress.                                            *)
Crash ==
  /\ "crash" \in Env
  /\ run # "down"
  /\ run' = "down" /\ known' = {}
  /\ health' = [d \in Dev |-> "Healthy"]
  /\ ifindex' = [d \in Dev |-> 0]
  /\ misses' = [d \in Dev |-> 0]
  /\ grace' = [d \in Dev |-> 0]
  /\ kview' = [d \in Dev |-> "Absent"]
  /\ watch' = "none" /\ due' = FALSE
  /\ check' = NoCheck /\ call' = NoCall
  /\ UNCHANGED <<netdevVars, granted, listed, devinfo>>

-----------------------------------------------------------------------------
(* ListAndWatch and checkDevices. *)

(* devicesSnapshot, as kubelet reads it. *)
Snapshot == [d \in Dev |-> IF d \in known THEN health[d] ELSE "Absent"]

(* kubelet connects back: the first Send, and a fresh ticker. *)
OpenWatch ==
  /\ watch = "registered"
  /\ watch' = "open" /\ kview' = Snapshot /\ due' = FALSE
  /\ UNCHANGED <<netdevVars, granted, listed, run, tableVars, devinfo, check, call>>

(* checkDevices starts: from Run before the server exists, or from a tick   *)
(* of the stream, whose select may still take the tick over a closed        *)
(* context.                                                                 *)
CheckStarts ==
  \/ run = "discovered"
  \/ watch \in {"open", "dead"} /\ due

AfterStart == IF run = "discovered" THEN "checked" ELSE run

CheckListIfaces ==
  /\ check.pc = "idle" /\ CheckStarts
  /\ due' = FALSE
  /\ check' = [NoCheck EXCEPT !.pc = "ifaces",
                 !.byName  = [d \in Dev |-> IF d \in OnHost THEN index[d] ELSE 0],
                 !.byIndex = {index[d] : d \in InHostNs}]
  /\ UNCHANGED <<netdevVars, kubeletVars, run, tableVars, devinfo, watch, call>>

(* netInterfaces fails: the round changes nothing. *)
CheckNoIfaces ==
  /\ check.pc = "idle" /\ CheckStarts
  /\ due' = FALSE
  /\ run' = AfterStart
  /\ UNCHANGED <<netdevVars, kubeletVars, tableVars, devinfo, watch, check, call>>

(* kubeletAllocatedDevices answers, or fails: the socket, the five second   *)
(* timeout, the closed stream's context.                                    *)
CheckListAllocated ==
  /\ check.pc = "ifaces"
  /\ check' = [check EXCEPT !.pc = "allocated", !.allocated = listed]
  /\ UNCHANGED <<netdevVars, kubeletVars, run, tableVars, devinfo, watch, due, call>>

CheckListFails ==
  /\ check.pc = "ifaces"
  /\ check' = [check EXCEPT !.pc = "allocated", !.err = TRUE]
  /\ UNCHANGED <<netdevVars, kubeletVars, run, tableVars, devinfo, watch, due, call>>

\* Mutants: a rename is taken for a destroyed netdev; no grace period; a late
\* device is never adopted.
PresentByNameOnly(d) == check.byName[d] # 0
InUseWithoutGrace(d) == d \in check.allocated
AddedNever           == {}

Present(d) == check.byName[d] # 0 \/ (ifindex[d] # 0 /\ ifindex[d] \in check.byIndex)
InUse(d)   == d \in check.allocated \/ grace[d] > 0
Alive(d)   == d \in known /\ (Present(d) \/ InUse(d))
Missed(d)  == d \in known /\ ~Present(d) /\ ~InUse(d) /\ ~check.err
Added      == {d \in Dev \ known : check.byName[d] # 0}

(* consecutiveMisses only ever gets compared with the threshold, so the     *)
(* count stops there.                                                       *)
MissesAfter(d) ==
  CASE Alive(d)  -> 0
    [] Missed(d) -> IF misses[d] < UnhealthyAfterMisses THEN misses[d] + 1 ELSE misses[d]
    [] OTHER     -> misses[d]

HealthAfter(d) ==
  CASE Alive(d)  -> "Healthy"
    [] Missed(d) /\ MissesAfter(d) = UnhealthyAfterMisses -> "Unhealthy"
    [] OTHER     -> health[d]

\* Mutants: an adopted device, or one turned Unhealthy, is not pushed to kubelet.
ChangedIgnoresAdded == \E d \in known : HealthAfter(d) # health[d]
ChangedIgnoresBench == Added # {} \/ \E d \in known : health[d] = "Unhealthy" /\ Alive(d)

Changed == Added # {} \/ \E d \in known : HealthAfter(d) # health[d]

(* The locked region, and the device-info files of the adopted devices,     *)
(* whose write errors are only logged.                                      *)
CheckUpdate ==
  /\ check.pc = "allocated"
  /\ known'   = known \union Added
  /\ health'  = [d \in Dev |-> HealthAfter(d)]
  /\ misses'  = [d \in Dev |-> MissesAfter(d)]
  /\ ifindex' = [d \in Dev |-> IF check.byName[d] # 0 THEN check.byName[d] ELSE ifindex[d]]
  /\ \E written \in SUBSET Added : devinfo' = devinfo \union written
  /\ check' = IF run # "discovered" /\ Changed THEN [NoCheck EXCEPT !.pc = "send"] ELSE NoCheck
  /\ run'   = AfterStart
  /\ UNCHANGED <<netdevVars, kubeletVars, grace, watch, due, call>>

(* ListAndWatch pushes the new snapshot; on a closed stream Send fails and  *)
(* the handler returns.                                                     *)
WatchSend ==
  /\ check.pc = "send"
  /\ check' = NoCheck
  /\ kview' = IF watch = "open" THEN Snapshot ELSE kview
  /\ UNCHANGED <<netdevVars, granted, listed, run, tableVars, devinfo, watch, due, call>>

(* The select of ListAndWatch sees the closed context before a waiting tick. *)
WatchReturn ==
  /\ watch = "dead" /\ due /\ check.pc = "idle"
  /\ due' = FALSE
  /\ UNCHANGED <<netdevVars, kubeletVars, run, tableVars, devinfo, watch, check, call>>

-----------------------------------------------------------------------------
(* Allocate.  The devices of the container requests are disjoint, so the    *)
(* requests are a set of device sets; the order the code takes them in is   *)
(* the caller's, hence any.                                                 *)

KubeletAllocate ==
  /\ watch = "open" /\ call.pc = "idle"
  /\ \E req \in SUBSET (SUBSET {d \in Dev \ granted : kview[d] = "Healthy"} \ {{}}) :
       /\ Cardinality(req) \in 1..MaxContainers
       /\ \A c1, c2 \in req : c1 # c2 => c1 \intersect c2 = {}
       /\ call' = [NoCall EXCEPT !.pc = "validate", !.ids = UNION req, !.left = req]
  /\ UNCHANGED <<netdevVars, kubeletVars, run, tableVars, devinfo, watch, due, check>>

(* validateDevices of the next container request. *)
AllocateValidate ==
  /\ call.pc = "validate"
  /\ \E c \in call.left :
       call' = IF c \subseteq known
               THEN [call EXCEPT !.pc = "write", !.cur = c, !.left = @ \ {c}]
               ELSE [call EXCEPT !.pc = "failed"]
  /\ UNCHANGED <<netdevVars, kubeletVars, run, tableVars, devinfo, watch, due, check>>

\* Mutant: write errors are only logged, as they are in checkDevices.
AllocateWriteLogsErrors ==
  /\ call.pc = "write"
  /\ \E written \in SUBSET call.cur : devinfo' = devinfo \union written
  /\ call' = [call EXCEPT !.pc = "mark"]
  /\ UNCHANGED <<netdevVars, kubeletVars, run, tableVars, watch, due, check>>

(* writeDeviceInfoFile for each of its devices, up to the first failure. *)
AllocateWrite ==
  /\ call.pc = "write"
  /\ \/ /\ devinfo' = devinfo \union call.cur
        /\ call' = [call EXCEPT !.pc = "mark"]
     \/ /\ \E written \in SUBSET call.cur :
              written # call.cur /\ devinfo' = devinfo \union written
        /\ call' = [call EXCEPT !.pc = "failed"]
  /\ UNCHANGED <<netdevVars, kubeletVars, run, tableVars, watch, due, check>>

\* Mutant: an allocation prolongs the previous grace period.
AllocateMarkProlongs ==
  /\ call.pc = "mark"
  /\ grace'  = [d \in Dev |-> IF d \in call.cur THEN grace[d] + Grace ELSE grace[d]]
  /\ misses' = [d \in Dev |-> IF d \in call.cur THEN 0 ELSE misses[d]]
  /\ call' = [call EXCEPT !.pc = IF call.left = {} THEN "done" ELSE "validate",
                          !.cur = {}, !.marked = @ \union call.cur]
  /\ UNCHANGED <<netdevVars, kubeletVars, run, known, health, ifindex, devinfo, watch, due, check>>

(* markAllocated, and on to the next container request or the response. *)
AllocateMark ==
  /\ call.pc = "mark"
  /\ grace'  = [d \in Dev |-> IF d \in call.cur \intersect known THEN Grace ELSE grace[d]]
  /\ misses' = [d \in Dev |-> IF d \in call.cur \intersect known THEN 0 ELSE misses[d]]
  /\ call' = [call EXCEPT !.pc = IF call.left = {} THEN "done" ELSE "validate",
                          !.cur = {}, !.marked = @ \union call.cur]
  /\ UNCHANGED <<netdevVars, kubeletVars, run, known, health, ifindex, devinfo, watch, due, check>>

(* kubelet receives the answer: it keeps the devices or discards them. *)
AllocateReturn ==
  /\ call.pc \in {"done", "failed"}
  /\ granted' = IF call.pc = "done" /\ call.live THEN granted \union call.ids ELSE granted
  /\ call' = NoCall
  /\ UNCHANGED <<netdevVars, kview, listed, run, tableVars, devinfo, watch, due, check>>

-----------------------------------------------------------------------------
(* kubelet, the CNI and the netdevs, as plugin.go and its comments use them. *)

KubeletList(d) ==
  /\ d \in granted \ listed
  /\ listed' = listed \union {d}
  /\ UNCHANGED <<netdevVars, kview, granted, run, tableVars, devinfo, watch, due, check, call>>

(* CNI ADD: the VF moves into the pod. *)
CniAdd(d) ==
  /\ d \in granted /\ where[d] = "host"
  /\ where' = [where EXCEPT ![d] = "pod"]
  /\ UNCHANGED <<index, nextIndex, limbo, kubeletVars, run, tableVars, devinfo, watch, due, check, call>>

(* kubelet frees a pod's device before the CNI has moved the netdev back. *)
KubeletFree(d) ==
  /\ d \in granted
  /\ granted' = granted \ {d} /\ listed' = listed \ {d}
  /\ where' = IF where[d] = "pod" THEN [where EXCEPT ![d] = "limbo"] ELSE where
  /\ UNCHANGED <<index, nextIndex, limbo, kview, run, tableVars, devinfo, watch, due, check, call>>

(* CNI DEL: the VF comes back to the host under its own name. *)
CniDel(d) ==
  /\ where[d] = "limbo"
  /\ where' = [where EXCEPT ![d] = "host"]
  /\ limbo' = [limbo EXCEPT ![d] = 0]
  /\ UNCHANGED <<index, nextIndex, kubeletVars, run, tableVars, devinfo, watch, due, check, call>>

(* ovnkube-node renames its management VF, and back. *)
Rename(d) ==
  /\ "rename" \in Env
  /\ where[d] \in {"host", "renamed"}
  /\ where' = [where EXCEPT ![d] = IF @ = "host" THEN "renamed" ELSE "host"]
  /\ UNCHANGED <<index, nextIndex, limbo, kubeletVars, run, tableVars, devinfo, watch, due, check, call>>

(* The veth is destroyed, e.g. with the netns of a pod. *)
Destroy(d) ==
  /\ "destroy" \in Env
  /\ where[d] # "gone"
  /\ where' = [where EXCEPT ![d] = "gone"]
  /\ limbo' = [limbo EXCEPT ![d] = 0]
  /\ UNCHANGED <<index, nextIndex, kubeletVars, run, tableVars, devinfo, watch, due, check, call>>

(* A new veth under the old name, with an ifindex never used before. *)
Recreate(d) ==
  /\ where[d] = "gone" /\ nextIndex <= MaxIndex
  /\ where' = [where EXCEPT ![d] = "host"]
  /\ index' = [index EXCEPT ![d] = nextIndex]
  /\ nextIndex' = nextIndex + 1
  /\ UNCHANGED <<limbo, kubeletVars, run, tableVars, devinfo, watch, due, check, call>>

(* kubelet restarts.  Its streams break, it forgets the registration, and   *)
(* nothing in plugin.go registers again; its allocations are checkpointed.  *)
KubeletRestart ==
  /\ "kubelet" \in Env
  /\ watch \in {"registered", "open"}
  /\ watch' = "dead" /\ kview' = [d \in Dev |-> "Absent"]
  /\ call' = IF call.pc = "idle" THEN call ELSE [call EXCEPT !.live = FALSE]
  /\ UNCHANGED <<netdevVars, granted, listed, run, tableVars, devinfo, due, check>>

(* A tick of healthCheckInterval.  What the environment and a check may     *)
(* take is bounded here: a check outlasts CheckSpan ticks in no case, the   *)
(* CNI returns a freed VF within TeardownMax ticks, and kubelet lists a     *)
(* grant while more than a check's worth of its grace period is left.       *)
Promised == (granted \ listed) \union (IF call.live THEN call.marked ELSE {})

Tick ==
  /\ check.pc # "idle" => check.age < CheckSpan
  /\ \A d \in Dev : where[d] = "limbo" => limbo[d] < TeardownMax
  /\ \A d \in Promised \intersect known : grace[d] > CheckSpan + 1
  /\ due' = (watch = "open" \/ (watch = "dead" /\ (due \/ check.pc # "idle")))
  /\ check' = IF check.pc = "idle" THEN check ELSE [check EXCEPT !.age = @ + 1]
  /\ limbo' = [d \in Dev |-> IF where[d] = "limbo" THEN limbo[d] + 1 ELSE limbo[d]]
  /\ grace' = [d \in Dev |-> IF grace[d] > 0 THEN grace[d] - 1 ELSE 0]
  /\ UNCHANGED <<where, index, nextIndex, kubeletVars, run, known, health, ifindex, misses,
                 devinfo, watch, call>>

-----------------------------------------------------------------------------
RunStep   == Discover \/ Register \/ Crash
WatchStep == \/ OpenWatch \/ CheckListIfaces \/ CheckNoIfaces \/ CheckListAllocated
             \/ CheckListFails \/ CheckUpdate \/ WatchSend \/ WatchReturn
CallStep  == KubeletAllocate \/ AllocateValidate \/ AllocateWrite \/ AllocateMark \/ AllocateReturn
HostStep  == \E d \in Dev : \/ KubeletList(d) \/ CniAdd(d) \/ KubeletFree(d) \/ CniDel(d)
                            \/ Rename(d) \/ Destroy(d) \/ Recreate(d)

Next == RunStep \/ WatchStep \/ CallStep \/ HostStep \/ KubeletRestart \/ Tick

Spec == Init /\ [][Next]_vars

(* Fairness for the liveness properties: the goroutines of the plugin run,  *)
(* time passes, kubelet connects, reads answers and lists its grants, the   *)
(* CNI finishes a DEL, and neither netInterfaces nor PodResources fails for *)
(* ever.                                                                    *)
Fairness ==
  /\ WF_vars(Tick) /\ WF_vars(OpenWatch)
  /\ SF_vars(CheckListIfaces) /\ SF_vars(CheckListAllocated)
  /\ WF_vars(CheckUpdate) /\ WF_vars(WatchSend)
  /\ WF_vars(AllocateValidate) /\ WF_vars(AllocateWrite) /\ WF_vars(AllocateMark)
  /\ WF_vars(AllocateReturn)
  /\ \A d \in Dev : WF_vars(KubeletList(d)) /\ WF_vars(CniDel(d))

FairSpec == Spec /\ Fairness

-----------------------------------------------------------------------------
(* Safety. *)

Benched(d) == d \in known /\ health[d] = "Healthy" /\ health'[d] = "Unhealthy"

(* Kubelet's view is the plugin's table whenever no transition is on its    *)
(* way: checkDevices reports every change it makes, and nothing else        *)
(* (Allocate, the devices' own lives) changes what is advertised.           *)
ViewFollows ==
  watch = "open" /\ check.pc # "send" => kview = Snapshot

(* A device that kubelet holds for a pod is never reported Unhealthy,       *)
(* however the allocation, kubelet's late listing, the move into the pod, a *)
(* slow check, an outage of PodResources and plugin restarts interleave:    *)
(* reporting it would fail a running pod.                                   *)
HeldNeverBenched == [][\A d \in granted : ~Benched(d)]_vars

(* Only a VF whose netdev was destroyed since the plugin last saw it is     *)
(* ever reported Unhealthy: neither a rename nor the window of a pod        *)
(* teardown in which kubelet lists nothing and the netdev is still away is  *)
(* taken for a destroyed device (the reason for unhealthyAfterMisses).      *)
OnlyDestroyedBenched ==
  [][\A d \in Dev : Benched(d) => where[d] = "gone" \/ index[d] # ifindex[d]]_vars

(* Every device of a pod has its device-info file when the CNI comes to     *)
(* read it, whatever writes failed at discovery or adoption before.         *)
GrantedHasDevinfo == granted \subseteq devinfo

(* "on error kubelet discards the allocation, so the devices must not carry *)
(* an unearned in-use grace period" (Allocate): a call that fails has       *)
(* marked nothing.                                                          *)
FailedAllocateMarksNothing == call.pc = "failed" => call.marked = {}

(* The plugin keeps the contract with kubelet: see DeviceContract.          *)
Lost(d) == d \in known /\ (where[d] = "gone" \/ index[d] # ifindex[d])
Contract == INSTANCE DeviceContract WITH
  table <- Snapshot, view <- kview, connected <- watch = "open",
  reporting <- check.pc = "send", held <- granted, described <- devinfo,
  lost <- {d \in Dev : Lost(d)}
KeepsContract == Contract!Spec

-----------------------------------------------------------------------------
(* Liveness. *)

(* A VF destroyed for good and held by no pod ends up Unhealthy at kubelet, *)
(* so that no pod is scheduled on it.                                       *)
DestroyedIsReported ==
  \A d \in Dev :
    <>[](watch = "open" /\ d \in known /\ where[d] = "gone" /\ d \notin granted \union call.ids)
      => <>[](kview[d] = "Unhealthy")

(* A VF that stays in the host netns under its own name ends up Healthy at  *)
(* kubelet, whether it was benched, recreated, or first seen long after the *)
(* plugin started.                                                          *)
PresentIsAdvertised ==
  \A d \in Dev :
    <>[](watch = "open" /\ where[d] = "host") => <>[](kview[d] = "Healthy")
=============================================================================
