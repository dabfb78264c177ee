---------------------------- MODULE VethTopology ----------------------------
(***************************************************************************)
(* The veth channels between the host and the DPU containers of a Kind     *)
(* deployment (pkg/kind/veth.go): each is added in the root namespace      *)
(* under temporary names, its ends are moved into the two containers,      *)
(* renamed to eth0-<i> and rep0-<i> and brought up, one command at a time. *)
(* Interface names are unique in a namespace, which is what a veth left    *)
(* half made by an earlier run can stand in the way of.                    *)
(***************************************************************************)
EXTENDS KindNodes

CONSTANT NumPairs     \* num_pairs: the channels of a pair

ASSUME VethAssumption == NumPairs \in Nat \ {0}

Idx == 0..(NumPairs - 1)

(* A veth end by the namespace and name it has: the root namespace and its *)
(* temporary name, the container's and the same name, its final name.      *)
Place == {"out", "in", "named", "up"}
Veth == [pair : Pair, idx : Idx, host : Place, dpu : Place]

VARIABLE veth     \* the veths there are, from this run or an earlier one

(* The commands of createDataVeths for a channel, after ip link add.       *)
Stages ==
  << [end |-> "host", from |-> "out",   to |-> "in"],
     [end |-> "dpu",  from |-> "out",   to |-> "in"],
     [end |-> "host", from |-> "in",    to |-> "named"],
     [end |-> "host", from |-> "named", to |-> "up"],
     [end |-> "dpu",  from |-> "in",    to |-> "named"],
     [end |-> "dpu",  from |-> "named", to |-> "up"] >>

Channel(p, i) == {v \in veth : v.pair = p /\ v.idx = i}
Complete(p, i) == \E v \in Channel(p, i) : v.host = "up" /\ v.dpu = "up"

(* The two ends bear different names: each only blocks its own.            *)
CanAdd(p, i) == \A v \in Channel(p, i) : v.host # "out" /\ v.dpu # "out"

Add(p, i) ==
  veth' = veth \cup {[pair |-> p, idx |-> i, host |-> "out", dpu |-> "out"]}

SameName(a, b) == a = b \/ {a, b} = {"named", "up"}

(* The veth a stage's command names is there, and no other has the name it *)
(* is to get in the namespace it is to be in.                              *)
CanStage(p, i, s) ==
  \E v \in Channel(p, i) :
     /\ v[s.end] = s.from
     /\ \A w \in Channel(p, i) \ {v} : ~SameName(w[s.end], s.to)

Stage(p, i, s) ==
  \E v \in Channel(p, i) :
     /\ v[s.end] = s.from
     /\ veth' = (veth \ {v}) \cup {[v EXCEPT ![s.end] = s.to]}

(* CleanupVethTopology deletes the host ends that are still outside.       *)
CleanNothing == UNCHANGED veth
CleanAll == veth' = {}
CleanLinks == veth' = {v \in veth : v.host # "out"}

(* A container goes, its namespace and the veths that have an end in it.   *)
ContainersGone(end) == veth' = {v \in veth : v[end] = "out"}
=============================================================================
