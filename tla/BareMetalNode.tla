--------------------------- MODULE BareMetalNode ---------------------------
(***************************************************************************)
(* A bare-metal worker of the host cluster (pkg/vm/baremetal.go and the    *)
(* loop of adoptAndJoinBareMetalWorkers).  Unlike the VMs it outlives every*)
(* run, with the state of the cluster it last joined, and so do the        *)
(* FORWARD rules the host got for it.                                      *)
(***************************************************************************)
EXTENDS Naturals, Sequences

CONSTANT Bootc   \* TRUE when adoption applies a bootc image, and reboots

ASSUME BareMetalAssumption == Bootc \in BOOLEAN

(* ensureForwardRule's calls: in and out for the mgmt and for the k8s      *)
(* bridge, and both directions for the node's address.                     *)
Rules == {"mgmt", "k8s", "node"}

VARIABLES
  key,      \* TRUE when the node accepts the common SSH key
  files,    \* /etc/kubernetes and /var/lib/kubelet: "none", "old", "current"
  kubelet,  \* "stopped", "idle" (running, in no cluster), "old", "current"
  extraIP,  \* TRUE when kubelet is told its --node-ip
  routed,   \* TRUE when the node has routes to the VMs' subnets
  forward   \* how many times the host's FORWARD chain holds each rule

bareMetalVars == <<key, files, kubelet, extraIP, routed, forward>>

BareMetalTypeOK ==
  /\ key \in BOOLEAN /\ extraIP \in BOOLEAN /\ routed \in BOOLEAN
  /\ files \in {"none", "old", "current"}
  /\ kubelet \in {"stopped", "idle", "old", "current"}
  /\ forward \in [Rules -> 0..1]

BareMetalInit ==
  /\ key = FALSE /\ files = "none" /\ kubelet = "stopped"
  /\ extraIP = FALSE /\ routed = FALSE /\ forward = [r \in Rules |-> 0]

Joined == files = "current" /\ kubelet = "current"
Forwarded == \A r \in Rules : forward[r] > 0

-----------------------------------------------------------------------------
WithoutWipe == <<"ssh", "bootc", "stop", "validate", "nodeip", "forward", "routes",
                 "join">>
BootcLast == <<"ssh", "stop", "wipe", "validate", "nodeip", "forward", "routes",
               "join", "bootc">>

(* The order of the loop's body; "nodeip" stands for the installation,     *)
(* which leaves no state of its own, as well.                              *)
AdoptStages == <<"ssh", "bootc", "stop", "wipe", "validate", "nodeip", "forward",
                 "routes", "join">>

InsertAlways(rs) ==
  forward' = [r \in Rules |-> IF r \in rs THEN forward[r] + 1 ELSE forward[r]]
(* iptables -C ... || iptables -I FORWARD 1 ...                            *)
InsertForward(rs) == forward' = [r \in Rules |-> IF r \in rs THEN 1 ELSE forward[r]]

(* The common key is installed over the bootstrap login when it is refused.*)
InstallKey == key' = TRUE /\ UNCHANGED <<files, kubelet, extraIP, routed, forward>>

(* A reboot: kubelet starts with the files that are there.                 *)
ApplyBootc ==
  /\ IF Bootc THEN /\ routed' = FALSE
                   /\ kubelet' = IF files = "none" THEN "stopped" ELSE files
     ELSE UNCHANGED <<routed, kubelet>>
  /\ UNCHANGED <<key, files, extraIP, forward>>

StopServices == kubelet' = "stopped" /\ UNCHANGED <<key, files, extraIP, routed, forward>>
WipeState == files' = "none" /\ UNCHANGED <<key, kubelet, extraIP, routed, forward>>
ResetIsValid == files = "none" /\ kubelet = "stopped"

(* setKubeletNodeIP restarts kubelet, which has no cluster to join yet.    *)
SetKubeletNodeIP ==
  /\ extraIP' = TRUE /\ kubelet' = "idle" /\ UNCHANGED <<key, files, routed, forward>>

AllowForwarding == InsertForward(Rules) /\ UNCHANGED <<key, files, kubelet, extraIP, routed>>
AddRoutes == routed' = TRUE /\ UNCHANGED <<key, files, kubelet, extraIP, forward>>

(* The join endpoint, and its fallback, are addresses of the first master. *)
CanJoin == routed /\ Forwarded /\ files = "none"
JoinNode ==
  /\ files' = "current" /\ kubelet' = "current"
  /\ UNCHANGED <<key, extraIP, routed, forward>>

(* The cluster's first master is gone: what was joined is left behind.     *)
Orphan(s) == IF s = "current" THEN "old" ELSE s
ClusterLost ==
  /\ files' = Orphan(files) /\ kubelet' = Orphan(kubelet)
  /\ UNCHANGED <<key, extraIP, routed, forward>>
=============================================================================
