--------------------------- MODULE GatewayNetwork ---------------------------
(***************************************************************************)
(* The container network the DPUs of an offloaded Kind deployment share    *)
(* with their hosts (pkg/kind/veth.go, routing.go, cleanup.go): the        *)
(* network, the DPU containers attached to it, the addresses the hosts get *)
(* in its subnet, and the iptables rules that route between it and the     *)
(* kind network.  A rule names a bridge; a network created again has a new *)
(* one, and nothing but the rule remembers the old.                        *)
(***************************************************************************)
EXTENDS KindNodes, Sequences

CONSTANTS
  DockerUser, \* TRUE with docker and its DOCKER-USER chain, beside FORWARD
  MaxIP       \* the usable addresses of the subnet are 1..MaxIP

ASSUME GatewayAssumption ==
  /\ DockerUser \in BOOLEAN
  /\ MaxIP \in Nat /\ MaxIP >= 2 * P + 1

(* The rules in the order they are added; clean-up begins with those that  *)
(* forward.  rawKind names the kind network's bridge, which stays; the     *)
(* others name the gateway network's.                                      *)
RawRules == <<"rawGateway", "rawKind">>
ForwardRules ==
  (IF DockerUser THEN <<"userToGateway", "userToKind">> ELSE <<>>)
  \o <<"toGateway", "toKind">>
SetupOrder == RawRules \o ForwardRules
CleanupOrder == ForwardRules \o RawRules
RuleKinds == {SetupOrder[k] : k \in 1..Len(SetupOrder)}

VARIABLES
  gateway,    \* TRUE while the container network exists
  dpuIP,      \* the address of each DPU container in it, 0 if not attached
  hostIP,     \* the gateway address on each host's eth0-0, 0 if none
  rules,      \* the rules that name its bridge
  oldRules    \* the rules that name the bridge of a network since removed

gatewayVars == <<gateway, dpuIP, hostIP, rules, oldRules>>

Attached == {d \in Pair : dpuIP[d] # 0}

CreateNetwork == gateway' = TRUE /\ UNCHANGED <<dpuIP, hostIP, rules, oldRules>>

(* network rm refuses a network that containers are attached to.           *)
CanRemoveNetwork == Attached = {}

RemoveNetwork ==
  /\ gateway' = FALSE
  /\ rules' = rules \cap {"rawKind"}
  /\ oldRules' = oldRules \cup (rules \ {"rawKind"})
  /\ UNCHANGED <<dpuIP, hostIP>>

(* The runtime gives an attached container any address it has not given;   *)
(* the first is the bridge's.  An attached DPU keeps the one it has.       *)
Attach(d) ==
  /\ IF dpuIP[d] # 0 THEN UNCHANGED dpuIP
     ELSE \E a \in 2..MaxIP : /\ a \notin {dpuIP[e] : e \in Pair}
                              /\ dpuIP' = [dpuIP EXCEPT ![d] = a]
  /\ UNCHANGED <<gateway, hostIP, rules, oldRules>>

(* What CreateVethTopology holds for used when it comes to host p: the     *)
(* bridge, every DPU, and the hosts served before.                         *)
UsedByRuntime(p) == {1} \cup {dpuIP[d] : d \in Pair}
UsedIPs(p) == UsedByRuntime(p) \cup {hostIP[q] : q \in 1..(p - 1)}

FreeIPsAndBroadcast(p) == (1..(MaxIP + 1)) \ UsedIPs(p)
FreeIPs(p) == (1..MaxIP) \ UsedIPs(p)

(* GetFreeIPv4AddressInSubnet takes the highest.                           *)
AssignHostIP(p) ==
  /\ \E a \in FreeIPs(p) : /\ \A b \in FreeIPs(p) : b <= a
                           /\ hostIP' = [hostIP EXCEPT ![p] = a]
  /\ UNCHANGED <<gateway, dpuIP, rules, oldRules>>

(* iptables -C looks for the rule with the present bridge's name.          *)
RuleExistsByComment(r) == r \in rules \cup oldRules
RuleExists(r) == r \in rules

EnsureRule(r) ==
  /\ rules' = IF RuleExists(r) THEN rules ELSE rules \cup {r}
  /\ UNCHANGED <<gateway, dpuIP, hostIP, oldRules>>

DeleteRuleOfFilter(r) ==
  /\ rules' = rules \ ({r} \ {"rawGateway", "rawKind"})
  /\ UNCHANGED <<gateway, dpuIP, hostIP, oldRules>>
DeleteRule(r) ==
  /\ rules' = rules \ {r}
  /\ UNCHANGED <<gateway, dpuIP, hostIP, oldRules>>

(* Containers take their attachments along; a host's address goes with its *)
(* eth0-0, and that with the container at either end.                      *)
DetachAll(end) ==
  /\ dpuIP' = IF end = "dpu" THEN [d \in Pair |-> 0] ELSE dpuIP
  /\ hostIP' = [d \in Pair |-> 0]
  /\ UNCHANGED <<gateway, rules, oldRules>>
=============================================================================
