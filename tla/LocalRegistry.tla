--------------------------- MODULE LocalRegistry ---------------------------
(***************************************************************************)
(* The local registry container (pkg/registry/registry.go) and what the    *)
(* Kind nodes know of it: its address on the kind network, written to each *)
(* node's containerd configuration.                                        *)
(***************************************************************************)
EXTENDS KindNodes

VARIABLES
  reg,        \* the container: "absent", "stopped", "booting", "ready"
  onKind,     \* TRUE while it is connected to the kind network
  images,     \* TRUE when the configured images have been pushed to it
  hosts       \* what a cluster's nodes are configured with: "none", the
              \* registry's "current" address, or a "stale" one

registryVars == <<reg, onKind, images, hosts>>

Aged == [c \in Cluster |-> IF hosts[c] = "current" THEN "stale" ELSE hosts[c]]

(* Start leaves a running container alone, whether it answers or not.      *)
Running == reg \in {"booting", "ready"}

(* It replaces one that is stopped by a new container, not connected to    *)
(* anything but the default bridge.                                        *)
RunContainer ==
  /\ reg' = "booting" /\ onKind' = FALSE /\ images' = FALSE /\ hosts' = Aged

(* waitForReady.                                                           *)
BecomesReady ==
  /\ reg = "booting" /\ reg' = "ready"
  /\ UNCHANGED <<onKind, images, hosts>>

CanPush == reg = "ready"
Push == images' = TRUE /\ UNCHANGED <<reg, onKind, hosts>>

(* ConnectToKindNetwork does nothing when there is an address already.     *)
Connect ==
  /\ IF onKind THEN UNCHANGED <<onKind, hosts>> ELSE onKind' = TRUE /\ hosts' = Aged
  /\ UNCHANGED <<reg, images>>

ConfigureNode(c) ==
  /\ hosts' = [hosts EXCEPT ![c] = "current"]
  /\ UNCHANGED <<reg, onKind, images>>

NodesGone(c) == hosts' = [hosts EXCEPT ![c] = "none"] /\ UNCHANGED <<reg, onKind, images>>

RemoveContainer ==
  /\ reg' = "absent" /\ onKind' = FALSE /\ images' = FALSE /\ hosts' = Aged

(* Something outside stops the container; it keeps its networks and data.  *)
Stops == Running /\ reg' = "stopped" /\ UNCHANGED <<onKind, images, hosts>>
=============================================================================
