--------------------------- MODULE InstallPromise ---------------------------
(***************************************************************************)
(* What the CNI installation promises, whatever steps it takes: in an      *)
(* offloaded deployment the DPU cluster's network comes up after its host  *)
(* cluster's, whose credentials it needs, and the DNS of a cluster is put  *)
(* on the network only once every network its traffic crosses is up.  A    *)
(* cluster loses its network only when it is created again.                *)
(***************************************************************************)
VARIABLES
  offload,    \* TRUE when the host cluster's pods are served by the DPUs
  up,         \* the clusters whose network is up
  serving     \* those whose CoreDNS was put on it

Cluster == {"host", "dpu"}

(* The clusters the traffic of a cluster's pods crosses.                   *)
Path(c) == IF offload /\ c = "host" THEN Cluster ELSE {c}

(* A cluster that is not offloaded may be created with a network.          *)
Created == IF offload THEN {{}} ELSE SUBSET Cluster

Init == offload \in BOOLEAN /\ up \in Created /\ serving = {}

Recreate == up' \in Created /\ serving' = {} /\ UNCHANGED offload

Connect(c) ==
  /\ c \notin up /\ (offload /\ c = "dpu" => "host" \in up)
  /\ up' = up \cup {c} /\ UNCHANGED <<offload, serving>>

Serve(c) ==
  /\ Path(c) \subseteq up
  /\ serving' = serving \cup {c} /\ UNCHANGED <<offload, up>>

Withdraw(c) == serving' = serving \ {c} /\ UNCHANGED <<offload, up>>

Next == Recreate \/ \E c \in Cluster : Connect(c) \/ Serve(c) \/ Withdraw(c)

Spec == Init /\ [][Next]_<<offload, up, serving>>
=============================================================================
