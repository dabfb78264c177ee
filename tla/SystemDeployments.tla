------------------------- MODULE SystemDeployments -------------------------
(***************************************************************************)
(* The Deployments of a cluster that dpu-sim takes down while it installs  *)
(* the CNI and brings back at the end: CoreDNS, and local-path-provisioner *)
(* where there is one (pkg/k8s/client.go, pkg/cni/post_install.go).  The   *)
(* replica count waits in an annotation of the Deployment.  Each operation *)
(* gets the object and updates it once: a conflict is a failed update.     *)
(***************************************************************************)
EXTENDS Naturals

CONSTANT Counts   \* bound: the replica counts a user may ask for

ASSUME CountsAssumption == Counts \subseteq Nat

Cluster == {"host", "dpu"}
Deployment == {"coredns", "provisioner"}

VARIABLES
  replicas,   \* spec.replicas of each cluster's Deployments
  saved,      \* the count in the suspend annotation, 0 without one
  patched,    \* TRUE when the pods ask for a VF on a dpu-host node
  restarted,  \* TRUE when the pods were restarted by PostInstall
  wanted      \* the count the cluster was created with or the user set last

deploymentVars == <<replicas, saved, patched, restarted, wanted>>

(* kubeadm and kind create two replicas of CoreDNS, kind one provisioner.  *)
Created(d) == IF d = "coredns" THEN 2 ELSE 1

DeploymentsFresh ==
  /\ replicas' = [c \in Cluster |-> [d \in Deployment |-> Created(d)]]
  /\ saved' = [c \in Cluster |-> [d \in Deployment |-> 0]]
  /\ patched' = [c \in Cluster |-> [d \in Deployment |-> FALSE]]
  /\ restarted' = [c \in Cluster |-> [d \in Deployment |-> FALSE]]
  /\ wanted' = [c \in Cluster |-> [d \in Deployment |-> Created(d)]]

(* SuspendDeployment leaves alone what is at zero, and an annotation that  *)
(* is there already.                                                       *)
SuspendAnyway(c, d) ==
  /\ saved' = [saved EXCEPT ![c][d] = replicas[c][d]]
  /\ replicas' = [replicas EXCEPT ![c][d] = 0]
  /\ UNCHANGED <<patched, restarted, wanted>>
Suspend(c, d) ==
  /\ IF replicas[c][d] = 0 THEN UNCHANGED <<replicas, saved>>
     ELSE /\ saved' = [saved EXCEPT ![c][d] = IF @ = 0 THEN replicas[c][d] ELSE @]
          /\ replicas' = [replicas EXCEPT ![c][d] = 0]
  /\ UNCHANGED <<patched, restarted, wanted>>

(* ResumeDeployment: without an annotation, one replica.                   *)
Resume(c, d) ==
  /\ replicas' = [replicas EXCEPT ![c][d] = IF saved[c][d] # 0 THEN saved[c][d] ELSE 1]
  /\ saved' = [saved EXCEPT ![c][d] = 0]
  /\ UNCHANGED <<patched, restarted, wanted>>

(* patchDeploymentForDPUHostPodNetworking.                                 *)
Patch(c, d) ==
  /\ patched' = [patched EXCEPT ![c][d] = TRUE]
  /\ UNCHANGED <<replicas, saved, restarted, wanted>>

(* RolloutRestartDeployment.                                               *)
Restart(c, d) ==
  /\ restarted' = [restarted EXCEPT ![c][d] = TRUE]
  /\ UNCHANGED <<replicas, saved, patched, wanted>>

(* The user scales a Deployment, suspended or not.                         *)
Scale(c, d, n) ==
  /\ replicas' = [replicas EXCEPT ![c][d] = n]
  /\ wanted' = [wanted EXCEPT ![c][d] = n]
  /\ UNCHANGED <<saved, patched, restarted>>
=============================================================================
