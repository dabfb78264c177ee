--------------------------- MODULE DeviceContract ---------------------------
(***************************************************************************)
(* What a pool of dpu-sim-dp and kubelet owe each other, whatever checks,  *)
(* counts and timestamps the plugin comes to its verdicts by: the plugin   *)
(* tells kubelet every change of its table, forgets no device while it     *)
(* lives, and turns none Unhealthy but one that is destroyed and in no     *)
(* pod; a pod gets devices the plugin knows and has described, and none    *)
(* that another pod has.                                                   *)
(***************************************************************************)
CONSTANT Dev

VARIABLES
  table,      \* the plugin's verdict on each device
  view,       \* the verdict kubelet received last
  connected,  \* TRUE while kubelet reads the plugin's stream
  reporting,  \* TRUE while a change of the table is on its way to it
  held,       \* the devices of the pods
  described,  \* those whose device-info file is there
  lost        \* devices of the table whose netdev, as last seen, is destroyed

plugin == <<table, reporting, lost>>
kubelet == <<view, connected, held>>
vars == <<plugin, kubelet, described>>

Nothing == [d \in Dev |-> "Absent"]
Verdicts == {"Absent", "Healthy", "Unhealthy"}
Tabled == {d \in Dev : table[d] # "Absent"}

Init ==
  /\ table = Nothing /\ view = Nothing
  /\ connected = FALSE /\ reporting = FALSE
  /\ held = {} /\ described = {} /\ lost = {}

(* The plugin takes stock of its devices.                                  *)
Learn ==
  /\ ~reporting
  /\ table' \in [Dev -> Verdicts]
  /\ Tabled \subseteq Tabled'
  /\ \A d \in Dev : table'[d] = "Unhealthy" =>
       table[d] = "Unhealthy" \/ (table[d] = "Healthy" /\ d \in lost \ held)
  /\ lost' \cap Tabled \subseteq lost /\ lost' \subseteq Tabled'
  /\ reporting' \in BOOLEAN /\ (connected /\ table' # table => reporting')
  /\ described \subseteq described'
  /\ UNCHANGED kubelet

Report ==
  /\ reporting /\ reporting' = FALSE
  /\ view' = IF connected THEN table ELSE view
  /\ UNCHANGED <<table, lost, connected, held, described>>

Describe == described \subseteq described' /\ UNCHANGED <<plugin, kubelet>>

Connect ==
  /\ ~connected /\ connected' = TRUE /\ view' = table
  /\ UNCHANGED <<plugin, held, described>>

(* kubelet drops the resource, and what it was told of it.                 *)
Disconnect ==
  /\ connected' = FALSE /\ view' = Nothing
  /\ UNCHANGED <<plugin, held, described>>

(* The plugin dies.  Pods keep their devices.                              *)
Die ==
  /\ table' = Nothing /\ reporting' = FALSE /\ lost' = {}
  /\ connected' = FALSE /\ view' = Nothing
  /\ UNCHANGED <<held, described>>

Grant(D) ==
  /\ connected /\ D \subseteq (Tabled \cap described) \ held
  /\ held' = held \cup D
  /\ UNCHANGED <<plugin, view, connected, described>>

Free(d) == held' = held \ {d} /\ UNCHANGED <<plugin, view, connected, described>>

Lose(d) ==
  /\ d \in Tabled /\ lost' = lost \cup {d}
  /\ UNCHANGED <<table, reporting, kubelet, described>>

Next ==
  \/ Learn \/ Report \/ Describe \/ Connect \/ Disconnect \/ Die
  \/ \E D \in SUBSET Dev : Grant(D)
  \/ \E d \in Dev : Free(d) \/ Lose(d)

Spec == Init /\ [][Next]_vars
=============================================================================
