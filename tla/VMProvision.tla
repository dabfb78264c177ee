---------------------------- MODULE VMProvision ----------------------------
(***************************************************************************)
(* The virtual machines of a deployment: what successive runs of dpu-sim   *)
(* (runVMDeploymentWorkflow: CleanupVMs, CreateAllVMs, the wait for every  *)
(* VM) leave in libvirt and in its image directory, when any step may fail,*)
(* the process may be killed or the host rebooted between two steps, and   *)
(* vmctl starts and stops the same VMs meanwhile.  The next run begins     *)
(* with whatever the last one left.                                        *)
(***************************************************************************)
EXTENDS Naturals, FiniteSets

CONSTANTS
  N,          \* the VMs are 1..N, in the order of the configuration
  Grown,      \* the VMs whose disk_size exceeds the cloud image's own size
  Firmware,   \* TRUE when the host has UEFI firmware and variables template
  Source,     \* where the cloud image comes from: "oci" or "url"
  MaxFaults   \* bound: failures, kills, reboots and vmctl commands in all

ASSUME ProvisionAssumption ==
  /\ N \in Nat \ {0}
  /\ Grown \subseteq 1..N
  /\ Firmware \in BOOLEAN
  /\ Source \in {"oci", "url"}
  /\ MaxFaults \in Nat

VM == 1..N

(* The files CreateVM makes for a VM, each skipped when it is there.       *)
Kinds == {"disk", "iso", "nvram"}

(* "torn": cut short while being written.  "small": a disk not resized yet.*)
FileState == {"absent", "torn", "small", "ok"}

(* "transient": undefined while it ran, it vanishes when it stops.         *)
DomState == {"none", "off", "on", "transient"}

DeleteSteps == {"lookup", "destroy", "undefine", "rmdisk", "rmiso", "rmnvram"}
CreateSteps == {"exists", "image", "disk", "resize", "iso", "nvram",
                "define", "autostart", "start"}
Steps == {"idle", "wait"} \cup DeleteSteps \cup CreateSteps

VARIABLES
  pc, vm,     \* the step the dpu-sim process is at, and for which VM
  mode,       \* its flags: "deploy", "cleanup" (--cleanup), "nocleanup"
  result,     \* how the last run ended: "none", "deployed", "failed"
  image,      \* the shared cloud image: "absent", "torn", "ok"
  file,       \* file[v][k]: the file of kind k of VM v
  dom,        \* the libvirt domain of each VM
  auto,       \* the VMs whose domain starts with the host
  made,       \* made[v]: what this run made for v: files, "domain"
  removed,    \* the VMs all of whose files this run's cleanup removed
  faults

vars == <<pc, vm, mode, result, image, file, dom, auto, made, removed, faults>>

TypeOK ==
  /\ pc \in Steps /\ vm \in VM
  /\ mode \in {"deploy", "cleanup", "nocleanup"}
  /\ result \in {"none", "deployed", "failed"}
  /\ image \in {"absent", "torn", "ok"}
  /\ file \in [VM -> [Kinds -> FileState]]
  /\ dom \in [VM -> DomState] /\ auto \in SUBSET VM
  /\ made \in [VM -> SUBSET (Kinds \cup {"domain"})] /\ removed \in SUBSET VM
  /\ faults \in 0..MaxFaults

Init ==
  /\ pc = "idle" /\ vm = 1 /\ mode = "deploy" /\ result = "none"
  /\ image = "absent"
  /\ file = [v \in VM |-> [k \in Kinds |-> "absent"]]
  /\ dom = [v \in VM |-> "none"] /\ auto = {}
  /\ made = [v \in VM |-> {}] /\ removed = {}
  /\ faults = 0

-----------------------------------------------------------------------------
Active(v) == dom[v] \in {"on", "transient"}

(* The guest comes up: it boots from its disk and the image under it, and  *)
(* cloud-init has its ISO, so that the SSH key is accepted.                *)
Bootable(v) ==
  /\ image = "ok"
  /\ file[v]["disk"] \in {"small", "ok"}
  /\ file[v]["iso"] = "ok"
  /\ Firmware => file[v]["nvram"] = "ok"

Goto(step) == pc' = step /\ UNCHANGED <<vm, result>>

(* The run ends, and the process with it.                                  *)
End(r) == pc' = "idle" /\ vm' = 1 /\ result' = r

(* A loop over the VMs: step for the next one, after for the first one.    *)
AdvanceOffByOne(step, after) ==
  /\ IF vm <= N THEN pc' = step /\ vm' = vm + 1 ELSE pc' = after /\ vm' = 1
  /\ UNCHANGED result
Advance(step, after) ==
  /\ IF vm < N THEN pc' = step /\ vm' = vm + 1 ELSE pc' = after /\ vm' = 1
  /\ UNCHANGED result

(* DeleteVM returned, with or without an error: CleanupVMs only collects   *)
(* the errors, and the workflow only warns of them.                        *)
DeleteReturns == Advance("lookup", IF mode = "cleanup" THEN "idle" ELSE "exists")

Host == <<image, file, dom, auto>>     \* what outlives the process
Own  == <<mode, made, removed, faults>>

-----------------------------------------------------------------------------
(* The user runs dpu-sim.                                                  *)
Run(m) ==
  /\ pc = "idle"
  /\ mode' = m /\ result' = "none" /\ vm' = 1
  /\ pc' = IF m = "nocleanup" THEN "exists" ELSE "lookup"
  /\ made' = [v \in VM |-> {}] /\ removed' = {}
  /\ UNCHANGED <<Host, faults>>

(* DeleteVM: a domain that cannot be looked up is nothing to delete.       *)
Lookup ==
  /\ pc = "lookup"
  /\ \/ dom[vm] = "none" /\ DeleteReturns
     \/ dom[vm] = "off" /\ Goto("undefine")
     \/ Active(vm) /\ Goto("destroy")
  /\ UNCHANGED <<Host, Own>>

(* A domain that stopped since it was found active: Destroy fails.         *)
DestroyDomain ==
  /\ pc = "destroy"
  /\ IF Active(vm) THEN Goto("undefine") ELSE DeleteReturns
  /\ dom' = [dom EXCEPT ![vm] = IF dom[vm] = "on" THEN "off"
                                ELSE IF dom[vm] = "transient" THEN "none"
                                ELSE @]
  /\ UNCHANGED <<image, file, auto, Own>>

(* Files first, then the domain: the step only removes the disk.           *)
UndefineAfterDisk ==
  /\ pc = "undefine"
  /\ Goto("rmiso")
  /\ file' = [file EXCEPT ![vm]["disk"] = "absent"]
  /\ UNCHANGED <<image, dom, auto, Own>>

(* Undefining takes the NVRAM file along; a domain that was started since  *)
(* runs on as a transient one.                                             *)
Undefine ==
  /\ pc = "undefine"
  /\ IF dom[vm] \in {"off", "on"}
     THEN /\ Goto("rmdisk")
          /\ dom' = [dom EXCEPT ![vm] = IF @ = "on" THEN "transient" ELSE "none"]
          /\ auto' = auto \ {vm}
          /\ file' = [file EXCEPT ![vm]["nvram"] = "absent"]
     ELSE DeleteReturns /\ UNCHANGED <<dom, auto, file>>
  /\ UNCHANGED <<image, Own>>

Remove(kind) == file' = [file EXCEPT ![vm][kind] = "absent"]

RemoveDisk ==
  /\ pc = "rmdisk" /\ Remove("disk") /\ Goto("rmiso")
  /\ UNCHANGED <<image, dom, auto, Own>>
RemoveISO ==
  /\ pc = "rmiso" /\ Remove("iso") /\ Goto("rmnvram")
  /\ UNCHANGED <<image, dom, auto, Own>>
RemoveNvram ==
  /\ pc = "rmnvram" /\ Remove("nvram") /\ DeleteReturns
  /\ removed' = removed \cup {vm}
  /\ UNCHANGED <<image, dom, auto, mode, made, faults>>

-----------------------------------------------------------------------------
(* A VM that is there already is taken as it is.                           *)
ExistsSkips ==
  /\ pc = "exists"
  /\ IF dom[vm] = "none" THEN Goto("image") ELSE Goto("start")
  /\ UNCHANGED <<Host, Own>>

(* CreateVM refuses a VM whose domain exists.                              *)
Exists ==
  /\ pc = "exists"
  /\ IF dom[vm] = "none" THEN Goto("image") ELSE End("failed")
  /\ UNCHANGED <<Host, Own>>

EnsureImage ==
  /\ pc = "image" /\ Goto("disk")
  /\ image' = IF image = "absent" THEN "ok" ELSE image
  /\ UNCHANGED <<file, dom, auto, Own>>

(* A file is made unless it is there, whoever made it.                     *)
Make(kind, state) ==
  IF file[vm][kind] = "absent"
  THEN /\ file' = [file EXCEPT ![vm][kind] = state]
       /\ made' = [made EXCEPT ![vm] = @ \cup {kind}]
  ELSE UNCHANGED <<file, made>>

(* qemu-img create over the image, then resize if more is asked for: an    *)
(* image cut short may or may not be readable to qemu-img info.            *)
CreateDisk ==
  /\ pc = "disk"
  /\ \/ /\ Make("disk", IF vm \in Grown THEN "small" ELSE "ok")
        /\ IF file[vm]["disk"] = "absent" /\ vm \in Grown
           THEN Goto("resize") ELSE Goto("iso")
     \/ /\ file[vm]["disk"] = "absent" /\ image = "torn"
        /\ End("failed") /\ UNCHANGED <<file, made>>
  /\ UNCHANGED <<image, dom, auto, mode, removed, faults>>

ResizeDisk ==
  /\ pc = "resize" /\ Goto("iso")
  /\ file' = [file EXCEPT ![vm]["disk"] = "ok"]
  /\ UNCHANGED <<image, dom, auto, Own>>

CreateISO ==
  /\ pc = "iso" /\ Make("iso", "ok")
  /\ Goto(IF Firmware THEN "nvram" ELSE "define")
  /\ UNCHANGED <<image, dom, auto, mode, removed, faults>>

CreateNvram ==
  /\ pc = "nvram" /\ Make("nvram", "ok") /\ Goto("define")
  /\ UNCHANGED <<image, dom, auto, mode, removed, faults>>

(* The XML has no uuid: a domain of that name makes the definition fail.   *)
Define ==
  /\ pc = "define"
  /\ IF dom[vm] = "none"
     THEN /\ Goto("autostart")
          /\ dom' = [dom EXCEPT ![vm] = "off"]
          /\ made' = [made EXCEPT ![vm] = @ \cup {"domain"}]
     ELSE End("failed") /\ UNCHANGED <<dom, made>>
  /\ UNCHANGED <<image, file, auto, mode, removed, faults>>

Autostart ==
  /\ pc = "autostart" /\ Goto("start")
  /\ auto' = auto \cup {vm}
  /\ UNCHANGED <<image, file, dom, Own>>

(* Starting fails on a domain that was started meanwhile, and may fail on  *)
(* files qemu or the firmware cannot use.                                  *)
Start ==
  /\ pc = "start"
  /\ \/ /\ dom[vm] = "off"
        /\ dom' = [dom EXCEPT ![vm] = "on"] /\ Advance("exists", "wait")
     \/ /\ dom[vm] # "off" \/ ~Bootable(vm)
        /\ End("failed") /\ UNCHANGED dom
  /\ UNCHANGED <<image, file, auto, Own>>

(* doVMDeploy waits, for a bounded time, until each VM answers on SSH.     *)
UpWhenActive(v) == dom[v] = "on"
Up(v) == dom[v] = "on" /\ Bootable(v)

Wait ==
  /\ pc = "wait"
  /\ IF ~Up(vm) THEN End("failed")
     ELSE IF vm < N THEN Advance("wait", "wait") ELSE End("deployed")
  /\ UNCHANGED <<Host, Own>>

-----------------------------------------------------------------------------
Fault == faults < MaxFaults /\ faults' = faults + 1

(* What the step in progress may leave when it is cut short.  wget writes  *)
(* to the image's own path; an OCI pull copies to a temporary file and     *)
(* renames it.  qemu-img, genisoimage and the NVRAM copy write in place.   *)
ImageCutShortInPlace ==
  IF pc = "image" /\ image = "absent" THEN {"absent", "torn"} ELSE {image}
ImageCutShort ==
  IF pc = "image" /\ image = "absent" /\ Source = "url"
  THEN {"absent", "torn"} ELSE {image}

FilesCutShort ==
  IF pc \in Kinds /\ file[vm][pc] = "absent"
  THEN {file, [file EXCEPT ![vm][pc] = "torn"]} ELSE {file}

(* A step of CreateVM or the wait returns an error, or the process is      *)
(* killed at any step: the run is over.                                    *)
Interrupted ==
  /\ pc # "idle" /\ Fault
  /\ image' \in ImageCutShort /\ file' \in FilesCutShort
  /\ End("failed")
  /\ UNCHANGED <<dom, auto, mode, made, removed>>

(* A step of DeleteVM fails: the rest of it is skipped, for this VM.  A    *)
(* lookup that fails is taken for a VM that is not there.                  *)
DeleteFails ==
  /\ pc \in DeleteSteps /\ Fault
  /\ DeleteReturns
  /\ UNCHANGED <<Host, mode, made, removed>>

(* VMExists takes a lookup that fails for a VM that is not there.          *)
ExistsFails ==
  /\ pc = "exists" /\ Fault
  /\ Goto("image")
  /\ UNCHANGED <<Host, mode, made, removed>>

(* The host reboots; libvirt starts the domains marked for it.             *)
HostReboot ==
  /\ Fault
  /\ dom' = [v \in VM |-> IF dom[v] \in {"none", "transient"} THEN "none"
                          ELSE IF v \in auto THEN "on" ELSE "off"]
  /\ image' \in ImageCutShort /\ file' \in FilesCutShort
  /\ IF pc = "idle" THEN UNCHANGED <<pc, vm, result>> ELSE End("failed")
  /\ UNCHANGED <<auto, mode, made, removed>>

(* vmctl start, and vmctl stop or destroy, beside the run.                 *)
VmctlStart(v) ==
  /\ Fault /\ dom[v] = "off"
  /\ dom' = [dom EXCEPT ![v] = "on"]
  /\ UNCHANGED <<pc, vm, result, image, file, auto, mode, made, removed>>
VmctlStop(v) ==
  /\ Fault /\ Active(v)
  /\ dom' = [dom EXCEPT ![v] = IF @ = "on" THEN "off" ELSE "none"]
  /\ UNCHANGED <<pc, vm, result, image, file, auto, mode, made, removed>>

-----------------------------------------------------------------------------
Delete == Lookup \/ DestroyDomain \/ Undefine \/ RemoveDisk \/ RemoveISO \/ RemoveNvram
Create == \/ Exists \/ EnsureImage \/ CreateDisk \/ ResizeDisk \/ CreateISO
          \/ CreateNvram \/ Define \/ Autostart \/ Start

Process == Delete \/ Create \/ Wait

Disturbance ==
  \/ Interrupted \/ DeleteFails \/ ExistsFails \/ HostReboot
  \/ \E v \in VM : VmctlStart(v) \/ VmctlStop(v)

Next ==
  \/ \E m \in {"deploy", "cleanup", "nocleanup"} : Run(m)
  \/ Process
  \/ Disturbance

Spec == Init /\ [][Next]_vars

(* Every call of a run returns or times out, and the user keeps coming     *)
(* back to the plain command, whatever else is tried in between.           *)
FairSpec == Spec /\ WF_vars(Process) /\ SF_vars(Run("deploy"))

-----------------------------------------------------------------------------
(* A domain libvirt knows, running or not, never misses a file its XML     *)
(* names: CreateVM defines it after its files are made, DeleteVM undefines *)
(* it before they go, and a run cut short between two steps keeps to that. *)
DefinedHasFiles ==
  \A v \in VM : dom[v] \in {"off", "on"} =>
     /\ image # "absent"
     /\ file[v]["disk"] # "absent" /\ file[v]["iso"] # "absent"
     /\ Firmware => file[v]["nvram"] # "absent"

(* A run that ends in success defined every domain itself, and built from  *)
(* files of its own every VM its cleanup took down completely: nothing of  *)
(* the previous deployment is in use there.                                *)
DeployedIsFresh ==
  result = "deployed" =>
    /\ \A v \in VM : "domain" \in made[v]
    /\ \A v \in removed : /\ {"disk", "iso"} \subseteq made[v]
                           /\ Firmware => "nvram" \in made[v]

(* A run that ends in success leaves VMs that boot again: a file cut short *)
(* by an earlier run is never taken for a good one, and every VM starts    *)
(* with the host.                                                          *)
DeployedBoots ==
  result = "deployed" => \A v \in VM : Bootable(v) /\ v \in auto

(* Idempotence: whatever runs cut short, failing commands, reboots and     *)
(* vmctl left behind, repeating dpu-sim gets to a deployment in the end.   *)
RerunDeploys == []<>(result = "deployed")

(* disk_size is a minimum (the comment in CreateVMDisk): a deployed VM has *)
(* a disk of at least that size.                                           *)
DiskSizeIsMinimum ==
  result = "deployed" => \A v \in VM : file[v]["disk"] = "ok"
=============================================================================
