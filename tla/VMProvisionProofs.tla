------------------------- MODULE VMProvisionProofs -------------------------
(***************************************************************************)
(* Proofs about VMProvision, for any number of VMs, any image source and   *)
(* any number of faults.                                                   *)
(***************************************************************************)
EXTENDS VMProvision, TLAPS

(* What a run knows at each of its steps, on the way to DefinedHasFiles:   *)
(* CreateVM has made the files of the steps behind it, and DeleteVM removes*)
(* files only when the domain is gone.                                     *)
StepFiles ==
  /\ pc \in {"disk", "resize", "iso", "nvram", "define"} => image # "absent"
  /\ pc \in {"resize", "iso", "nvram", "define"} => file[vm]["disk"] # "absent"
  /\ pc \in {"nvram", "define"} => file[vm]["iso"] # "absent"
  /\ pc = "define" /\ Firmware => file[vm]["nvram"] # "absent"
  /\ pc \in {"rmdisk", "rmiso", "rmnvram"} => dom[vm] \in {"none", "transient"}

FilesInv == DefinedHasFiles /\ StepFiles

(* The files of v are of this run's making.                                *)
OwnFiles(v) ==
  /\ {"disk", "iso"} \subseteq made[v]
  /\ Firmware => "nvram" \in made[v]

(* v is behind the loop of CreateAllVMs.                                   *)
Created(v) == pc = "wait" \/ (pc \in CreateSteps /\ v < vm)

(* On the way to DeployedIsFresh: what clean-up removed stays away until   *)
(* this run makes it again.                                                *)
Freshness ==
  /\ result = "deployed" => pc = "idle"
  /\ DeployedIsFresh
  /\ pc = "rmiso" => file[vm]["disk"] = "absent"
  /\ pc = "rmnvram" => file[vm]["disk"] = "absent" /\ file[vm]["iso"] = "absent"
  /\ pc # "idle" =>
       \A v \in removed : \A k \in Kinds : file[v][k] # "absent" => k \in made[v]
  /\ pc \in {"autostart", "start"} =>
       "domain" \in made[vm] /\ (vm \in removed => OwnFiles(vm))
  /\ \A v \in VM : Created(v) => "domain" \in made[v] /\ (v \in removed => OwnFiles(v))

(* On the way to DeployedBoots: the wait has seen the VMs behind it up, and*)
(* no step of a run or around it damages a file that is there.             *)
Booting ==
  /\ DeployedBoots
  /\ pc = "start" => vm \in auto
  /\ \A v \in VM : Created(v) => v \in auto
  /\ pc = "wait" => \A v \in VM : v < vm => Bootable(v)

ProvisionInv == TypeOK /\ FilesInv /\ Freshness /\ Booting

-----------------------------------------------------------------------------
(* The initial state is well typed and has no files to miss.               *)
LEMMA InitProvision == Init => ProvisionInv
<1> SUFFICES ASSUME Init PROVE ProvisionInv
  OBVIOUS
<1>1. TypeOK
  BY ProvisionAssumption DEF Init, TypeOK, VM, Steps, Kinds, FileState, DomState
<1>2. FilesInv
  BY DEF Init, FilesInv, DefinedHasFiles, StepFiles
<1>3. Freshness
  BY DEF Init, Freshness, DeployedIsFresh, Created, CreateSteps
<1>4. Booting
  BY DEF Init, Booting, DeployedBoots, Created, CreateSteps
<1> QED BY <1>1, <1>2, <1>3, <1>4 DEF ProvisionInv

(* The loops over the VMs stay within 1..N.                                *)
LEMMA AdvanceTypes ==
  ASSUME TypeOK, NEW step \in Steps, NEW after \in Steps, Advance(step, after)
  PROVE  pc' \in Steps /\ vm' \in VM /\ result' = result
  BY ProvisionAssumption DEF TypeOK, VM, Advance

(* A step to another step of the same VM keeps the types of the control.   *)
LEMMA GotoTypes ==
  ASSUME TypeOK, NEW step \in Steps, Goto(step)
  PROVE  pc' \in Steps /\ vm' \in VM /\ result' = result
  BY DEF TypeOK, Goto

(* So does the end of a run, however it ends.                              *)
LEMMA EndTypes ==
  ASSUME TypeOK, NEW r \in {"none", "deployed", "failed"}, End(r)
  PROVE  pc' \in Steps /\ vm' \in VM /\ result' \in {"none", "deployed", "failed"}
  BY ProvisionAssumption DEF TypeOK, VM, End, Steps

(* So does the return of DeleteVM.                                         *)
LEMMA DeleteReturnsTypes ==
  ASSUME TypeOK, DeleteReturns
  PROVE  pc' \in Steps /\ vm' \in VM /\ result' = result
  BY AdvanceTypes DEF DeleteReturns, Steps, DeleteSteps, CreateSteps

(* What a step cut short leaves is still an image and a table of files.    *)
LEMMA CutShortTypes ==
  ASSUME TypeOK, image' \in ImageCutShort, file' \in FilesCutShort
  PROVE  /\ image' \in {"absent", "torn", "ok"}
         /\ file' \in [VM -> [Kinds -> FileState]]
         /\ image # "absent" => image' = image
         /\ \A v \in VM : \A k \in Kinds :
              file[v][k] # "absent" => file'[v][k] = file[v][k]
  BY DEF TypeOK, ImageCutShort, FilesCutShort, Kinds, FileState

(* Making a file keeps the tables of files and of what the run made.       *)
LEMMA MakeTypes ==
  ASSUME TypeOK, NEW kind \in Kinds, NEW state \in FileState, Make(kind, state)
  PROVE  /\ file' \in [VM -> [Kinds -> FileState]]
         /\ made' \in [VM -> SUBSET (Kinds \cup {"domain"})]
<1>1. file' \in [VM -> [Kinds -> FileState]]
  <2>1. [file[vm] EXCEPT ![kind] = state] \in [Kinds -> FileState]
    BY DEF TypeOK
  <2>2. file' = [file EXCEPT ![vm] = [file[vm] EXCEPT ![kind] = state]] \/ file' = file
    BY DEF Make
  <2> QED BY <2>1, <2>2 DEF TypeOK
<1>2. made' \in [VM -> SUBSET (Kinds \cup {"domain"})]
  <2>1. made[vm] \cup {kind} \in SUBSET (Kinds \cup {"domain"})
    BY DEF TypeOK
  <2>2. made' = [made EXCEPT ![vm] = made[vm] \cup {kind}] \/ made' = made
    BY DEF Make
  <2> QED BY <2>1, <2>2 DEF TypeOK
<1> QED BY <1>1, <1>2

(* Every step keeps the types.                                             *)
LEMMA StepTypes == TypeOK /\ [Next]_vars => TypeOK'
<1> SUFFICES ASSUME TypeOK, [Next]_vars PROVE TypeOK'
  OBVIOUS
<1> USE ProvisionAssumption DEF Host, Own
<1>1. ASSUME NEW m \in {"deploy", "cleanup", "nocleanup"}, Run(m) PROVE TypeOK'
  BY <1>1 DEF TypeOK, Run, VM, Steps, DeleteSteps, CreateSteps, Kinds
<1>2. CASE Lookup
  BY <1>2, DeleteReturnsTypes, GotoTypes DEF TypeOK, Lookup, Steps, DeleteSteps
<1>3. CASE DestroyDomain
  BY <1>3, DeleteReturnsTypes, GotoTypes DEF TypeOK, DestroyDomain, Steps, DeleteSteps, DomState
<1>4. CASE Undefine
  BY <1>4, DeleteReturnsTypes, GotoTypes
  DEF TypeOK, Undefine, Steps, DeleteSteps, DomState, Kinds, FileState
<1>5. CASE RemoveDisk
  BY <1>5, GotoTypes DEF TypeOK, RemoveDisk, Remove, Steps, DeleteSteps, Kinds, FileState
<1>6. CASE RemoveISO
  BY <1>6, GotoTypes DEF TypeOK, RemoveISO, Remove, Steps, DeleteSteps, Kinds, FileState
<1>7. CASE RemoveNvram
  BY <1>7, DeleteReturnsTypes DEF TypeOK, RemoveNvram, Remove, Kinds, FileState
<1>8. CASE Exists
  BY <1>8, GotoTypes, EndTypes DEF TypeOK, Exists, Steps, CreateSteps
<1>9. CASE EnsureImage
  BY <1>9, GotoTypes DEF TypeOK, EnsureImage, Steps, CreateSteps
<1>11. CASE CreateDisk
  <2>1. /\ file' \in [VM -> [Kinds -> FileState]]
        /\ made' \in [VM -> SUBSET (Kinds \cup {"domain"})]
    BY MakeTypes, <1>11 DEF TypeOK, CreateDisk, Kinds, FileState
  <2>2. pc' \in Steps /\ vm' \in VM /\ result' \in {"none", "deployed", "failed"}
    BY <1>11, GotoTypes, EndTypes DEF TypeOK, CreateDisk, Steps, CreateSteps
  <2> QED BY <1>11, <2>1, <2>2 DEF TypeOK, CreateDisk
<1>12. CASE ResizeDisk
  BY <1>12, GotoTypes DEF TypeOK, ResizeDisk, Steps, CreateSteps, Kinds, FileState
<1>13. CASE CreateISO
  <2>1. /\ file' \in [VM -> [Kinds -> FileState]]
        /\ made' \in [VM -> SUBSET (Kinds \cup {"domain"})]
    BY MakeTypes, <1>13 DEF CreateISO, Kinds, FileState
  <2>2. pc' \in Steps /\ vm' \in VM /\ result' = result
    BY <1>13, GotoTypes DEF CreateISO, Steps, CreateSteps
  <2> QED BY <1>13, <2>1, <2>2 DEF TypeOK, CreateISO
<1>14. CASE CreateNvram
  <2>1. /\ file' \in [VM -> [Kinds -> FileState]]
        /\ made' \in [VM -> SUBSET (Kinds \cup {"domain"})]
    BY MakeTypes, <1>14 DEF CreateNvram, Kinds, FileState
  <2>2. pc' \in Steps /\ vm' \in VM /\ result' = result
    BY <1>14, GotoTypes DEF CreateNvram, Steps, CreateSteps
  <2> QED BY <1>14, <2>1, <2>2 DEF TypeOK, CreateNvram
<1>15. CASE Define
  BY <1>15, GotoTypes, EndTypes DEF TypeOK, Define, Steps, CreateSteps, DomState
<1>16. CASE Autostart
  BY <1>16, GotoTypes DEF TypeOK, Autostart, Steps, CreateSteps
<1>17. CASE Start
  BY <1>17, AdvanceTypes, EndTypes DEF TypeOK, Start, Steps, CreateSteps, DomState
<1>18. CASE Wait
  BY <1>18, AdvanceTypes, EndTypes DEF TypeOK, Wait, Steps
<1>19. ASSUME Fault PROVE faults' \in 0..MaxFaults
  BY <1>19 DEF TypeOK, Fault
<1>20. CASE Interrupted
  BY <1>20, <1>19, CutShortTypes, EndTypes DEF TypeOK, Interrupted
<1>21. CASE DeleteFails
  BY <1>21, <1>19, DeleteReturnsTypes DEF TypeOK, DeleteFails
<1>22. CASE ExistsFails
  BY <1>22, <1>19, GotoTypes DEF TypeOK, ExistsFails, Steps, CreateSteps
<1>23. CASE HostReboot
  <2>1. dom' \in [VM -> DomState]
    BY <1>23 DEF HostReboot, DomState
  <2>2. pc' \in Steps /\ vm' \in VM /\ result' \in {"none", "deployed", "failed"}
    BY <1>23, EndTypes DEF HostReboot, TypeOK
  <2> QED BY <1>23, <1>19, <2>1, <2>2, CutShortTypes DEF TypeOK, HostReboot
<1>24. ASSUME NEW v \in VM, VmctlStart(v) PROVE TypeOK'
  BY <1>24, <1>19 DEF TypeOK, VmctlStart, DomState
<1>25. ASSUME NEW v \in VM, VmctlStop(v) PROVE TypeOK'
  BY <1>25, <1>19 DEF TypeOK, VmctlStop, DomState
<1>26. CASE UNCHANGED vars
  BY <1>26 DEF TypeOK, vars
<1> QED
  BY <1>1, <1>2, <1>3, <1>4, <1>5, <1>6, <1>7, <1>8, <1>9, <1>11, <1>12, <1>13, <1>14,
     <1>15, <1>16, <1>17, <1>18, <1>20, <1>21, <1>22, <1>23, <1>24, <1>25, <1>26
  DEF Next, Process, Delete, Create, Disturbance

(* Every step keeps FilesInv: a step of CreateVM or DeleteVM by the order  *)
(* of the code, an interruption because it undoes nothing.                 *)
LEMMA StepFilesInv == TypeOK /\ FilesInv /\ [Next]_vars => FilesInv'
<1> SUFFICES ASSUME TypeOK, FilesInv, [Next]_vars PROVE FilesInv'
  OBVIOUS
<1> USE DEF Host, Own, FilesInv, DefinedHasFiles, StepFiles
<1>a. ASSUME DeleteReturns, file' = file, dom' = dom, image' = image
      PROVE  FilesInv'
  BY <1>a DEF DeleteReturns, Advance
<1>1. ASSUME NEW m \in {"deploy", "cleanup", "nocleanup"}, Run(m) PROVE FilesInv'
  BY <1>1 DEF Run
<1>2. CASE Lookup
  BY <1>2, <1>a DEF Lookup, Goto
<1>3. CASE DestroyDomain
  <2>1. \A v \in VM : dom'[v] \in {"off", "on"} => dom[v] \in {"off", "on"}
    BY <1>3 DEF DestroyDomain, TypeOK, DomState, Active
  <2> QED BY <1>3, <2>1 DEF DestroyDomain, Goto, DeleteReturns, Advance
<1>4. CASE Undefine
  <2>1. CASE dom[vm] \in {"off", "on"}
    BY <1>4, <2>1 DEF Undefine, Goto, TypeOK, Kinds
  <2> QED BY <1>4, <1>a, <2>1 DEF Undefine
<1>5. CASE RemoveDisk
  BY <1>5 DEF RemoveDisk, Remove, Goto, TypeOK, Kinds
<1>6. CASE RemoveISO
  BY <1>6 DEF RemoveISO, Remove, Goto, TypeOK, Kinds
<1>7. CASE RemoveNvram
  BY <1>7 DEF RemoveNvram, Remove, DeleteReturns, Advance, TypeOK, Kinds
<1>8. CASE Exists
  BY <1>8 DEF Exists, Goto, End
<1>9. CASE EnsureImage
  BY <1>9 DEF EnsureImage, Goto
<1>b. ASSUME NEW kind \in Kinds, NEW state \in FileState \ {"absent"}, Make(kind, state)
      PROVE  /\ file'[vm][kind] # "absent"
             /\ \A v \in VM : \A k \in Kinds : file[v][k] # "absent" => file'[v][k] # "absent"
  BY <1>b DEF Make, TypeOK
<1>11. CASE CreateDisk
  <2>1. CASE End("failed") /\ UNCHANGED <<file, made>>
    BY <1>11, <2>1 DEF CreateDisk, End
  <2>2. CASE Make("disk", IF vm \in Grown THEN "small" ELSE "ok")
    BY <1>11, <2>2, <1>b DEF CreateDisk, Goto, End, Kinds, FileState, TypeOK
  <2> QED BY <1>11, <2>1, <2>2 DEF CreateDisk
<1>12. CASE ResizeDisk
  BY <1>12 DEF ResizeDisk, Goto, TypeOK, Kinds
<1>13. CASE CreateISO
  BY <1>13, <1>b DEF CreateISO, Goto, Kinds, FileState, TypeOK
<1>14. CASE CreateNvram
  BY <1>14, <1>b DEF CreateNvram, Goto, Kinds, FileState, TypeOK
<1>15. CASE Define
  BY <1>15 DEF Define, Goto, End, TypeOK
<1>16. CASE Autostart
  BY <1>16 DEF Autostart, Goto
<1>17. CASE Start
  BY <1>17 DEF Start, Advance, End, TypeOK
<1>18. CASE Wait
  BY <1>18 DEF Wait, Advance, End
<1>20. CASE Interrupted
  BY <1>20, CutShortTypes DEF Interrupted, End, Kinds
<1>21. CASE DeleteFails
  BY <1>21, <1>a DEF DeleteFails
<1>22. CASE ExistsFails
  BY <1>22 DEF ExistsFails, Goto
<1>23. CASE HostReboot
  <2>1. \A v \in VM : dom'[v] \in {"off", "on"} => dom[v] \in {"off", "on"}
    BY <1>23 DEF HostReboot, TypeOK, DomState
  <2>2. pc' = "idle"
    BY <1>23 DEF HostReboot, End
  <2> QED BY <1>23, <2>1, <2>2, CutShortTypes DEF HostReboot, Kinds
<1>24. ASSUME NEW v \in VM, VmctlStart(v) PROVE FilesInv'
  BY <1>24 DEF VmctlStart, TypeOK
<1>25. ASSUME NEW v \in VM, VmctlStop(v) PROVE FilesInv'
  BY <1>25 DEF VmctlStop, TypeOK, DomState, Active
<1>26. CASE UNCHANGED vars
  BY <1>26 DEF vars
<1> QED
  BY <1>1, <1>2, <1>3, <1>4, <1>5, <1>6, <1>7, <1>8, <1>9, <1>11, <1>12, <1>13, <1>14,
     <1>15, <1>16, <1>17, <1>18, <1>20, <1>21, <1>22, <1>23, <1>24, <1>25, <1>26
  DEF Next, Process, Delete, Create, Disturbance

(* Nothing is cut short while no run is in progress.                       *)
LEMMA CutShortIdle ==
  ASSUME pc = "idle", image' \in ImageCutShort, file' \in FilesCutShort
  PROVE  image' = image /\ file' = file
  BY DEF ImageCutShort, FilesCutShort, Kinds

(* Every step keeps Freshness.                                             *)
LEMMA StepFreshness == TypeOK /\ FilesInv /\ Freshness /\ [Next]_vars => Freshness'
<1> SUFFICES ASSUME TypeOK, FilesInv, Freshness, [Next]_vars PROVE Freshness'
  OBVIOUS
<1> USE DEF Host, Own, FilesInv, StepFiles, Freshness, DeployedIsFresh, OwnFiles, Created,
            CreateSteps, DeleteSteps
<1>a. ASSUME DeleteReturns, UNCHANGED <<file, made, removed, image>>, pc \in DeleteSteps
      PROVE  Freshness'
  BY <1>a DEF DeleteReturns, Advance, TypeOK, VM
<1>b. ASSUME NEW kind \in Kinds, NEW state \in FileState, Make(kind, state), pc # "idle"
      PROVE  /\ \A v \in VM : made[v] \subseteq made'[v]
             /\ \A v \in removed : \A k \in Kinds : file'[v][k] # "absent" => k \in made'[v]
  <2>1. CASE file[vm][kind] # "absent"
    BY <1>b, <2>1 DEF Make
  <2>2. CASE file[vm][kind] = "absent"
    BY <1>b, <2>2 DEF Make, TypeOK
  <2> QED BY <2>1, <2>2
<1>1. ASSUME NEW m \in {"deploy", "cleanup", "nocleanup"}, Run(m) PROVE Freshness'
  BY <1>1 DEF Run, TypeOK, VM
<1>2. CASE Lookup
  BY <1>2, <1>a DEF Lookup, Goto
<1>3. CASE DestroyDomain
  BY <1>3, <1>a DEF DestroyDomain, Goto
<1>4. CASE Undefine
  <2>1. CASE dom[vm] \in {"off", "on"}
    BY <1>4, <2>1 DEF Undefine, Goto, TypeOK, Kinds
  <2> QED BY <1>4, <1>a, <2>1 DEF Undefine
<1>5. CASE RemoveDisk
  BY <1>5 DEF RemoveDisk, Remove, Goto, TypeOK, Kinds
<1>6. CASE RemoveISO
  BY <1>6 DEF RemoveISO, Remove, Goto, TypeOK, Kinds
<1>7. CASE RemoveNvram
  BY <1>7 DEF RemoveNvram, Remove, DeleteReturns, Advance, TypeOK, Kinds, VM
<1>8. CASE Exists
  BY <1>8 DEF Exists, Goto, End
<1>9. CASE EnsureImage
  BY <1>9 DEF EnsureImage, Goto
<1>11. CASE CreateDisk
  <2>1. CASE End("failed") /\ UNCHANGED <<file, made>>
    BY <1>11, <2>1 DEF CreateDisk, End
  <2>2. CASE Make("disk", IF vm \in Grown THEN "small" ELSE "ok")
    BY <1>11, <2>2, <1>b DEF CreateDisk, Goto, End, Kinds, FileState, TypeOK
  <2> QED BY <1>11, <2>1, <2>2 DEF CreateDisk
<1>12. CASE ResizeDisk
  BY <1>12 DEF ResizeDisk, Goto, TypeOK, Kinds
<1>13. CASE CreateISO
  BY <1>13, <1>b DEF CreateISO, Goto, Kinds, FileState, TypeOK
<1>14. CASE CreateNvram
  BY <1>14, <1>b DEF CreateNvram, Goto, Kinds, FileState, TypeOK
<1>15. CASE Define
  BY <1>15 DEF Define, Goto, End, TypeOK, Kinds
<1>16. CASE Autostart
  BY <1>16 DEF Autostart, Goto, TypeOK
<1>17. CASE Start
  BY <1>17, ProvisionAssumption DEF Start, Advance, End, TypeOK, VM
<1>18. CASE Wait
  BY <1>18, ProvisionAssumption DEF Wait, Advance, End, TypeOK, VM
<1>20. CASE Interrupted
  BY <1>20 DEF Interrupted, End
<1>21. CASE DeleteFails
  BY <1>21, <1>a DEF DeleteFails
<1>22. CASE ExistsFails
  BY <1>22 DEF ExistsFails, Goto
<1>23. CASE HostReboot
  BY <1>23, CutShortIdle DEF HostReboot, End
<1>24. ASSUME NEW v \in VM, VmctlStart(v) PROVE Freshness'
  BY <1>24 DEF VmctlStart
<1>25. ASSUME NEW v \in VM, VmctlStop(v) PROVE Freshness'
  BY <1>25 DEF VmctlStop
<1>26. CASE UNCHANGED vars
  BY <1>26 DEF vars
<1> QED
  BY <1>1, <1>2, <1>3, <1>4, <1>5, <1>6, <1>7, <1>8, <1>9, <1>11, <1>12, <1>13, <1>14,
     <1>15, <1>16, <1>17, <1>18, <1>20, <1>21, <1>22, <1>23, <1>24, <1>25, <1>26
  DEF Next, Process, Delete, Create, Disturbance

(* Every step keeps Booting.                                               *)
LEMMA StepBooting == TypeOK /\ Freshness /\ Booting /\ [Next]_vars => Booting'
<1> SUFFICES ASSUME TypeOK, Freshness, Booting, [Next]_vars PROVE Booting'
  OBVIOUS
<1> USE DEF Host, Own, Freshness, Booting, DeployedBoots, Created, CreateSteps, DeleteSteps,
            Bootable
<1>a. ASSUME DeleteReturns, pc \in DeleteSteps
      PROVE  Booting'
  BY <1>a DEF DeleteReturns, Advance, TypeOK, VM
<1>1. ASSUME NEW m \in {"deploy", "cleanup", "nocleanup"}, Run(m) PROVE Booting'
  BY <1>1 DEF Run, TypeOK, VM
<1>2. CASE Lookup
  BY <1>2, <1>a DEF Lookup, Goto
<1>3. CASE DestroyDomain
  BY <1>3, <1>a DEF DestroyDomain, Goto
<1>4. CASE Undefine
  <2>1. CASE dom[vm] \in {"off", "on"}
    BY <1>4, <2>1 DEF Undefine, Goto, TypeOK, Kinds
  <2> QED BY <1>4, <1>a, <2>1 DEF Undefine
<1>5. CASE RemoveDisk
  BY <1>5 DEF RemoveDisk, Remove, Goto, TypeOK, Kinds
<1>6. CASE RemoveISO
  BY <1>6 DEF RemoveISO, Remove, Goto, TypeOK, Kinds
<1>7. CASE RemoveNvram
  BY <1>7 DEF RemoveNvram, Remove, DeleteReturns, Advance, TypeOK, Kinds, VM
<1>8. CASE Exists
  BY <1>8 DEF Exists, Goto, End
<1>9. CASE EnsureImage
  BY <1>9 DEF EnsureImage, Goto
<1>11. CASE CreateDisk
  <2>1. CASE End("failed") /\ UNCHANGED <<file, made>>
    BY <1>11, <2>1 DEF CreateDisk, End
  <2>2. CASE Make("disk", IF vm \in Grown THEN "small" ELSE "ok")
    BY <1>11, <2>2 DEF CreateDisk, Goto, End, Kinds, FileState, TypeOK
  <2> QED BY <1>11, <2>1, <2>2 DEF CreateDisk
<1>12. CASE ResizeDisk
  BY <1>12 DEF ResizeDisk, Goto, TypeOK, Kinds
<1>13. CASE CreateISO
  BY <1>13 DEF CreateISO, Goto, Kinds, FileState, TypeOK
<1>14. CASE CreateNvram
  BY <1>14 DEF CreateNvram, Goto, Kinds, FileState, TypeOK
<1>15. CASE Define
  BY <1>15 DEF Define, Goto, End, TypeOK, Kinds
<1>16. CASE Autostart
  BY <1>16 DEF Autostart, Goto, TypeOK
<1>17. CASE Start
  BY <1>17, ProvisionAssumption DEF Start, Advance, End, TypeOK, VM
<1>18. CASE Wait
  BY <1>18, ProvisionAssumption DEF Wait, Up, Advance, End, TypeOK, VM
<1>20. CASE Interrupted
  BY <1>20 DEF Interrupted, End
<1>21. CASE DeleteFails
  BY <1>21, <1>a DEF DeleteFails
<1>22. CASE ExistsFails
  BY <1>22 DEF ExistsFails, Goto
<1>23. CASE HostReboot
  BY <1>23, CutShortIdle DEF HostReboot, End
<1>24. ASSUME NEW v \in VM, VmctlStart(v) PROVE Booting'
  BY <1>24 DEF VmctlStart
<1>25. ASSUME NEW v \in VM, VmctlStop(v) PROVE Booting'
  BY <1>25 DEF VmctlStop
<1>26. CASE UNCHANGED vars
  BY <1>26 DEF vars
<1> QED
  BY <1>1, <1>2, <1>3, <1>4, <1>5, <1>6, <1>7, <1>8, <1>9, <1>11, <1>12, <1>13, <1>14,
     <1>15, <1>16, <1>17, <1>18, <1>20, <1>21, <1>22, <1>23, <1>24, <1>25, <1>26
  DEF Next, Process, Delete, Create, Disturbance

-----------------------------------------------------------------------------
(* ProvisionInv is inductive, and so holds in every state.                 *)
THEOREM ProvisionInvariance == Spec => []ProvisionInv
<1>1. ProvisionInv /\ [Next]_vars => ProvisionInv'
  BY StepTypes, StepFilesInv, StepFreshness, StepBooting DEF ProvisionInv
<1> QED BY InitProvision, <1>1, PTL DEF Spec

(* The state of the host and of the run is well typed for any number of    *)
(* VMs and faults.                                                         *)
THEOREM ProvisionTypeCorrect == Spec => []TypeOK
<1>1. ProvisionInv => TypeOK
  BY DEF ProvisionInv
<1> QED BY ProvisionInvariance, <1>1, PTL

(* A domain libvirt knows has the files its XML names (the order of        *)
(* CreateVM and of DeleteVM), wherever runs are cut short.                 *)
THEOREM DomainsHaveFiles == Spec => []DefinedHasFiles
<1>1. ProvisionInv => DefinedHasFiles
  BY DEF ProvisionInv, FilesInv
<1> QED BY ProvisionInvariance, <1>1, PTL

(* A successful run defined its domains itself, over files of its own      *)
(* wherever its clean-up had removed the former ones.                      *)
THEOREM DeploymentsAreFresh == Spec => []DeployedIsFresh
<1>1. ProvisionInv => DeployedIsFresh
  BY DEF ProvisionInv, Freshness
<1> QED BY ProvisionInvariance, <1>1, PTL

(* A successful run leaves VMs that boot, from whole files, with the host: *)
(* nothing cut short by an earlier run passes the wait of doVMDeploy.      *)
THEOREM DeploymentsBoot == Spec => []DeployedBoots
<1>1. ProvisionInv => DeployedBoots
  BY DEF ProvisionInv, Booting
<1> QED BY ProvisionInvariance, <1>1, PTL
=============================================================================
