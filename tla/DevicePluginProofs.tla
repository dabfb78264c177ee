-------------------------- MODULE DevicePluginProofs --------------------------
(***************************************************************************)
(* The safety properties of DevicePlugin, for any set of devices and any   *)
(* timing that satisfies the module's assumptions.                         *)
(***************************************************************************)
EXTENDS DevicePlugin, FiniteSetTheorems, TLAPS

(* What each phase of Run has already, or not yet, touched. *)
PhaseInv ==
  /\ run = "down" => known = {} /\ check = NoCheck /\ call = NoCall
  /\ run # "serving" => watch = "none"
  /\ run \in {"down", "discovered"} => \A d \in Dev : misses[d] = 0
  /\ \A d \in Dev \ known : misses[d] = 0 /\ health[d] = "Healthy"
  /\ due => watch \in {"open", "dead"}

(* The container requests of a call are worked off one by one. *)
CallInv ==
  /\ call.ids = call.cur \union call.marked \union UNION call.left
  /\ call.pc \in {"validate", "done"} => call.cur = {}
  /\ call.pc = "done" => call.left = {}
  /\ call.cur \union call.marked \subseteq known
  /\ call.marked \subseteq devinfo
  /\ call.pc = "mark" => call.cur \subseteq devinfo

(* A device that is promised to a pod but not listed yet is inside its      *)
(* grace period by more than a check may last, and a held device that the   *)
(* check in progress did not see listed stays inside it until that check    *)
(* ends.                                                                    *)
GraceInv ==
  /\ run # "down" => granted \ listed \subseteq known
  /\ \A d \in Promised \intersect known : grace[d] > CheckSpan
  /\ check.pc = "allocated" /\ ~check.err =>
       \A d \in (granted \intersect known) \ check.allocated :
         grace[d] > CheckSpan - check.age

(* A held device has no misses. *)
HeldInv ==
  \A d \in (granted \union Promised) \intersect known : misses[d] = 0

(* A netdev and what is known of it. *)
NetdevInv ==
  /\ \A d \in Dev : where[d] = "pod" => d \in granted
  /\ \A d \in Dev : where[d] # "limbo" => limbo[d] = 0
  /\ \A d \in Dev : index[d] < nextIndex /\ ifindex[d] < nextIndex /\ check.byName[d] < nextIndex

(* The device the plugin knows is the netdev that exists. *)
Intact(d) == d \in known /\ where[d] # "gone" /\ index[d] = ifindex[d]

(* The misses counted, and the one that the check in progress may add. *)
MissPending(d) == check.pc \in {"ifaces", "allocated"} /\ ~Present(d)
MissBudget(d)  == misses[d] + (IF MissPending(d) THEN 1 ELSE 0)

(* An intact device out of kubelet's hands collects at most one miss per    *)
(* tick of its teardown, and the few that were under way when it began.     *)
MissBounded(d) ==
  /\ where[d] \in {"host", "renamed"} => MissBudget(d) <= TeardownMax + Overlap
  /\ where[d] = "limbo" => MissBudget(d) + (IF due THEN 1 ELSE 0) <= limbo[d] + Overlap

MissInv ==
  /\ CheckSpan = 0 /\ due => check.pc = "idle"
  /\ \A d \in Dev : Intact(d) => MissBounded(d)

-----------------------------------------------------------------------------
(* What the assumptions say of the constants, for arithmetic.              *)
LEMMA ConstantTypes ==
  /\ UnhealthyAfterMisses \in Nat \ {0}
  /\ Grace \in Nat /\ CheckSpan \in Nat /\ TeardownMax \in Nat /\ MaxIndex \in Nat
  /\ Overlap \in 1..2 /\ (CheckSpan # 0 => Overlap = 2)
  /\ CheckSpan + 1 < Grace
  /\ TeardownMax + Overlap < UnhealthyAfterMisses
  /\ Cardinality(Dev) \in Nat /\ Cardinality(Dev) < MaxIndex
  BY DevFinite, BoundsType, GraceCoversCheck, MissesCoverTeardown, FS_CardinalityType
  DEF Overlap

(* The idle check and the idle call are of their types.                    *)
LEMMA IdleTypes == NoCheck \in Checks /\ NoCall \in Calls
  BY ConstantTypes DEF NoCheck, NoCall, Checks, Calls, Index

(* The initial state is well typed: there is an ifindex for every device.  *)
LEMMA InitTypeOK == Init => TypeOK
<1> SUFFICES ASSUME Init PROVE TypeOK
  OBVIOUS
<1>1. index \in [Dev -> Index] /\ nextIndex \in 1..(MaxIndex + 1)
  BY ConstantTypes DEF Init, Index
<1>2. check \in Checks /\ call \in Calls
  BY IdleTypes DEF Init
<1>3. /\ where \in [Dev -> Places] /\ kview \in [Dev -> Health \union {"Absent"}]
      /\ health \in [Dev -> Health] /\ ifindex \in [Dev -> Index \union {0}]
  BY DEF Init, Places, Health
<1>4. /\ limbo \in [Dev -> 0..TeardownMax] /\ grace \in [Dev -> 0..Grace]
      /\ misses \in [Dev -> 0..UnhealthyAfterMisses]
  BY ConstantTypes DEF Init
<1> QED
  BY <1>1, <1>2, <1>3, <1>4 DEF Init, TypeOK

(* What a check concludes about a device has the right type. *)
LEMMA AfterTypes ==
  ASSUME TypeOK, NEW d \in Dev
  PROVE  MissesAfter(d) \in 0..UnhealthyAfterMisses /\ HealthAfter(d) \in Health
<1>1. misses[d] \in 0..UnhealthyAfterMisses /\ health[d] \in Health
  BY DEF TypeOK
<1>2. MissesAfter(d) \in 0..UnhealthyAfterMisses
  BY <1>1, ConstantTypes DEF MissesAfter
<1> QED
  BY <1>1, <1>2 DEF HealthAfter, Health

(* Every step keeps the types.                                             *)
LEMMA StepTypeOK == TypeOK /\ [Next]_vars => TypeOK'
<1> SUFFICES ASSUME TypeOK, [Next]_vars PROVE TypeOK'
  OBVIOUS
<1> USE ConstantTypes, IdleTypes
        DEF TypeOK, netdevVars, kubeletVars, tableVars, Health, Index, Places
<1>1. CASE Discover
  BY <1>1 DEF Discover, OnHost
<1>2. CASE Crash
  <2>1. /\ health' \in [Dev -> Health] /\ kview' \in [Dev -> Health \union {"Absent"}]
        /\ ifindex' \in [Dev -> Index \union {0}]
    BY <1>2 DEF Crash
  <2>2. misses' \in [Dev -> 0..UnhealthyAfterMisses] /\ grace' \in [Dev -> 0..Grace]
    BY <1>2 DEF Crash
  <2>3. check' \in Checks /\ call' \in Calls
    BY <1>2 DEF Crash
  <2> QED
    BY <1>2, <2>1, <2>2, <2>3 DEF Crash
<1>3. CASE OpenWatch
  BY <1>3 DEF OpenWatch, Snapshot
<1>4. CASE CheckListIfaces
  <2>1. {index[d] : d \in InHostNs} \in SUBSET Index
    BY DEF InHostNs
  <2>2. [d \in Dev |-> IF d \in OnHost THEN index[d] ELSE 0] \in [Dev -> Index \union {0}]
    BY DEF OnHost
  <2>3. check' \in Checks
    BY <1>4, <2>1, <2>2 DEF CheckListIfaces, Checks
  <2> QED
    BY <1>4, <2>3 DEF CheckListIfaces
<1>5. CASE CheckNoIfaces
  BY <1>5 DEF CheckNoIfaces, AfterStart
<1>6. CASE CheckListAllocated
  BY <1>6 DEF CheckListAllocated, Checks
<1>7. CASE CheckListFails
  BY <1>7 DEF CheckListFails, Checks
<1>8. CASE CheckUpdate
  BY <1>8, AfterTypes DEF CheckUpdate, AfterStart, Added, Checks, NoCheck
<1>9. CASE WatchSend
  BY <1>9 DEF WatchSend, Snapshot
<1>10. CASE KubeletAllocate
  <2>1. PICK req \in SUBSET (SUBSET {d \in Dev \ granted : kview[d] = "Healthy"} \ {{}}) :
          call' = [NoCall EXCEPT !.pc = "validate", !.ids = UNION req, !.left = req]
    BY <1>10 DEF KubeletAllocate
  <2>2. req \in SUBSET SUBSET Dev /\ UNION req \in SUBSET Dev
    OBVIOUS
  <2>3. call' \in Calls
    BY <2>1, <2>2 DEF Calls
  <2> QED
    BY <1>10, <2>3 DEF KubeletAllocate
<1>11. CASE AllocateValidate
  <2>1. PICK c \in call.left :
          call' = IF c \subseteq known
                  THEN [call EXCEPT !.pc = "write", !.cur = c, !.left = @ \ {c}]
                  ELSE [call EXCEPT !.pc = "failed"]
    BY <1>11 DEF AllocateValidate
  <2>2. c \in SUBSET Dev /\ call.left \ {c} \in SUBSET SUBSET Dev
    BY DEF Calls
  <2>3. call' \in Calls
    BY <2>1, <2>2 DEF Calls
  <2> QED
    BY <1>11, <2>3 DEF AllocateValidate
<1>12. CASE AllocateWrite
  BY <1>12 DEF AllocateWrite, Calls
<1>13. CASE AllocateMark
  <2>1. call' \in Calls
    BY <1>13 DEF AllocateMark, Calls
  <2>2. grace' \in [Dev -> 0..Grace] /\ misses' \in [Dev -> 0..UnhealthyAfterMisses]
    BY <1>13 DEF AllocateMark
  <2> QED
    BY <1>13, <2>1, <2>2 DEF AllocateMark
<1>14. CASE AllocateReturn
  BY <1>14 DEF AllocateReturn, Calls
<1>15. CASE KubeletRestart
  BY <1>15 DEF KubeletRestart, Calls
<1>16. CASE Tick
  BY <1>16 DEF Tick, Checks
<1>17. CASE \/ Register \/ WatchReturn \/ UNCHANGED vars
  BY <1>17 DEF Register, WatchReturn, vars
<1>18. ASSUME NEW d \in Dev, \/ KubeletList(d) \/ CniAdd(d) \/ KubeletFree(d) \/ CniDel(d)
                             \/ Rename(d) \/ Destroy(d) \/ Recreate(d)
      PROVE  TypeOK'
  BY <1>18 DEF KubeletList, CniAdd, KubeletFree, CniDel, Rename, Destroy, Recreate
<1> QED
  BY <1>1, <1>2, <1>3, <1>4, <1>5, <1>6, <1>7, <1>8, <1>9, <1>10, <1>11, <1>12, <1>13,
     <1>14, <1>15, <1>16, <1>17, <1>18
  DEF Next, RunStep, WatchStep, CallStep, HostStep
(***** Phases and calls. *****)

(* Every step keeps the phases of Run, the stream and the check in step.   *)
LEMMA StepPhaseInv ==
  ASSUME TypeOK, PhaseInv, [Next]_vars
  PROVE  PhaseInv'
<1> USE DEF PhaseInv, NoCheck, NoCall, netdevVars, kubeletVars, tableVars
<1>1. CASE Discover
  BY <1>1 DEF Discover, OnHost
<1>2. CASE Register
  BY <1>2 DEF Register
<1>3. CASE Crash
  BY <1>3 DEF Crash
<1>4. CASE OpenWatch
  BY <1>4 DEF OpenWatch
<1>5. CASE CheckListIfaces
  BY <1>5 DEF CheckListIfaces, CheckStarts
<1>6. CASE CheckNoIfaces
  BY <1>6 DEF CheckNoIfaces, CheckStarts, AfterStart
<1>7. CASE CheckListAllocated
  BY <1>7 DEF CheckListAllocated
<1>8. CASE CheckListFails
  BY <1>8 DEF CheckListFails
<1>9. CASE CheckUpdate
  <2>1. \A d \in Dev \ known : MissesAfter(d) = misses[d] /\ HealthAfter(d) = health[d]
    BY DEF MissesAfter, HealthAfter, Alive, Missed
  <2>2. run' = "discovered" => FALSE
    BY <1>9 DEF CheckUpdate, AfterStart
  <2>3. run # "down"
    BY <1>9 DEF CheckUpdate
  <2>4. run' # "down"
    BY <1>9, <2>3 DEF CheckUpdate, AfterStart
  <2>5. \A d \in Dev \ known' : misses'[d] = 0 /\ health'[d] = "Healthy"
    BY <1>9, <2>1 DEF CheckUpdate
  <2>6. (run' # "serving" => watch' = "none") /\ (due' => watch' \in {"open", "dead"})
    BY <1>9 DEF CheckUpdate, AfterStart
  <2> QED
    BY <2>2, <2>4, <2>5, <2>6
<1>10. CASE WatchSend
  BY <1>10 DEF WatchSend
<1>11. CASE KubeletAllocate
  BY <1>11 DEF KubeletAllocate
<1>12. CASE AllocateValidate
  BY <1>12 DEF AllocateValidate
<1>13. CASE AllocateWrite
  BY <1>13 DEF AllocateWrite
<1>14. CASE AllocateMark
  BY <1>14 DEF AllocateMark
<1>15. CASE AllocateReturn
  BY <1>15 DEF AllocateReturn
<1>16. CASE KubeletRestart
  BY <1>16 DEF KubeletRestart
<1>17. CASE Tick
  <2>1. due' => watch \in {"open", "dead"}
    BY <1>17 DEF Tick
  <2>2. run = "down" => check' = check
    BY <1>17 DEF Tick
  <2> QED
    BY <1>17, <2>1, <2>2 DEF Tick
<1>18. CASE \/ WatchReturn \/ UNCHANGED vars
  BY <1>18 DEF WatchReturn, vars
<1>19. ASSUME NEW d \in Dev, \/ KubeletList(d) \/ CniAdd(d) \/ KubeletFree(d) \/ CniDel(d)
                             \/ Rename(d) \/ Destroy(d) \/ Recreate(d)
      PROVE  PhaseInv'
  BY <1>19 DEF KubeletList, CniAdd, KubeletFree, CniDel, Rename, Destroy, Recreate
<1> QED
  BY <1>1, <1>2, <1>3, <1>4, <1>5, <1>6, <1>7, <1>8, <1>9, <1>10, <1>11, <1>12, <1>13,
     <1>14, <1>15, <1>16, <1>17, <1>18, <1>19
  DEF Next, RunStep, WatchStep, CallStep, HostStep

(* Every step keeps what an Allocate in progress knows of its devices.     *)
LEMMA StepCallInv ==
  ASSUME TypeOK, PhaseInv, CallInv, [Next]_vars
  PROVE  CallInv'
<1> USE DEF CallInv, netdevVars, kubeletVars, tableVars
<1>1. CASE Discover
  BY <1>1 DEF Discover, PhaseInv, NoCall
<1>2. CASE Crash
  BY <1>2 DEF Crash, NoCall
<1>3. CASE KubeletAllocate
  BY <1>3 DEF KubeletAllocate, NoCall
<1>4. CASE AllocateValidate
  BY <1>4 DEF AllocateValidate
<1>5. CASE AllocateWrite
  <2>1. /\ call'.cur = call.cur /\ call'.marked = call.marked /\ call'.left = call.left
        /\ call'.ids = call.ids /\ known' = known /\ devinfo \subseteq devinfo'
        /\ call'.pc = "failed" \/ (call'.pc = "mark" /\ call.cur \subseteq devinfo')
    BY <1>5 DEF AllocateWrite, TypeOK, Calls
  <2> QED
    BY <2>1
<1>6. CASE AllocateMark
  BY <1>6 DEF AllocateMark
<1>7. CASE AllocateReturn
  <2>1. call' = NoCall
    BY <1>7 DEF AllocateReturn
  <2> QED
    BY <2>1 DEF NoCall
<1>8. CASE KubeletRestart
  BY <1>8 DEF KubeletRestart
<1>9. CASE \/ Register \/ OpenWatch \/ CheckListIfaces \/ CheckNoIfaces
           \/ CheckListAllocated \/ CheckListFails \/ CheckUpdate \/ WatchSend
           \/ WatchReturn \/ Tick \/ UNCHANGED vars
  BY <1>9 DEF Register, OpenWatch, CheckListIfaces, CheckNoIfaces, CheckListAllocated,
              CheckListFails, CheckUpdate, WatchSend, WatchReturn, Tick, vars
<1>10. ASSUME NEW d \in Dev, \/ KubeletList(d) \/ CniAdd(d) \/ KubeletFree(d) \/ CniDel(d)
                             \/ Rename(d) \/ Destroy(d) \/ Recreate(d)
      PROVE  CallInv'
  BY <1>10 DEF KubeletList, CniAdd, KubeletFree, CniDel, Rename, Destroy, Recreate
<1> QED
  BY <1>1, <1>2, <1>3, <1>4, <1>5, <1>6, <1>7, <1>8, <1>9, <1>10
  DEF Next, RunStep, WatchStep, CallStep, HostStep

(***** The grace period outlasts every check. *****)

(* Every step keeps a grace period on all that kubelet does not list yet.  *)
LEMMA StepGraceInv ==
  ASSUME TypeOK, PhaseInv, CallInv, GraceInv, [Next]_vars
  PROVE  GraceInv'
<1> USE DEF GraceInv, Promised, netdevVars, kubeletVars, tableVars
<1>1. CASE Discover
  BY <1>1 DEF Discover, PhaseInv, NoCall, NoCheck
<1>2. CASE Crash
  BY <1>2 DEF Crash, NoCall, NoCheck
<1>3. CASE CheckListIfaces
  BY <1>3 DEF CheckListIfaces, NoCheck, Checks
<1>4. CASE CheckNoIfaces
  BY <1>4 DEF CheckNoIfaces, AfterStart, CheckStarts, PhaseInv
<1>5. CASE CheckListAllocated
  BY <1>5, ConstantTypes DEF CheckListAllocated, TypeOK, Checks
<1>6. CASE CheckListFails
  BY <1>6 DEF CheckListFails, TypeOK, Checks
<1>7. CASE CheckUpdate
  BY <1>7 DEF CheckUpdate, NoCheck, AfterStart, Added, PhaseInv, CallInv
<1>8. CASE WatchSend
  BY <1>8 DEF WatchSend, NoCheck
<1>9. CASE KubeletAllocate
  BY <1>9 DEF KubeletAllocate, NoCall
<1>10. CASE AllocateValidate
  BY <1>10 DEF AllocateValidate, TypeOK, Calls
<1>11. CASE AllocateWrite
  BY <1>11 DEF AllocateWrite, TypeOK, Calls
<1>12. CASE AllocateMark
  <2>1. call'.marked = call.marked \union call.cur /\ call'.live = call.live
    BY <1>12 DEF AllocateMark, TypeOK, Calls
  <2>2. \A d \in Dev : grace'[d] > CheckSpan \/ (d \notin call.cur /\ grace'[d] = grace[d])
    <3> SUFFICES ASSUME NEW d \in Dev
                 PROVE  grace'[d] > CheckSpan \/ (d \notin call.cur /\ grace'[d] = grace[d])
      OBVIOUS
    <3>1. call.cur \subseteq known
      BY DEF CallInv
    <3>2. CASE d \in call.cur
      BY <3>1, <3>2, <1>12, ConstantTypes DEF AllocateMark
    <3>3. CASE d \notin call.cur
      BY <3>3, <1>12 DEF AllocateMark
    <3> QED
      BY <3>2, <3>3
  <2>3. check.age \in Nat /\ known \subseteq Dev /\ \A d \in Dev : grace[d] \in Nat /\ grace'[d] \in Nat
    BY <1>12, ConstantTypes DEF AllocateMark, TypeOK, Checks
  <2> QED
    BY <1>12, <2>1, <2>2, <2>3, ConstantTypes DEF AllocateMark
<1>13. CASE AllocateReturn
  <2>1. \A d \in granted' \ granted : d \in Promised /\ d \in known
    BY <1>13 DEF AllocateReturn, CallInv
  <2>2. Promised' \subseteq Promised
    BY <1>13, <2>1 DEF AllocateReturn, NoCall
  <2>3. check.age \in Nat /\ \A d \in Dev : grace[d] \in Nat
    BY ConstantTypes DEF TypeOK, Checks
  <2>4. /\ run' # "down" => granted' \ listed' \subseteq known'
        /\ \A d \in Promised' \intersect known' : grace'[d] > CheckSpan
    BY <1>13, <2>1, <2>2 DEF AllocateReturn
  <2>5. ASSUME check.pc = "allocated", ~check.err, NEW d \in (granted' \intersect known) \ check.allocated
        PROVE  grace[d] > CheckSpan - check.age
    <3>1. d \in Dev
      BY DEF TypeOK
    <3>2. CASE d \in granted
      BY <2>5, <3>2
    <3>3. CASE d \notin granted
      BY <2>1, <2>3, <3>1, <3>3, ConstantTypes
    <3> QED
      BY <3>2, <3>3
  <2> QED
    BY <1>13, <2>4, <2>5 DEF AllocateReturn
<1>14. CASE KubeletRestart
  BY <1>14 DEF KubeletRestart, TypeOK, Calls
<1>15. CASE Tick
  BY <1>15, ConstantTypes DEF Tick, TypeOK, Checks
<1>16. CASE \/ Register \/ OpenWatch \/ WatchReturn \/ UNCHANGED vars
  BY <1>16 DEF Register, OpenWatch, WatchReturn, vars
<1>17. ASSUME NEW d \in Dev, \/ KubeletList(d) \/ CniAdd(d) \/ KubeletFree(d) \/ CniDel(d)
                             \/ Rename(d) \/ Destroy(d) \/ Recreate(d)
      PROVE  GraceInv'
  BY <1>17 DEF KubeletList, CniAdd, KubeletFree, CniDel, Rename, Destroy, Recreate
<1> QED
  BY <1>1, <1>2, <1>3, <1>4, <1>5, <1>6, <1>7, <1>8, <1>9, <1>10, <1>11, <1>12, <1>13,
     <1>14, <1>15, <1>16, <1>17
  DEF Next, RunStep, WatchStep, CallStep, HostStep

(* A check never counts a miss against a device that a pod holds or will    *)
(* hold.                                                                    *)
LEMMA HeldNotMissed ==
  ASSUME TypeOK, GraceInv, check.pc = "allocated", NEW d \in granted \union Promised
  PROVE  ~Missed(d)
<1> SUFFICES ASSUME d \in known, d \notin check.allocated, ~check.err PROVE grace[d] > 0
  BY DEF Missed, InUse
<1>1. check.age \in 0..CheckSpan /\ grace[d] \in Nat
  BY ConstantTypes DEF TypeOK, Checks
<1>2. CASE d \in Promised
  BY <1>1, <1>2, ConstantTypes DEF GraceInv
<1>3. CASE d \in granted
  BY <1>1, <1>3, ConstantTypes DEF GraceInv
<1> QED
  BY <1>2, <1>3

(* Every step keeps the check in progress aware of the devices of pods.    *)
LEMMA StepHeldInv ==
  ASSUME TypeOK, PhaseInv, CallInv, GraceInv, HeldInv, [Next]_vars
  PROVE  HeldInv'
<1> USE DEF HeldInv, Promised, netdevVars, kubeletVars, tableVars
<1>1. CASE Discover
  <2>1. \A d \in Dev : misses'[d] = 0
    BY <1>1 DEF Discover, PhaseInv
  <2>2. granted' \union Promised' \subseteq Dev
    BY <1>1 DEF Discover, TypeOK, PhaseInv, NoCall
  <2> QED
    BY <2>1, <2>2
<1>2. CASE Crash
  BY <1>2 DEF Crash, NoCall, NoCheck
<1>3. CASE CheckUpdate
  <2>1. ASSUME NEW d \in (granted' \union Promised') \intersect known' PROVE misses'[d] = 0
    <3>1. d \in Dev /\ d \in granted \union Promised
      BY <1>3, <2>1 DEF CheckUpdate, TypeOK, Calls
    <3>2. misses[d] = 0
      BY <3>1 DEF PhaseInv
    <3>3. ~Missed(d)
      BY <1>3, <3>1, HeldNotMissed DEF CheckUpdate
    <3>4. misses'[d] = MissesAfter(d)
      BY <1>3, <3>1 DEF CheckUpdate
    <3> QED
      BY <3>2, <3>3, <3>4 DEF MissesAfter
  <2> QED
    BY <2>1
<1>4. CASE KubeletAllocate
  BY <1>4 DEF KubeletAllocate, NoCall
<1>5. CASE AllocateValidate
  BY <1>5 DEF AllocateValidate, TypeOK, Calls
<1>6. CASE AllocateWrite
  BY <1>6 DEF AllocateWrite, TypeOK, Calls
<1>7. CASE AllocateMark
  BY <1>7 DEF AllocateMark, TypeOK, Calls, CallInv
<1>8. CASE AllocateReturn
  BY <1>8 DEF AllocateReturn, TypeOK, Calls, CallInv, NoCall
<1>9. CASE KubeletRestart
  BY <1>9 DEF KubeletRestart, TypeOK, Calls
<1>10. CASE Tick
  BY <1>10 DEF Tick, TypeOK
<1>11. CASE \/ Register \/ OpenWatch \/ CheckListIfaces \/ CheckNoIfaces
            \/ CheckListAllocated \/ CheckListFails \/ WatchSend \/ WatchReturn
            \/ UNCHANGED vars
  BY <1>11 DEF Register, OpenWatch, CheckListIfaces, CheckNoIfaces, CheckListAllocated,
               CheckListFails, WatchSend, WatchReturn, vars
<1>12. ASSUME NEW d \in Dev, \/ KubeletList(d) \/ CniAdd(d) \/ KubeletFree(d) \/ CniDel(d)
                             \/ Rename(d) \/ Destroy(d) \/ Recreate(d)
      PROVE  HeldInv'
  BY <1>12 DEF KubeletList, CniAdd, KubeletFree, CniDel, Rename, Destroy, Recreate
<1> QED
  BY <1>1, <1>2, <1>3, <1>4, <1>5, <1>6, <1>7, <1>8, <1>9, <1>10, <1>11, <1>12
  DEF Next, RunStep, WatchStep, CallStep, HostStep

(***** Netdevs, and the misses a teardown can collect. *****)

(* Every step keeps the ifindexes unique and those recorded in the past.   *)
LEMMA StepNetdevInv ==
  ASSUME TypeOK, PhaseInv, CallInv, NetdevInv, [Next]_vars
  PROVE  NetdevInv'
<1> USE DEF NetdevInv, netdevVars, kubeletVars, tableVars
<1>1. CASE Discover
  BY <1>1 DEF Discover, TypeOK, PhaseInv, NoCheck
<1>2. CASE Crash
  BY <1>2, ConstantTypes DEF Crash, NoCheck, TypeOK
<1>3. CASE CheckListIfaces
  BY <1>3 DEF CheckListIfaces, NoCheck, TypeOK, Checks
<1>4. CASE CheckListAllocated
  BY <1>4 DEF CheckListAllocated, TypeOK, Checks
<1>5. CASE CheckListFails
  BY <1>5 DEF CheckListFails, TypeOK, Checks
<1>6. CASE CheckUpdate
  BY <1>6 DEF CheckUpdate, NoCheck, TypeOK
<1>7. CASE WatchSend
  BY <1>7 DEF WatchSend, NoCheck, TypeOK
<1>8. ASSUME NEW d \in Dev, CniAdd(d) PROVE NetdevInv'
  BY <1>8 DEF CniAdd, TypeOK
<1>9. ASSUME NEW d \in Dev, KubeletFree(d) PROVE NetdevInv'
  BY <1>9 DEF KubeletFree, TypeOK
<1>10. ASSUME NEW d \in Dev, CniDel(d) PROVE NetdevInv'
  BY <1>10 DEF CniDel, TypeOK
<1>11. ASSUME NEW d \in Dev, Rename(d) PROVE NetdevInv'
  BY <1>11 DEF Rename, TypeOK
<1>12. ASSUME NEW d \in Dev, Destroy(d) PROVE NetdevInv'
  BY <1>12 DEF Destroy, TypeOK
<1>13. ASSUME NEW d \in Dev, Recreate(d) PROVE NetdevInv'
  <2>1. nextIndex \in Nat /\ nextIndex' = nextIndex + 1
    BY <1>13, ConstantTypes DEF Recreate, TypeOK
  <2>2. \A e \in Dev : index[e] \in Nat /\ ifindex[e] \in Nat /\ check.byName[e] \in Nat
    BY ConstantTypes DEF TypeOK, Index, Checks
  <2>3. \A e \in Dev : index'[e] < nextIndex'
    BY <1>13, <2>1, <2>2 DEF Recreate, TypeOK
  <2>4. \A e \in Dev : ifindex'[e] < nextIndex' /\ check'.byName[e] < nextIndex'
    BY <1>13, <2>1, <2>2 DEF Recreate
  <2>5. \A e \in Dev : (where'[e] = "pod" => e \in granted') /\ (where'[e] # "limbo" => limbo'[e] = 0)
    BY <1>13 DEF Recreate, TypeOK
  <2> QED
    BY <2>3, <2>4, <2>5
<1>14. CASE Tick
  BY <1>14 DEF Tick, TypeOK, Checks
<1>15. CASE \/ Register \/ OpenWatch \/ CheckNoIfaces \/ WatchReturn \/ KubeletAllocate
            \/ AllocateValidate \/ AllocateWrite \/ AllocateMark \/ AllocateReturn
            \/ KubeletRestart \/ UNCHANGED vars
  BY <1>15 DEF Register, OpenWatch, CheckNoIfaces, WatchReturn, KubeletAllocate,
               AllocateValidate, AllocateWrite, AllocateMark, AllocateReturn,
               KubeletRestart, vars
<1>16. ASSUME NEW d \in Dev, \/ KubeletList(d)
      PROVE  NetdevInv'
  BY <1>16 DEF KubeletList
<1> QED
  BY <1>1, <1>2, <1>3, <1>4, <1>5, <1>6, <1>7, <1>8, <1>9, <1>10, <1>11, <1>12, <1>13,
     <1>14, <1>15, <1>16
  DEF Next, RunStep, WatchStep, CallStep, HostStep

(* The numbers that MissBudget adds up are naturals.                       *)
LEMMA MissTypes ==
  ASSUME TypeOK, NEW d \in Dev
  PROVE  /\ misses[d] \in Nat /\ limbo[d] \in 0..TeardownMax
         /\ MissBudget(d) = misses[d] + 1 \/ (MissBudget(d) = misses[d] /\ ~MissPending(d))
  BY ConstantTypes DEF TypeOK, MissBudget

(* An action that adds no miss, starts no check and moves nothing keeps the *)
(* bound.                                                                   *)
LEMMA MissKept ==
  ASSUME TypeOK, TypeOK', MissInv, NEW d \in Dev,
         Intact(d)' => Intact(d),
         misses'[d] <= misses[d], MissPending(d)' => MissPending(d), due' => due,
         \/ where'[d] = where[d] /\ limbo'[d] = limbo[d]
         \/ where'[d] \in {"host", "renamed"} /\ where[d] \in {"host", "renamed"}
  PROVE  Intact(d)' => MissBounded(d)'
<1> SUFFICES ASSUME Intact(d)' PROVE MissBounded(d)'
  OBVIOUS
<1>1. MissBounded(d)
  BY DEF MissInv
<1>2. misses[d] \in Nat /\ misses'[d] \in Nat /\ limbo[d] \in Nat
  BY MissTypes, ConstantTypes DEF TypeOK
<1>3. MissBudget(d)' <= MissBudget(d)
  BY <1>2 DEF MissBudget
<1>4. MissBudget(d)' \in Nat /\ MissBudget(d) \in Nat
  BY <1>2 DEF MissBudget
<1>5. CASE where'[d] = where[d] /\ limbo'[d] = limbo[d]
  BY <1>1, <1>2, <1>3, <1>4, <1>5, ConstantTypes DEF MissBounded
<1>6. CASE where'[d] \in {"host", "renamed"} /\ where[d] \in {"host", "renamed"}
  BY <1>1, <1>2, <1>3, <1>4, <1>6, ConstantTypes DEF MissBounded
<1> QED
  BY <1>5, <1>6

(* Every step keeps the misses of an intact VF within its teardown.        *)
LEMMA StepMissInv ==
  ASSUME TypeOK, TypeOK', PhaseInv, HeldInv, NetdevInv, MissInv, [Next]_vars
  PROVE  MissInv'
<1> USE DEF netdevVars, kubeletVars, tableVars
<1>1. CASE Discover
  <2>1. ~due' /\ check'.pc = "idle"
    BY <1>1 DEF Discover, PhaseInv, NoCheck
  <2>2. \A d \in Dev : MissBudget(d)' = 0
    BY <1>1, <2>1 DEF Discover, PhaseInv, MissBudget, MissPending
  <2>3. \A d \in Dev : limbo'[d] \in Nat
    BY ConstantTypes DEF TypeOK
  <2> QED
    BY <2>1, <2>2, <2>3, ConstantTypes DEF MissInv, MissBounded
<1>2. CASE Register
  <2>1. CheckSpan = 0 /\ due' => check'.pc = "idle"
    BY <1>2 DEF Register, MissInv
  <2>2. ASSUME NEW d \in Dev PROVE Intact(d)' => MissBounded(d)'
    <3>1. /\ Intact(d)' => Intact(d)
          /\ misses'[d] <= misses[d]
          /\ MissPending(d)' => MissPending(d)
          /\ due' => due
          /\ where'[d] = where[d] /\ limbo'[d] = limbo[d]
      BY <1>2, MissTypes DEF Register, Intact, MissPending, Present
    <3> QED
      BY <3>1, MissKept
  <2> QED
    BY <2>1, <2>2 DEF MissInv
<1>3. CASE Crash
  <2>1. ~due' /\ known' = {}
    BY <1>3 DEF Crash
  <2> QED
    BY <2>1 DEF MissInv, Intact
<1>4. CASE OpenWatch
  <2>1. CheckSpan = 0 /\ due' => check'.pc = "idle"
    BY <1>4 DEF OpenWatch, MissInv
  <2>2. ASSUME NEW d \in Dev PROVE Intact(d)' => MissBounded(d)'
    <3>1. /\ Intact(d)' => Intact(d)
          /\ misses'[d] <= misses[d]
          /\ MissPending(d)' => MissPending(d)
          /\ due' => due
          /\ where'[d] = where[d] /\ limbo'[d] = limbo[d]
      BY <1>4, MissTypes DEF OpenWatch, Intact, MissPending, Present
    <3> QED
      BY <3>1, MissKept
  <2> QED
    BY <2>1, <2>2 DEF MissInv
<1>5. CASE CheckListIfaces
  <2>1. ~due' /\ check.pc = "idle" /\ check'.pc = "ifaces"
    BY <1>5 DEF CheckListIfaces, NoCheck
  <2>2. ASSUME NEW d \in Dev, Intact(d)' PROVE MissBounded(d)'
    <3>1. Intact(d) /\ where'[d] = where[d] /\ limbo'[d] = limbo[d] /\ misses'[d] = misses[d]
      BY <1>5, <2>2 DEF CheckListIfaces, Intact
    <3>2. MissBounded(d) /\ MissBudget(d) = misses[d]
      BY <2>1, <3>1, MissTypes DEF MissInv, MissBudget, MissPending
    <3>3. misses[d] \in Nat /\ limbo[d] \in Nat /\ ifindex[d] \in Nat \ {0}
      BY <3>1, MissTypes, ConstantTypes DEF TypeOK, Intact, Index
    <3>4. CASE where[d] \in {"host", "renamed"}
      <4>1. ifindex'[d] \in check'.byIndex /\ ifindex'[d] # 0
        BY <1>5, <3>1, <3>3, <3>4 DEF CheckListIfaces, NoCheck, InHostNs, Intact
      <4>2. MissBudget(d)' = misses[d]
        BY <3>1, <3>3, <4>1 DEF MissBudget, MissPending, Present
      <4> QED
        BY <3>1, <3>2, <3>4, <4>2 DEF MissBounded
    <3>5. CASE where[d] = "limbo"
      <4>1. misses[d] + 1 <= limbo[d] + Overlap
        <5>1. CASE due
          BY <5>1, <3>2, <3>5 DEF MissBounded
        <5>2. CASE ~due
          <6>1. run = "discovered"
            BY <1>5, <5>2 DEF CheckListIfaces, CheckStarts
          <6> QED
            BY <6>1, <3>3, ConstantTypes DEF PhaseInv
        <5> QED
          BY <5>1, <5>2
      <4>2. MissBudget(d)' \in misses[d]..(misses[d] + 1)
        BY <3>1, <3>3 DEF MissBudget
      <4> QED
        BY <2>1, <3>1, <3>3, <3>5, <4>1, <4>2, ConstantTypes DEF MissBounded
    <3> QED
      BY <3>1, <3>4, <3>5 DEF MissBounded
  <2> QED
    BY <2>1, <2>2 DEF MissInv
<1>6. CASE CheckNoIfaces
  <2>1. CheckSpan = 0 /\ due' => check'.pc = "idle"
    BY <1>6 DEF CheckNoIfaces, MissInv
  <2>2. ASSUME NEW d \in Dev PROVE Intact(d)' => MissBounded(d)'
    <3>1. /\ Intact(d)' => Intact(d)
          /\ misses'[d] <= misses[d]
          /\ MissPending(d)' => MissPending(d)
          /\ due' => due
          /\ where'[d] = where[d] /\ limbo'[d] = limbo[d]
      BY <1>6, MissTypes DEF CheckNoIfaces, Intact, MissPending, Present
    <3> QED
      BY <3>1, MissKept
  <2> QED
    BY <2>1, <2>2 DEF MissInv
<1>7. CASE CheckListAllocated
  <2>1. CheckSpan = 0 /\ due' => check'.pc = "idle"
    BY <1>7 DEF CheckListAllocated, MissInv, TypeOK, Checks
  <2>2. ASSUME NEW d \in Dev PROVE Intact(d)' => MissBounded(d)'
    <3>1. /\ Intact(d)' => Intact(d)
          /\ misses'[d] <= misses[d]
          /\ MissPending(d)' => MissPending(d)
          /\ due' => due
          /\ where'[d] = where[d] /\ limbo'[d] = limbo[d]
      BY <1>7, MissTypes DEF CheckListAllocated, Intact, MissPending, Present, TypeOK, Checks
    <3> QED
      BY <3>1, MissKept
  <2> QED
    BY <2>1, <2>2 DEF MissInv
<1>8. CASE CheckListFails
  <2>1. CheckSpan = 0 /\ due' => check'.pc = "idle"
    BY <1>8 DEF CheckListFails, MissInv, TypeOK, Checks
  <2>2. ASSUME NEW d \in Dev PROVE Intact(d)' => MissBounded(d)'
    <3>1. /\ Intact(d)' => Intact(d)
          /\ misses'[d] <= misses[d]
          /\ MissPending(d)' => MissPending(d)
          /\ due' => due
          /\ where'[d] = where[d] /\ limbo'[d] = limbo[d]
      BY <1>8, MissTypes DEF CheckListFails, Intact, MissPending, Present, TypeOK, Checks
    <3> QED
      BY <3>1, MissKept
  <2> QED
    BY <2>1, <2>2 DEF MissInv
<1>9. CASE CheckUpdate
  <2>1. due' = due /\ check'.pc \in {"idle", "send"} /\ (CheckSpan = 0 => ~due)
    BY <1>9 DEF CheckUpdate, MissInv, NoCheck
  <2>2. ASSUME NEW d \in Dev, Intact(d)' PROVE MissBounded(d)'
    <3>1. /\ where'[d] = where[d] /\ limbo'[d] = limbo[d] /\ misses'[d] = MissesAfter(d)
          /\ misses[d] \in Nat /\ limbo[d] \in Nat
      BY <1>9, MissTypes, ConstantTypes DEF CheckUpdate
    <3>2. MissBudget(d)' = misses'[d] /\ misses'[d] \in Nat
      <4>1. misses'[d] \in Nat
        BY ConstantTypes DEF TypeOK
      <4> QED
        BY <2>1, <4>1 DEF MissBudget, MissPending
    <3>3. CASE check.byName[d] # 0
      <4>1. MissesAfter(d) = 0
        BY <3>3 DEF MissesAfter, Alive, Missed, Present, PhaseInv
      <4> QED
        BY <3>1, <3>2, <4>1, ConstantTypes DEF MissBounded
    <3>4. CASE check.byName[d] = 0
      <4>1. Intact(d)
        BY <1>9, <2>2, <3>4 DEF CheckUpdate, Intact, Added
      <4>2. MissesAfter(d) <= MissBudget(d) /\ MissesAfter(d) \in Nat /\ MissBudget(d) \in Nat
        BY <1>9, <3>1, ConstantTypes
        DEF CheckUpdate, MissesAfter, Missed, MissBudget, MissPending
      <4>3. MissBounded(d)
        BY <4>1 DEF MissInv
      <4> QED
        BY <2>1, <3>1, <3>2, <4>2, <4>3, ConstantTypes DEF MissBounded
    <3> QED
      BY <3>3, <3>4
  <2>3. CheckSpan = 0 /\ due' => check'.pc = "idle"
    BY <2>1
  <2> QED
    BY <2>2, <2>3 DEF MissInv
<1>10. CASE WatchSend
  <2>1. CheckSpan = 0 /\ due' => check'.pc = "idle"
    BY <1>10 DEF WatchSend, MissInv, NoCheck
  <2>2. ASSUME NEW d \in Dev PROVE Intact(d)' => MissBounded(d)'
    <3>1. /\ Intact(d)' => Intact(d)
          /\ misses'[d] <= misses[d]
          /\ MissPending(d)' => MissPending(d)
          /\ due' => due
          /\ where'[d] = where[d] /\ limbo'[d] = limbo[d]
      BY <1>10, MissTypes DEF WatchSend, Intact, MissPending, Present, NoCheck
    <3> QED
      BY <3>1, MissKept
  <2> QED
    BY <2>1, <2>2 DEF MissInv
<1>11. CASE WatchReturn
  <2>1. CheckSpan = 0 /\ due' => check'.pc = "idle"
    BY <1>11 DEF WatchReturn, MissInv
  <2>2. ASSUME NEW d \in Dev PROVE Intact(d)' => MissBounded(d)'
    <3>1. /\ Intact(d)' => Intact(d)
          /\ misses'[d] <= misses[d]
          /\ MissPending(d)' => MissPending(d)
          /\ due' => due
          /\ where'[d] = where[d] /\ limbo'[d] = limbo[d]
      BY <1>11, MissTypes DEF WatchReturn, Intact, MissPending, Present
    <3> QED
      BY <3>1, MissKept
  <2> QED
    BY <2>1, <2>2 DEF MissInv
<1>12. CASE KubeletAllocate
  <2>1. CheckSpan = 0 /\ due' => check'.pc = "idle"
    BY <1>12 DEF KubeletAllocate, MissInv
  <2>2. ASSUME NEW d \in Dev PROVE Intact(d)' => MissBounded(d)'
    <3>1. /\ Intact(d)' => Intact(d)
          /\ misses'[d] <= misses[d]
          /\ MissPending(d)' => MissPending(d)
          /\ due' => due
          /\ where'[d] = where[d] /\ limbo'[d] = limbo[d]
      BY <1>12, MissTypes DEF KubeletAllocate, Intact, MissPending, Present
    <3> QED
      BY <3>1, MissKept
  <2> QED
    BY <2>1, <2>2 DEF MissInv
<1>13. CASE AllocateValidate
  <2>1. CheckSpan = 0 /\ due' => check'.pc = "idle"
    BY <1>13 DEF AllocateValidate, MissInv
  <2>2. ASSUME NEW d \in Dev PROVE Intact(d)' => MissBounded(d)'
    <3>1. /\ Intact(d)' => Intact(d)
          /\ misses'[d] <= misses[d]
          /\ MissPending(d)' => MissPending(d)
          /\ due' => due
          /\ where'[d] = where[d] /\ limbo'[d] = limbo[d]
      BY <1>13, MissTypes DEF AllocateValidate, Intact, MissPending, Present
    <3> QED
      BY <3>1, MissKept
  <2> QED
    BY <2>1, <2>2 DEF MissInv
<1>14. CASE AllocateWrite
  <2>1. CheckSpan = 0 /\ due' => check'.pc = "idle"
    BY <1>14 DEF AllocateWrite, MissInv
  <2>2. ASSUME NEW d \in Dev PROVE Intact(d)' => MissBounded(d)'
    <3>1. /\ Intact(d)' => Intact(d)
          /\ misses'[d] <= misses[d]
          /\ MissPending(d)' => MissPending(d)
          /\ due' => due
          /\ where'[d] = where[d] /\ limbo'[d] = limbo[d]
      BY <1>14, MissTypes DEF AllocateWrite, Intact, MissPending, Present
    <3> QED
      BY <3>1, MissKept
  <2> QED
    BY <2>1, <2>2 DEF MissInv
<1>15. CASE AllocateMark
  <2>1. CheckSpan = 0 /\ due' => check'.pc = "idle"
    BY <1>15 DEF AllocateMark, MissInv
  <2>2. ASSUME NEW d \in Dev PROVE Intact(d)' => MissBounded(d)'
    <3>1. /\ Intact(d)' => Intact(d)
          /\ misses'[d] <= misses[d]
          /\ MissPending(d)' => MissPending(d)
          /\ due' => due
          /\ where'[d] = where[d] /\ limbo'[d] = limbo[d]
      BY <1>15, MissTypes DEF AllocateMark, Intact, MissPending, Present, TypeOK
    <3> QED
      BY <3>1, MissKept
  <2> QED
    BY <2>1, <2>2 DEF MissInv
<1>16. CASE AllocateReturn
  <2>1. CheckSpan = 0 /\ due' => check'.pc = "idle"
    BY <1>16 DEF AllocateReturn, MissInv
  <2>2. ASSUME NEW d \in Dev PROVE Intact(d)' => MissBounded(d)'
    <3>1. /\ Intact(d)' => Intact(d)
          /\ misses'[d] <= misses[d]
          /\ MissPending(d)' => MissPending(d)
          /\ due' => due
          /\ where'[d] = where[d] /\ limbo'[d] = limbo[d]
      BY <1>16, MissTypes DEF AllocateReturn, Intact, MissPending, Present
    <3> QED
      BY <3>1, MissKept
  <2> QED
    BY <2>1, <2>2 DEF MissInv
<1>17. ASSUME NEW d \in Dev, KubeletList(d) PROVE MissInv'
  <2>1. CheckSpan = 0 /\ due' => check'.pc = "idle"
    BY <1>17 DEF KubeletList, MissInv
  <2>2. ASSUME NEW e \in Dev PROVE Intact(e)' => MissBounded(e)'
    <3>1. /\ Intact(e)' => Intact(e)
          /\ misses'[e] <= misses[e]
          /\ MissPending(e)' => MissPending(e)
          /\ due' => due
          /\ where'[e] = where[e] /\ limbo'[e] = limbo[e]
      BY <1>17, MissTypes DEF KubeletList, Intact, MissPending, Present
    <3> QED
      BY <3>1, MissKept
  <2> QED
    BY <2>1, <2>2 DEF MissInv
<1>18. ASSUME NEW d \in Dev, CniAdd(d) PROVE MissInv'
  <2>1. CheckSpan = 0 /\ due' => check'.pc = "idle"
    BY <1>18 DEF CniAdd, MissInv
  <2>2. ASSUME NEW e \in Dev PROVE Intact(e)' => MissBounded(e)'
    <3>1. /\ misses' = misses /\ due' = due /\ misses[e] \in Nat
          /\ MissPending(e)' => MissPending(e)
          /\ MissBudget(e)' = MissBudget(e)
      BY <1>18, MissTypes DEF CniAdd, MissPending, Present, MissBudget
    <3>2. CASE e # d
      <4>1. where'[e] = where[e] /\ limbo'[e] = limbo[e] /\ (Intact(e)' => Intact(e))
        BY <1>18, <3>2 DEF CniAdd, Intact, TypeOK
      <4> QED
        BY <3>1, <4>1, MissKept
    <3>3. CASE e = d
      <4>1. where'[d] = "pod"
        BY <1>18 DEF CniAdd, TypeOK
      <4> QED
        BY <3>3, <4>1 DEF MissBounded
    <3> QED
      BY <3>2, <3>3
  <2> QED
    BY <2>1, <2>2 DEF MissInv
<1>19. ASSUME NEW d \in Dev, KubeletFree(d) PROVE MissInv'
  <2>1. CheckSpan = 0 /\ due' => check'.pc = "idle"
    BY <1>19 DEF KubeletFree, MissInv
  <2>2. ASSUME NEW e \in Dev PROVE Intact(e)' => MissBounded(e)'
    <3>1. /\ misses' = misses /\ due' = due /\ misses[e] \in Nat
          /\ MissPending(e)' => MissPending(e)
          /\ MissBudget(e)' = MissBudget(e)
      BY <1>19, MissTypes DEF KubeletFree, MissPending, Present, MissBudget
    <3>2. CASE e # d
      <4>1. where'[e] = where[e] /\ limbo'[e] = limbo[e] /\ (Intact(e)' => Intact(e))
        BY <1>19, <3>2 DEF KubeletFree, Intact, TypeOK
      <4> QED
        BY <3>1, <4>1, MissKept
    <3>3. CASE e = d
      <4>1. CASE where[d] # "pod"
        <5>1. where' = where /\ limbo' = limbo /\ (Intact(d)' => Intact(d))
          BY <1>19, <4>1 DEF KubeletFree, Intact
        <5> QED
          BY <3>1, <3>3, <5>1, MissKept
      <4>2. CASE where[d] = "pod"
        <5>1. where'[d] = "limbo" /\ limbo'[d] = 0
          BY <1>19, <4>2 DEF KubeletFree, TypeOK, NetdevInv
        <5>2. Intact(d)' => misses[d] = 0
          BY <1>19 DEF KubeletFree, Intact, HeldInv
        <5>3. ~(CheckSpan = 0 /\ due /\ MissPending(d))
          BY DEF MissInv, MissPending
        <5> QED
          BY <3>1, <3>3, <5>1, <5>2, <5>3, ConstantTypes DEF MissBounded, MissBudget
      <4> QED
        BY <4>1, <4>2
    <3> QED
      BY <3>2, <3>3
  <2> QED
    BY <2>1, <2>2 DEF MissInv
<1>20. ASSUME NEW d \in Dev, CniDel(d) PROVE MissInv'
  <2>1. CheckSpan = 0 /\ due' => check'.pc = "idle"
    BY <1>20 DEF CniDel, MissInv
  <2>2. ASSUME NEW e \in Dev PROVE Intact(e)' => MissBounded(e)'
    <3>1. /\ misses' = misses /\ due' = due /\ misses[e] \in Nat
          /\ MissPending(e)' => MissPending(e)
          /\ MissBudget(e)' = MissBudget(e)
      BY <1>20, MissTypes DEF CniDel, MissPending, Present, MissBudget
    <3>2. CASE e # d
      <4>1. where'[e] = where[e] /\ limbo'[e] = limbo[e] /\ (Intact(e)' => Intact(e))
        BY <1>20, <3>2 DEF CniDel, Intact, TypeOK
      <4> QED
        BY <3>1, <4>1, MissKept
    <3>3. CASE e = d
      <4>1. /\ where[d] = "limbo" /\ where'[d] = "host"
            /\ Intact(d)' => Intact(d)
        BY <1>20 DEF CniDel, TypeOK, Intact
      <4>2. limbo[d] \in 0..TeardownMax /\ MissBudget(d) \in Nat
        BY <3>1, <3>3, MissTypes
      <4> QED
        BY <3>1, <3>3, <4>1, <4>2, ConstantTypes DEF MissInv, MissBounded
    <3> QED
      BY <3>2, <3>3
  <2> QED
    BY <2>1, <2>2 DEF MissInv
<1>21. ASSUME NEW d \in Dev, Rename(d) PROVE MissInv'
  <2>1. CheckSpan = 0 /\ due' => check'.pc = "idle"
    BY <1>21 DEF Rename, MissInv
  <2>2. ASSUME NEW e \in Dev PROVE Intact(e)' => MissBounded(e)'
    <3>1. /\ misses' = misses /\ due' = due /\ misses[e] \in Nat
          /\ MissPending(e)' => MissPending(e)
          /\ MissBudget(e)' = MissBudget(e)
      BY <1>21, MissTypes DEF Rename, MissPending, Present, MissBudget
    <3>2. CASE e # d
      <4>1. where'[e] = where[e] /\ limbo'[e] = limbo[e] /\ (Intact(e)' => Intact(e))
        BY <1>21, <3>2 DEF Rename, Intact, TypeOK
      <4> QED
        BY <3>1, <4>1, MissKept
    <3>3. CASE e = d
      <4>1. /\ where[d] \in {"host", "renamed"} /\ where'[d] \in {"host", "renamed"}
            /\ Intact(d)' => Intact(d)
        BY <1>21 DEF Rename, TypeOK, Intact
      <4> QED
        BY <3>1, <3>3, <4>1, MissKept
    <3> QED
      BY <3>2, <3>3
  <2> QED
    BY <2>1, <2>2 DEF MissInv
<1>22. ASSUME NEW d \in Dev, Destroy(d) PROVE MissInv'
  <2>1. CheckSpan = 0 /\ due' => check'.pc = "idle"
    BY <1>22 DEF Destroy, MissInv
  <2>2. ASSUME NEW e \in Dev PROVE Intact(e)' => MissBounded(e)'
    <3>1. /\ misses' = misses /\ due' = due /\ misses[e] \in Nat
          /\ MissPending(e)' => MissPending(e)
          /\ MissBudget(e)' = MissBudget(e)
      BY <1>22, MissTypes DEF Destroy, MissPending, Present, MissBudget
    <3>2. CASE e # d
      <4>1. where'[e] = where[e] /\ limbo'[e] = limbo[e] /\ (Intact(e)' => Intact(e))
        BY <1>22, <3>2 DEF Destroy, Intact, TypeOK
      <4> QED
        BY <3>1, <4>1, MissKept
    <3>3. CASE e = d
      <4>1. where'[d] = "gone"
        BY <1>22 DEF Destroy, TypeOK
      <4> QED
        BY <3>3, <4>1 DEF Intact
    <3> QED
      BY <3>2, <3>3
  <2> QED
    BY <2>1, <2>2 DEF MissInv
<1>23. ASSUME NEW d \in Dev, Recreate(d) PROVE MissInv'
  <2>1. CheckSpan = 0 /\ due' => check'.pc = "idle"
    BY <1>23 DEF Recreate, MissInv
  <2>2. ASSUME NEW e \in Dev PROVE Intact(e)' => MissBounded(e)'
    <3>1. /\ misses' = misses /\ due' = due /\ misses[e] \in Nat
          /\ MissPending(e)' => MissPending(e)
          /\ MissBudget(e)' = MissBudget(e)
      BY <1>23, MissTypes DEF Recreate, MissPending, Present, MissBudget
    <3>2. CASE e # d
      <4>1. where'[e] = where[e] /\ limbo'[e] = limbo[e] /\ (Intact(e)' => Intact(e))
        BY <1>23, <3>2 DEF Recreate, Intact, TypeOK
      <4> QED
        BY <3>1, <4>1, MissKept
    <3>3. CASE e = d
      <4>1. index'[d] = nextIndex /\ ifindex'[d] < nextIndex
        BY <1>23 DEF Recreate, TypeOK, NetdevInv
      <4>2. nextIndex \in Nat /\ ifindex'[d] \in Nat
        BY <1>23, ConstantTypes DEF Recreate, TypeOK, Index
      <4> QED
        BY <3>3, <4>1, <4>2 DEF Intact
    <3> QED
      BY <3>2, <3>3
  <2> QED
    BY <2>1, <2>2 DEF MissInv
<1>24. CASE KubeletRestart
  <2>1. CheckSpan = 0 /\ due' => check'.pc = "idle"
    BY <1>24 DEF KubeletRestart, MissInv
  <2>2. ASSUME NEW d \in Dev PROVE Intact(d)' => MissBounded(d)'
    <3>1. /\ Intact(d)' => Intact(d)
          /\ misses'[d] <= misses[d]
          /\ MissPending(d)' => MissPending(d)
          /\ due' => due
          /\ where'[d] = where[d] /\ limbo'[d] = limbo[d]
      BY <1>24, MissTypes DEF KubeletRestart, Intact, MissPending, Present
    <3> QED
      BY <3>1, MissKept
  <2> QED
    BY <2>1, <2>2 DEF MissInv
<1>25. CASE Tick
  <2>1. check.pc # "idle" => CheckSpan # 0
    BY <1>25, ConstantTypes DEF Tick, TypeOK, Checks
  <2>2. check'.pc = check.pc /\ check'.byName = check.byName /\ check'.byIndex = check.byIndex
    BY <1>25 DEF Tick, TypeOK, Checks
  <2>3. ASSUME NEW d \in Dev, Intact(d)' PROVE MissBounded(d)'
    <3>1. /\ Intact(d) /\ where' = where /\ misses'[d] = misses[d]
          /\ MissPending(d)' = MissPending(d)
      BY <1>25, <2>2, <2>3 DEF Tick, Intact, MissPending, Present
    <3>2. MissBudget(d)' = MissBudget(d) /\ MissBudget(d) \in Nat /\ limbo[d] \in Nat
      BY <3>1, MissTypes, ConstantTypes DEF MissBudget
    <3>3. MissBounded(d)
      BY <3>1 DEF MissInv
    <3>4. where[d] = "limbo" => limbo'[d] = limbo[d] + 1
      BY <1>25 DEF Tick
    <3> QED
      BY <3>1, <3>2, <3>3, <3>4, ConstantTypes DEF MissBounded
  <2> QED
    BY <2>1, <2>2, <2>3 DEF MissInv
<1>26. CASE UNCHANGED vars
  <2>1. CheckSpan = 0 /\ due' => check'.pc = "idle"
    BY <1>26 DEF vars, MissInv
  <2>2. ASSUME NEW d \in Dev PROVE Intact(d)' => MissBounded(d)'
    <3>1. /\ Intact(d)' => Intact(d)
          /\ misses'[d] <= misses[d]
          /\ MissPending(d)' => MissPending(d)
          /\ due' => due
          /\ where'[d] = where[d] /\ limbo'[d] = limbo[d]
      BY <1>26, MissTypes DEF vars, Intact, MissPending, Present
    <3> QED
      BY <3>1, MissKept
  <2> QED
    BY <2>1, <2>2 DEF MissInv
<1> QED
  BY <1>1, <1>2, <1>3, <1>4, <1>5, <1>6, <1>7, <1>8, <1>9, <1>10, <1>11, <1>12, <1>13,
     <1>14, <1>15, <1>16, <1>17, <1>18, <1>19, <1>20, <1>21, <1>22, <1>23, <1>24, <1>25,
     <1>26
  DEF Next, RunStep, WatchStep, CallStep, HostStep

(***** The views of kubelet and of the CNI. *****)

(* Every step keeps kubelet's view in step with the device table.          *)
LEMMA StepViewInv ==
  ASSUME TypeOK, PhaseInv, ViewFollows, [Next]_vars
  PROVE  ViewFollows'
<1> USE DEF ViewFollows, Snapshot, netdevVars, kubeletVars, tableVars
<1>1. CASE Discover
  BY <1>1 DEF Discover, PhaseInv
<1>2. CASE Crash
  BY <1>2 DEF Crash, PhaseInv
<1>3. CASE CheckListIfaces
  BY <1>3 DEF CheckListIfaces, NoCheck
<1>4. CASE CheckListAllocated
  BY <1>4 DEF CheckListAllocated, TypeOK, Checks
<1>5. CASE CheckListFails
  BY <1>5 DEF CheckListFails, TypeOK, Checks
<1>6. CASE CheckUpdate
  <2> SUFFICES ASSUME watch' = "open", check'.pc # "send" PROVE kview' = Snapshot'
    BY DEF ViewFollows
  <2>1. watch = "open" /\ check.pc # "send" /\ run # "discovered"
    BY <1>6 DEF CheckUpdate, PhaseInv
  <2>2. ~Changed
    BY <1>6, <2>1 DEF CheckUpdate
  <2>3. known' = known /\ \A d \in known : health'[d] = health[d]
    BY <1>6, <2>2 DEF CheckUpdate, Changed, TypeOK
  <2>4. kview = Snapshot /\ kview' = kview
    BY <1>6, <2>1 DEF CheckUpdate, ViewFollows
  <2> QED
    BY <2>3, <2>4
<1>7. CASE WatchSend
  BY <1>7 DEF WatchSend, NoCheck
<1>8. CASE Tick
  BY <1>8 DEF Tick, TypeOK, Checks
<1>9. CASE \/ Register \/ OpenWatch \/ CheckNoIfaces \/ WatchReturn \/ KubeletAllocate
           \/ AllocateValidate \/ AllocateWrite \/ AllocateMark \/ AllocateReturn
           \/ KubeletRestart \/ UNCHANGED vars
  BY <1>9 DEF Register, OpenWatch, CheckNoIfaces, WatchReturn, KubeletAllocate,
              AllocateValidate, AllocateWrite, AllocateMark, AllocateReturn,
              KubeletRestart, vars
<1>10. ASSUME NEW d \in Dev, \/ KubeletList(d) \/ CniAdd(d) \/ KubeletFree(d) \/ CniDel(d)
                             \/ Rename(d) \/ Destroy(d) \/ Recreate(d)
      PROVE  ViewFollows'
  BY <1>10 DEF KubeletList, CniAdd, KubeletFree, CniDel, Rename, Destroy, Recreate
<1> QED
  BY <1>1, <1>2, <1>3, <1>4, <1>5, <1>6, <1>7, <1>8, <1>9, <1>10
  DEF Next, RunStep, WatchStep, CallStep, HostStep

(* Every step keeps the device-info files of granted devices.              *)
LEMMA StepDevinfoInv ==
  ASSUME TypeOK, PhaseInv, CallInv, GrantedHasDevinfo, [Next]_vars
  PROVE  GrantedHasDevinfo'
<1> USE DEF GrantedHasDevinfo, netdevVars, kubeletVars, tableVars
<1>1. CASE AllocateReturn
  BY <1>1 DEF AllocateReturn, CallInv
<1>2. ASSUME NEW d \in Dev, KubeletFree(d) PROVE GrantedHasDevinfo'
  BY <1>2 DEF KubeletFree, TypeOK
<1>3. CASE \/ Discover \/ Register \/ Crash \/ OpenWatch \/ CheckListIfaces
           \/ CheckNoIfaces \/ CheckListAllocated \/ CheckListFails \/ CheckUpdate
           \/ WatchSend \/ WatchReturn \/ KubeletAllocate \/ AllocateValidate
           \/ AllocateWrite \/ AllocateMark \/ KubeletRestart \/ Tick \/ UNCHANGED vars
  BY <1>3 DEF Discover, Register, Crash, OpenWatch, CheckListIfaces, CheckNoIfaces,
              CheckListAllocated, CheckListFails, CheckUpdate, WatchSend, WatchReturn,
              KubeletAllocate, AllocateValidate, AllocateWrite, AllocateMark,
              KubeletRestart, Tick, vars
<1>4. ASSUME NEW d \in Dev, \/ KubeletList(d) \/ CniAdd(d) \/ CniDel(d) \/ Rename(d)
                            \/ Destroy(d) \/ Recreate(d)
      PROVE  GrantedHasDevinfo'
  BY <1>4 DEF KubeletList, CniAdd, CniDel, Rename, Destroy, Recreate
<1> QED
  BY <1>1, <1>2, <1>3, <1>4
  DEF Next, RunStep, WatchStep, CallStep, HostStep

(***** The theorems. *****)

DevicePluginInv ==
  /\ TypeOK /\ PhaseInv /\ CallInv /\ GraceInv /\ HeldInv /\ NetdevInv /\ MissInv
  /\ ViewFollows /\ GrantedHasDevinfo

(* The inductive invariant holds initially.                                *)
LEMMA InitInv == Init => DevicePluginInv
<1> SUFFICES ASSUME Init PROVE DevicePluginInv
  OBVIOUS
<1>1. TypeOK
  BY InitTypeOK
<1>2. PhaseInv /\ CallInv /\ HeldInv /\ ViewFollows /\ GrantedHasDevinfo
  BY DEF Init, PhaseInv, CallInv, HeldInv, ViewFollows, GrantedHasDevinfo, NoCheck, NoCall
<1>3. GraceInv
  BY DEF Init, GraceInv, Promised, NoCheck, NoCall
<1>4. NetdevInv
  BY <1>1, ConstantTypes DEF Init, NetdevInv, NoCheck
<1>5. MissInv
  BY DEF Init, MissInv, Intact
<1> QED
  BY <1>1, <1>2, <1>3, <1>4, <1>5 DEF DevicePluginInv

(* Every step keeps the inductive invariant.                               *)
LEMMA StepInv == DevicePluginInv /\ [Next]_vars => DevicePluginInv'
  BY StepTypeOK, StepPhaseInv, StepCallInv, StepGraceInv, StepHeldInv, StepNetdevInv,
     StepMissInv, StepViewInv, StepDevinfoInv
  DEF DevicePluginInv

(* The inductive invariant holds in every state of the plugin.             *)
THEOREM Invariance == Spec => []DevicePluginInv
  BY InitInv, StepInv, PTL DEF Spec

(* Every variable of the plugin, kubelet and the host keeps its type: the   *)
(* miss counter stops at the threshold, the grace period never exceeds the  *)
(* allocation's, a check never outlasts CheckSpan ticks.                    *)
THEOREM TypeCorrect == Spec => []TypeOK
  BY Invariance, PTL DEF DevicePluginInv

(* Whenever no push is under way, kubelet's view of the pool is the         *)
(* plugin's device table.                                                   *)
THEOREM KubeletViewCorrect == Spec => []ViewFollows
  BY Invariance, PTL DEF DevicePluginInv

(* A device held by a pod has its device-info file.                         *)
THEOREM DevinfoCorrect == Spec => []GrantedHasDevinfo
  BY Invariance, PTL DEF DevicePluginInv

(* Only a check's update reports a device Unhealthy, and only one it misses. *)
LEMMA BenchedBy ==
  ASSUME DevicePluginInv, [Next]_vars, NEW d \in Dev, Benched(d)
  PROVE  CheckUpdate /\ Missed(d) /\ MissesAfter(d) = UnhealthyAfterMisses
<1> USE DEF Benched, netdevVars, kubeletVars, tableVars
<1>1. CASE CheckUpdate
  BY <1>1 DEF CheckUpdate, HealthAfter
<1>2. CASE \/ Discover \/ Register \/ Crash \/ OpenWatch \/ CheckListIfaces
           \/ CheckNoIfaces \/ CheckListAllocated \/ CheckListFails \/ WatchSend
           \/ WatchReturn \/ KubeletAllocate \/ AllocateValidate \/ AllocateWrite
           \/ AllocateMark \/ AllocateReturn \/ KubeletRestart \/ Tick \/ UNCHANGED vars
  BY <1>2 DEF Discover, Register, Crash, OpenWatch, CheckListIfaces, CheckNoIfaces,
              CheckListAllocated, CheckListFails, WatchSend, WatchReturn, KubeletAllocate,
              AllocateValidate, AllocateWrite, AllocateMark, AllocateReturn,
              KubeletRestart, Tick, vars
<1>3. ASSUME NEW e \in Dev, \/ KubeletList(e) \/ CniAdd(e) \/ KubeletFree(e) \/ CniDel(e)
                            \/ Rename(e) \/ Destroy(e) \/ Recreate(e)
      PROVE  FALSE
  BY <1>3 DEF KubeletList, CniAdd, KubeletFree, CniDel, Rename, Destroy, Recreate
<1> QED
  BY <1>1, <1>2, <1>3
  DEF Next, RunStep, WatchStep, CallStep, HostStep

(* No interleaving of allocation, kubelet's late listing, the move into the *)
(* pod, slow checks, PodResources outages and restarts makes the plugin     *)
(* report a device Unhealthy that kubelet holds for a pod.                  *)
THEOREM HeldDevicesStayHealthy == Spec => HeldNeverBenched
<1>1. DevicePluginInv /\ [Next]_vars => [\A d \in granted : ~Benched(d)]_vars
  <2> SUFFICES ASSUME DevicePluginInv, [Next]_vars, NEW d \in granted, Benched(d)
               PROVE  FALSE
    OBVIOUS
  <2>1. d \in Dev
    BY DEF DevicePluginInv, TypeOK
  <2>2. CheckUpdate /\ Missed(d)
    BY <2>1, BenchedBy
  <2> QED
    BY <2>2, HeldNotMissed DEF DevicePluginInv, CheckUpdate
<1> QED
  BY <1>1, Invariance, PTL DEF Spec, HeldNeverBenched

(* A device reported Unhealthy is not the netdev the plugin knew.           *)
LEMMA BenchedLost ==
  ASSUME DevicePluginInv, [Next]_vars, NEW d \in Dev, Benched(d)
  PROVE  where[d] = "gone" \/ index[d] # ifindex[d]
<1> SUFFICES ASSUME Intact(d) PROVE FALSE
  BY DEF Intact, Benched
<1>1. CheckUpdate /\ Missed(d) /\ MissesAfter(d) = UnhealthyAfterMisses
  BY BenchedBy
<1>2. MissBudget(d) = misses[d] + 1
  BY <1>1 DEF MissBudget, MissPending, CheckUpdate, Missed
<1>3. misses[d] \in Nat /\ limbo[d] \in 0..TeardownMax
  BY MissTypes DEF DevicePluginInv
<1>4. misses[d] + 1 >= UnhealthyAfterMisses
  BY <1>1, <1>3, ConstantTypes DEF MissesAfter, Alive, Missed
<1>5. where[d] \in {"host", "renamed", "limbo"}
  <2>1. d \notin granted
    BY <1>1, HeldNotMissed DEF DevicePluginInv, CheckUpdate
  <2> QED
    BY <2>1 DEF DevicePluginInv, TypeOK, Places, NetdevInv, Intact
<1>6. MissBounded(d)
  BY DEF DevicePluginInv, MissInv
<1> QED
  BY <1>2, <1>3, <1>4, <1>5, <1>6, ConstantTypes DEF MissBounded

(* A device is reported Unhealthy only if the netdev the plugin knew was    *)
(* destroyed: a pod teardown of at most TeardownMax ticks, with             *)
(* TeardownMax + Overlap below unhealthyAfterMisses, is never mistaken for  *)
(* it, and neither is a rename.                                             *)
THEOREM OnlyDestroyedDevicesBenched == Spec => OnlyDestroyedBenched
<1>1. DevicePluginInv /\ [Next]_vars
        => [\A d \in Dev : Benched(d) => where[d] = "gone" \/ index[d] # ifindex[d]]_vars
  BY BenchedLost
<1> QED
  BY <1>1, Invariance, PTL DEF Spec, OnlyDestroyedBenched

(***** Allocate calls with a single container request. *****)

SingleInv ==
  /\ call.pc = "validate" => call.marked = {} /\ \E c \in SUBSET Dev : call.left = {c}
  /\ call.pc \in {"write", "mark"} => call.marked = {} /\ call.left = {}
  /\ call.pc = "failed" => call.marked = {}

(* With one container request per call, every step keeps SingleInv.        *)
LEMMA StepSingleInv ==
  ASSUME MaxContainers = 1, TypeOK, SingleInv, [Next]_vars
  PROVE  SingleInv'
<1> USE DEF SingleInv, netdevVars, kubeletVars, tableVars
<1>1. CASE Crash
  BY <1>1 DEF Crash, NoCall
<1>2. CASE KubeletAllocate
  <2>1. PICK req \in SUBSET (SUBSET {d \in Dev \ granted : kview[d] = "Healthy"} \ {{}}) :
          /\ Cardinality(req) \in 1..MaxContainers
          /\ call' = [NoCall EXCEPT !.pc = "validate", !.ids = UNION req, !.left = req]
    BY <1>2 DEF KubeletAllocate
  <2>2. IsFiniteSet(req)
    <3>1. IsFiniteSet(SUBSET Dev)
      BY DevFinite, FS_SUBSET
    <3> QED
      BY <3>1, FS_Subset
  <2>3. \E c \in SUBSET Dev : req = {c}
    BY <2>1, <2>2, FS_Singleton
  <2> QED
    BY <2>1, <2>3 DEF NoCall
<1>3. CASE AllocateValidate
  <2>1. PICK c \in call.left :
          call' = IF c \subseteq known
                  THEN [call EXCEPT !.pc = "write", !.cur = c, !.left = @ \ {c}]
                  ELSE [call EXCEPT !.pc = "failed"]
    BY <1>3 DEF AllocateValidate
  <2>2. call.left = {c} /\ call.marked = {}
    BY <1>3 DEF AllocateValidate
  <2> QED
    BY <2>1, <2>2 DEF TypeOK, Calls
<1>4. CASE AllocateWrite
  BY <1>4 DEF AllocateWrite, TypeOK, Calls
<1>5. CASE AllocateMark
  BY <1>5 DEF AllocateMark, TypeOK, Calls
<1>6. CASE AllocateReturn
  BY <1>6 DEF AllocateReturn, NoCall
<1>7. CASE KubeletRestart
  BY <1>7 DEF KubeletRestart, TypeOK, Calls
<1>8. CASE \/ Discover \/ Register \/ OpenWatch \/ CheckListIfaces \/ CheckNoIfaces
           \/ CheckListAllocated \/ CheckListFails \/ CheckUpdate \/ WatchSend
           \/ WatchReturn \/ Tick \/ UNCHANGED vars
  BY <1>8 DEF Discover, Register, OpenWatch, CheckListIfaces, CheckNoIfaces,
              CheckListAllocated, CheckListFails, CheckUpdate, WatchSend, WatchReturn,
              Tick, vars
<1>9. ASSUME NEW d \in Dev, \/ KubeletList(d) \/ CniAdd(d) \/ KubeletFree(d) \/ CniDel(d)
                            \/ Rename(d) \/ Destroy(d) \/ Recreate(d)
      PROVE  SingleInv'
  BY <1>9 DEF KubeletList, CniAdd, KubeletFree, CniDel, Rename, Destroy, Recreate
<1> QED
  BY <1>1, <1>2, <1>3, <1>4, <1>5, <1>6, <1>7, <1>8, <1>9
  DEF Next, RunStep, WatchStep, CallStep, HostStep

(* With one container request per call, as kubelet sends them, a failed     *)
(* Allocate leaves no device inside a grace period it did not earn.         *)
THEOREM SingleRequestFailureMarksNothing ==
  ASSUME MaxContainers = 1
  PROVE  Spec => []FailedAllocateMarksNothing
<1>1. Init => SingleInv
  BY DEF Init, SingleInv, NoCall
<1>2. TypeOK /\ SingleInv /\ [Next]_vars => SingleInv'
  BY StepSingleInv
<1>3. SingleInv => FailedAllocateMarksNothing
  BY DEF SingleInv, FailedAllocateMarksNothing
<1> QED
  BY <1>1, <1>2, <1>3, TypeCorrect, PTL DEF Spec

(***** The contract with kubelet. *****)

(* What a check saw of a netdev is newer than what the plugin knows of it,  *)
(* and no newer than the netdev.                                            *)
IndexOrder ==
  \A d \in Dev : /\ ifindex[d] <= index[d] /\ check.byName[d] <= index[d]
                 /\ check.byName[d] # 0 => ifindex[d] <= check.byName[d]

(* A call whose answer kubelet awaits came over the stream that is open,    *)
(* and asks for devices that no pod has.                                    *)
CallOpen ==
  /\ call.pc # "idle" /\ call.live => watch = "open"
  /\ call.ids \intersect granted = {}

ContractInv == IndexOrder /\ CallOpen

(* Every step keeps the order of the ifindexes.                            *)
LEMMA StepIndexOrder ==
  ASSUME TypeOK, PhaseInv, NetdevInv, IndexOrder, [Next]_vars
  PROVE  IndexOrder'
<1> USE DEF IndexOrder, netdevVars, kubeletVars, tableVars
<1>0. \A d \in Dev : index[d] \in Nat /\ ifindex[d] \in Nat /\ check.byName[d] \in Nat
  BY ConstantTypes DEF TypeOK, Index, Checks
<1>1. CASE Discover
  BY <1>0, <1>1 DEF Discover, PhaseInv, NoCheck
<1>2. CASE Crash
  BY <1>0, <1>2 DEF Crash, NoCheck
<1>3. CASE CheckListIfaces
  BY <1>0, <1>3 DEF CheckListIfaces, NoCheck
<1>4. CASE CheckUpdate
  <2>1. check'.byName = [d \in Dev |-> 0]
    BY <1>4 DEF CheckUpdate, NoCheck
  <2>2. index' = index
    BY <1>4 DEF CheckUpdate
  <2> QED
    BY <1>0, <1>4, <2>1, <2>2 DEF CheckUpdate
<1>5. CASE WatchSend
  BY <1>0, <1>5 DEF WatchSend, NoCheck
<1>6. CASE Tick
  <2>1. check'.byName = check.byName
    BY <1>6 DEF Tick, TypeOK, Checks
  <2> QED
    BY <1>6, <2>1 DEF Tick
<1>7. CASE CheckListAllocated \/ CheckListFails
  <2>1. check'.byName = check.byName
    BY <1>7 DEF CheckListAllocated, CheckListFails, TypeOK, Checks
  <2> QED
    BY <1>7, <2>1 DEF CheckListAllocated, CheckListFails
<1>8. ASSUME NEW e \in Dev, Recreate(e) PROVE IndexOrder'
  <2>1. \A d \in Dev : index[d] <= index'[d]
    BY <1>0, <1>8 DEF Recreate, NetdevInv, TypeOK
  <2>2. ifindex' = ifindex /\ check' = check
    BY <1>8 DEF Recreate
  <2>3. \A d \in Dev : index'[d] \in Nat
    BY <1>0, <1>8 DEF Recreate, TypeOK
  <2> QED
    BY <1>0, <2>1, <2>2, <2>3
<1>9. CASE \/ Register \/ OpenWatch \/ CheckNoIfaces \/ WatchReturn \/ KubeletAllocate
           \/ AllocateValidate \/ AllocateWrite \/ AllocateMark \/ AllocateReturn
           \/ KubeletRestart \/ UNCHANGED vars
  BY <1>9 DEF Register, OpenWatch, CheckNoIfaces, WatchReturn, KubeletAllocate,
              AllocateValidate, AllocateWrite, AllocateMark, AllocateReturn,
              KubeletRestart, vars
<1>10. ASSUME NEW d \in Dev, \/ KubeletList(d) \/ CniAdd(d) \/ KubeletFree(d) \/ CniDel(d)
                             \/ Rename(d) \/ Destroy(d)
      PROVE  IndexOrder'
  BY <1>10 DEF KubeletList, CniAdd, KubeletFree, CniDel, Rename, Destroy
<1> QED
  BY <1>1, <1>2, <1>3, <1>4, <1>5, <1>6, <1>7, <1>8, <1>9, <1>10
  DEF Next, RunStep, WatchStep, CallStep, HostStep

(* Every step keeps what kubelet's calls rest on.                          *)
LEMMA StepCallOpen ==
  ASSUME TypeOK, PhaseInv, CallOpen, [Next]_vars
  PROVE  CallOpen'
<1> USE DEF CallOpen, netdevVars, kubeletVars, tableVars
<1>1. CASE Register
  BY <1>1 DEF Register, PhaseInv
<1>2. CASE Crash
  BY <1>2 DEF Crash, NoCall
<1>3. CASE KubeletAllocate
  <2>1. PICK req \in SUBSET (SUBSET {d \in Dev \ granted : kview[d] = "Healthy"} \ {{}}) :
          call' = [NoCall EXCEPT !.pc = "validate", !.ids = UNION req, !.left = req]
    BY <1>3 DEF KubeletAllocate
  <2>2. call'.ids = UNION req /\ watch' = "open" /\ granted' = granted
    BY <1>3, <2>1 DEF KubeletAllocate, NoCall
  <2>3. (UNION req) \intersect granted = {}
    <3>1. \A c \in req : \A d \in c : d \notin granted
      OBVIOUS
    <3> QED
      BY <3>1
  <2> QED
    BY <2>2, <2>3
<1>4. CASE AllocateValidate
  BY <1>4 DEF AllocateValidate, TypeOK, Calls
<1>5. CASE AllocateWrite
  BY <1>5 DEF AllocateWrite, TypeOK, Calls
<1>6. CASE AllocateMark
  BY <1>6 DEF AllocateMark, TypeOK, Calls
<1>7. CASE AllocateReturn
  BY <1>7 DEF AllocateReturn, NoCall
<1>8. CASE KubeletRestart
  BY <1>8 DEF KubeletRestart, TypeOK, Calls
<1>9. CASE \/ Discover \/ OpenWatch \/ CheckListIfaces \/ CheckNoIfaces
           \/ CheckListAllocated \/ CheckListFails \/ CheckUpdate \/ WatchSend
           \/ WatchReturn \/ Tick \/ UNCHANGED vars
  BY <1>9 DEF Discover, OpenWatch, CheckListIfaces, CheckNoIfaces, CheckListAllocated,
              CheckListFails, CheckUpdate, WatchSend, WatchReturn, Tick, vars
<1>10. ASSUME NEW d \in Dev, \/ KubeletList(d) \/ CniAdd(d) \/ KubeletFree(d) \/ CniDel(d)
                             \/ Rename(d) \/ Destroy(d) \/ Recreate(d)
      PROVE  CallOpen'
  BY <1>10 DEF KubeletList, CniAdd, KubeletFree, CniDel, Rename, Destroy, Recreate
<1> QED
  BY <1>1, <1>2, <1>3, <1>4, <1>5, <1>6, <1>7, <1>8, <1>9, <1>10
  DEF Next, RunStep, WatchStep, CallStep, HostStep

(* Discovery takes stock: nothing was tabled, and all that is now is there.  *)
LEMMA DiscoverLearns ==
  ASSUME TypeOK, PhaseInv, Discover
  PROVE  Contract!Learn
<1> USE DEF netdevVars, kubeletVars
<1>1. /\ known = {} /\ check = NoCheck /\ watch = "none"
      /\ check' = check /\ watch' = watch /\ health' = health
      /\ \A d \in Dev : health[d] = "Healthy"
  BY DEF Discover, PhaseInv
<1>2. known' \subseteq Dev
  BY <1>1 DEF Discover, OnHost
<1>3. {d \in Dev : Lost(d)}' = {}
  BY <1>1 DEF Discover, Lost, OnHost
<1>4. Contract!Tabled = {} /\ Contract!Tabled' = known'
  BY <1>1, <1>2 DEF Contract!Tabled, Snapshot
<1>5. /\ Snapshot' \in [Dev -> Contract!Verdicts]
      /\ \A d \in Dev : Snapshot'[d] # "Unhealthy"
  BY <1>1 DEF Snapshot, Contract!Verdicts
<1>6. check.pc = "idle" /\ check'.pc = "idle" /\ devinfo \subseteq devinfo'
  BY <1>1 DEF NoCheck, Discover
<1>7. UNCHANGED <<kview, watch, granted>>
  BY <1>1 DEF Discover
<1> QED
  BY <1>1, <1>3, <1>4, <1>5, <1>6, <1>7 DEF Contract!Learn, Contract!kubelet

(* A check turns none Unhealthy but a lost device that no pod has.          *)
LEMMA CheckBenchesLost ==
  ASSUME DevicePluginInv, CheckUpdate, NEW d \in Dev, Snapshot'[d] = "Unhealthy"
  PROVE  \/ Snapshot[d] = "Unhealthy"
         \/ Snapshot[d] = "Healthy" /\ Lost(d) /\ d \notin granted
<1>1. [Next]_vars
  BY DEF Next, WatchStep
<1>2. health'[d] = "Unhealthy" /\ d \in known'
  BY DEF Snapshot
<1>3. CASE d \notin known
  <2>1. HealthAfter(d) = "Healthy"
    BY <1>3 DEF DevicePluginInv, PhaseInv, HealthAfter, Alive, Missed
  <2> QED
    BY <1>2, <2>1 DEF CheckUpdate
<1>4. CASE d \in known /\ health[d] = "Unhealthy"
  BY <1>4 DEF Snapshot
<1>5. CASE d \in known /\ health[d] = "Healthy"
  <2>1. Benched(d)
    BY <1>2, <1>5 DEF Benched
  <2>2. Missed(d)
    BY <1>1, <2>1, BenchedBy
  <2>3. d \notin granted
    BY <2>2, HeldNotMissed DEF DevicePluginInv, CheckUpdate
  <2>4. Lost(d)
    BY <1>1, <1>5, <2>1, BenchedLost DEF Lost
  <2> QED
    BY <1>5, <2>3, <2>4 DEF Snapshot
<1> QED
  BY <1>3, <1>4, <1>5 DEF DevicePluginInv, TypeOK, Health

(* A check finds back what it saw and loses nothing.                        *)
LEMMA CheckLosesNone ==
  ASSUME TypeOK, IndexOrder, CheckUpdate, NEW d \in known, Lost(d)'
  PROVE  Lost(d)
<1>1. d \in Dev /\ index[d] \in Nat /\ ifindex[d] \in Nat /\ check.byName[d] \in Nat
  BY ConstantTypes DEF TypeOK, Index, Checks
<1>2. where' = where /\ index' = index
  BY DEF CheckUpdate, netdevVars
<1>3. ifindex'[d] = IF check.byName[d] # 0 THEN check.byName[d] ELSE ifindex[d]
  BY <1>1 DEF CheckUpdate
<1>4. /\ ifindex[d] <= index[d] /\ check.byName[d] <= index[d]
      /\ check.byName[d] # 0 => ifindex[d] <= check.byName[d]
  BY <1>1 DEF IndexOrder
<1> QED
  BY <1>1, <1>2, <1>3, <1>4 DEF Lost

(* What a check changes in the table, ListAndWatch goes on to report.       *)
LEMMA CheckReports ==
  ASSUME TypeOK, PhaseInv, CheckUpdate, watch = "open", Snapshot' # Snapshot
  PROVE  check'.pc = "send"
<1>1. run # "discovered"
  BY DEF PhaseInv
<1>2. Changed
  <2> SUFFICES ASSUME ~Changed PROVE FALSE
    OBVIOUS
  <2>1. known' = known /\ \A d \in known : health'[d] = health[d]
    BY DEF CheckUpdate, Changed, TypeOK
  <2> QED
    BY <2>1 DEF Snapshot
<1> QED
  BY <1>1, <1>2 DEF CheckUpdate, NoCheck

(* A check takes stock.                                                     *)
LEMMA CheckLearns ==
  ASSUME DevicePluginInv, ContractInv, CheckUpdate
  PROVE  Contract!Learn
<1> USE DEF DevicePluginInv
<1>1. known \subseteq known' /\ known' \subseteq Dev
  BY DEF TypeOK, CheckUpdate, Added
<1>2. Contract!Tabled = known /\ Contract!Tabled' = known'
  BY <1>1 DEF Contract!Tabled, Snapshot, TypeOK, CheckUpdate, Health, HealthAfter
<1>3. Snapshot' \in [Dev -> Contract!Verdicts]
  <2>1. \A d \in Dev : health'[d] \in Health
    BY AfterTypes DEF CheckUpdate
  <2> QED
    BY <2>1 DEF Snapshot, Contract!Verdicts, Health
<1>4. \A d \in Dev : Snapshot'[d] = "Unhealthy" =>
        \/ Snapshot[d] = "Unhealthy"
        \/ Snapshot[d] = "Healthy" /\ d \in {e \in Dev : Lost(e)} \ granted
  BY CheckBenchesLost
<1>5. /\ {d \in Dev : Lost(d)}' \intersect known \subseteq {d \in Dev : Lost(d)}
      /\ {d \in Dev : Lost(d)}' \subseteq known'
  <2>1. \A d \in known : Lost(d)' => Lost(d)
    BY CheckLosesNone DEF ContractInv
  <2> QED
    BY <2>1 DEF Lost
<1>6. /\ check.pc # "send" /\ devinfo \subseteq devinfo'
      /\ kview' = kview /\ watch' = watch /\ granted' = granted
  BY DEF CheckUpdate, kubeletVars
<1>7. watch = "open" /\ Snapshot' # Snapshot => check'.pc = "send"
  BY CheckReports
<1>8. UNCHANGED Contract!kubelet
  BY <1>6 DEF Contract!kubelet
<1>9. (check.pc = "send")' \in BOOLEAN
  OBVIOUS
<1>10. Contract!Tabled \subseteq Contract!Tabled'
  BY <1>1, <1>2
<1>11. /\ {d \in Dev : Lost(d)}' \intersect Contract!Tabled \subseteq {d \in Dev : Lost(d)}
       /\ {d \in Dev : Lost(d)}' \subseteq Contract!Tabled'
  BY <1>2, <1>5
<1> QED
  BY <1>3, <1>4, <1>6, <1>7, <1>8, <1>9, <1>10, <1>11 DEF Contract!Learn

(* Devices, their files and the pods' claims apart, the contract sees the    *)
(* table, the stream, and whether a report is on its way.                   *)
LEMMA Unseen ==
  ASSUME TypeOK, UNCHANGED <<known, health, kview, granted, devinfo>>,
         (watch' = "open") = (watch = "open"), (check'.pc = "send") = (check.pc = "send"),
         \A d \in known : Lost(d)' = Lost(d)
  PROVE  UNCHANGED Contract!vars
<1>1. Snapshot' = Snapshot
  BY DEF Snapshot
<1>2. {d \in Dev : Lost(d)}' = {d \in Dev : Lost(d)}
  BY DEF Lost
<1> QED
  BY <1>1, <1>2 DEF Contract!vars, Contract!plugin, Contract!kubelet

(* The initial state is one of the contract's.                              *)
LEMMA ContractInit == Init => Contract!Init
<1> SUFFICES ASSUME Init PROVE Contract!Init
  OBVIOUS
<1>1. Snapshot = Contract!Nothing /\ kview = Contract!Nothing
  BY DEF Init, Snapshot, Contract!Nothing
<1>2. {d \in Dev : Lost(d)} = {}
  BY DEF Init, Lost
<1>3. watch # "open" /\ check.pc # "send" /\ granted = {} /\ devinfo = {}
  BY DEF Init, NoCheck
<1> QED
  BY <1>1, <1>2, <1>3 DEF Contract!Init

(* A step of Run, of the stream and its checks keeps the contract.          *)
LEMMA PluginStepContract ==
  ASSUME DevicePluginInv, ContractInv, RunStep \/ WatchStep
  PROVE  Contract!Next \/ UNCHANGED Contract!vars
<1> USE DEF netdevVars, kubeletVars, tableVars, DevicePluginInv
<1>1. CASE Discover
  BY <1>1, DiscoverLearns DEF Contract!Next
<1>2. CASE Register
  <2>1. watch = "none" /\ watch' = "registered"
    BY <1>2 DEF Register, PhaseInv
  <2> QED
    BY <1>2, <2>1, Unseen DEF Register, Lost
<1>3. CASE Crash
  <2>1. Snapshot' = Contract!Nothing /\ kview' = Contract!Nothing
    BY <1>3 DEF Crash, Snapshot, Contract!Nothing
  <2>2. {d \in Dev : Lost(d)}' = {}
    BY <1>3 DEF Crash, Lost
  <2>3. check'.pc # "send" /\ watch' # "open" /\ granted' = granted /\ devinfo' = devinfo
    BY <1>3 DEF Crash, NoCheck
  <2>4. Contract!Die
    BY <2>1, <2>2, <2>3 DEF Contract!Die
  <2> QED
    BY <2>4 DEF Contract!Next
<1>4. CASE OpenWatch
  <2>1. Snapshot' = Snapshot
    BY <1>4 DEF OpenWatch, Snapshot
  <2>2. {d \in Dev : Lost(d)}' = {d \in Dev : Lost(d)}
    BY <1>4 DEF OpenWatch, Lost
  <2>3. Contract!Connect
    BY <1>4, <2>1, <2>2 DEF OpenWatch, Contract!Connect, Contract!plugin
  <2> QED
    BY <2>3 DEF Contract!Next
<1>5. CASE CheckListIfaces
  <2>1. check.pc # "send" /\ check'.pc # "send"
    BY <1>5 DEF CheckListIfaces, NoCheck
  <2> QED
    BY <1>5, <2>1, Unseen DEF CheckListIfaces, Lost
<1>6. CASE CheckNoIfaces
  BY <1>6, Unseen DEF CheckNoIfaces, Lost
<1>7. CASE CheckListAllocated \/ CheckListFails
  <2>1. check.pc # "send" /\ check'.pc # "send"
    BY <1>7 DEF CheckListAllocated, CheckListFails, TypeOK, Checks
  <2> QED
    BY <1>7, <2>1, Unseen DEF CheckListAllocated, CheckListFails, Lost
<1>8. CASE CheckUpdate
  BY <1>8, CheckLearns DEF Contract!Next
<1>9. CASE WatchSend
  <2>1. Snapshot' = Snapshot
    BY <1>9 DEF WatchSend, Snapshot
  <2>2. {d \in Dev : Lost(d)}' = {d \in Dev : Lost(d)}
    BY <1>9 DEF WatchSend, Lost
  <2>3. check.pc = "send" /\ check'.pc # "send"
    BY <1>9 DEF WatchSend, NoCheck
  <2>4. Contract!Report
    BY <1>9, <2>1, <2>2, <2>3 DEF WatchSend, Contract!Report
  <2> QED
    BY <2>4 DEF Contract!Next
<1>10. CASE WatchReturn
  BY <1>10, Unseen DEF WatchReturn, Lost
<1> QED
  BY <1>1, <1>2, <1>3, <1>4, <1>5, <1>6, <1>7, <1>8, <1>9, <1>10 DEF RunStep, WatchStep

(* A step of an Allocate keeps the contract.                                *)
LEMMA CallStepContract ==
  ASSUME DevicePluginInv, ContractInv, CallStep
  PROVE  Contract!Next \/ UNCHANGED Contract!vars
<1> USE DEF netdevVars, kubeletVars, tableVars, DevicePluginInv
<1>1. CASE KubeletAllocate \/ AllocateValidate \/ AllocateMark
  BY <1>1, Unseen DEF KubeletAllocate, AllocateValidate, AllocateMark, Lost
<1>2. CASE AllocateWrite
  <2>1. devinfo \subseteq devinfo'
    BY <1>2 DEF AllocateWrite
  <2>2. UNCHANGED <<Contract!plugin, Contract!kubelet>>
    BY <1>2 DEF AllocateWrite, Contract!plugin, Contract!kubelet, Snapshot, Lost
  <2>3. Contract!Describe
    BY <2>1, <2>2 DEF Contract!Describe
  <2> QED
    BY <2>3 DEF Contract!Next
<1>3. CASE AllocateReturn /\ granted' = granted
  BY <1>3, Unseen DEF AllocateReturn, Lost
<1>4. CASE AllocateReturn /\ granted' # granted
  <2>1. call.pc = "done" /\ call.live /\ granted' = granted \union call.ids
    BY <1>4 DEF AllocateReturn
  <2>2. watch = "open" /\ call.ids \intersect granted = {}
    BY <2>1 DEF ContractInv, CallOpen
  <2>3. call.ids \subseteq known \intersect devinfo
    BY <2>1 DEF CallInv
  <2>4. Contract!Tabled = known
    BY DEF Contract!Tabled, Snapshot, TypeOK, Health
  <2>5. UNCHANGED <<Contract!plugin, kview, watch, devinfo>>
    BY <1>4 DEF AllocateReturn, Contract!plugin, Snapshot, Lost
  <2>6. Contract!Grant(call.ids)
    BY <2>1, <2>2, <2>3, <2>4, <2>5 DEF Contract!Grant
  <2>7. call.ids \in SUBSET Dev
    BY DEF TypeOK, Calls
  <2> QED
    BY <2>6, <2>7 DEF Contract!Next
<1> QED
  BY <1>1, <1>2, <1>3, <1>4 DEF CallStep

(* What happens to a netdev, in a pod or at kubelet, keeps the contract.    *)
LEMMA HostStepContract ==
  ASSUME DevicePluginInv, ContractInv, HostStep
  PROVE  Contract!Next \/ UNCHANGED Contract!vars
<1> USE DEF netdevVars, kubeletVars, tableVars, DevicePluginInv
<1>1. PICK d \in Dev : \/ KubeletList(d) \/ CniAdd(d) \/ KubeletFree(d) \/ CniDel(d)
                       \/ Rename(d) \/ Destroy(d) \/ Recreate(d)
  BY DEF HostStep
<1>2. CASE KubeletList(d)
  BY <1>2, Unseen DEF KubeletList, Lost
<1>3. CASE CniAdd(d) \/ CniDel(d) \/ Rename(d)
  <2>1. \A e \in Dev : (where'[e] = "gone") = (where[e] = "gone")
    BY <1>3 DEF CniAdd, CniDel, Rename, TypeOK
  <2>2. \A e \in known : Lost(e)' = Lost(e)
    BY <1>3, <2>1 DEF CniAdd, CniDel, Rename, Lost, TypeOK
  <2> QED
    BY <1>3, <2>2, Unseen DEF CniAdd, CniDel, Rename
<1>4. CASE KubeletFree(d)
  <2>1. \A e \in Dev : (where'[e] = "gone") = (where[e] = "gone")
    BY <1>4 DEF KubeletFree, TypeOK
  <2>2. {e \in Dev : Lost(e)}' = {e \in Dev : Lost(e)}
    BY <1>4, <2>1 DEF KubeletFree, Lost
  <2>3. Snapshot' = Snapshot
    BY <1>4 DEF KubeletFree, Snapshot
  <2>4. Contract!Free(d)
    BY <1>4, <2>2, <2>3 DEF KubeletFree, Contract!Free, Contract!plugin
  <2> QED
    BY <2>4 DEF Contract!Next
<1>5. CASE Destroy(d) /\ d \notin known
  <2>1. \A e \in known : Lost(e)' = Lost(e)
    BY <1>5 DEF Destroy, Lost, TypeOK
  <2> QED
    BY <1>5, <2>1, Unseen DEF Destroy
<1>6. CASE Destroy(d) /\ d \in known
  <2>1. Snapshot' = Snapshot
    BY <1>6 DEF Destroy, Snapshot
  <2>2. {e \in Dev : Lost(e)}' = {e \in Dev : Lost(e)} \union {d}
    <3>1. Lost(d)'
      BY <1>6 DEF Destroy, Lost, TypeOK
    <3>2. \A e \in Dev \ {d} : Lost(e)' = Lost(e)
      BY <1>6 DEF Destroy, Lost, TypeOK
    <3> QED
      BY <3>1, <3>2
  <2>3. d \in Contract!Tabled
    BY <1>6 DEF Contract!Tabled, Snapshot, TypeOK, Health
  <2>4. Contract!Lose(d)
    BY <1>6, <2>1, <2>2, <2>3 DEF Destroy, Contract!Lose, Contract!kubelet
  <2> QED
    BY <2>4 DEF Contract!Next
<1>7. CASE Recreate(d)
  <2>1. d \in known => Lost(d) /\ Lost(d)'
    <3>1. index'[d] = nextIndex /\ ifindex'[d] = ifindex[d] /\ where[d] = "gone" /\ known' = known
      BY <1>7 DEF Recreate, TypeOK
    <3>2. ifindex[d] < nextIndex /\ ifindex[d] \in Nat /\ nextIndex \in Nat
      BY ConstantTypes DEF NetdevInv, TypeOK, Index
    <3> QED
      BY <3>1, <3>2 DEF Lost
  <2>2. \A e \in known \ {d} : Lost(e)' = Lost(e)
    BY <1>7 DEF Recreate, Lost, TypeOK
  <2>3. d \in known => Lost(d)' = Lost(d)
    BY <2>1 DEF Lost
  <2>4. \A e \in known : Lost(e)' = Lost(e)
    BY <2>2, <2>3
  <2> QED
    BY <1>7, <2>4, Unseen DEF Recreate
<1> QED
  BY <1>1, <1>2, <1>3, <1>4, <1>5, <1>6, <1>7

(* Every step of the plugin, kubelet and the host is one of the contract,   *)
(* or unseen by it.                                                         *)
LEMMA ContractStep ==
  ASSUME DevicePluginInv, ContractInv, [Next]_vars
  PROVE  Contract!Next \/ UNCHANGED Contract!vars
<1> USE DEF netdevVars, kubeletVars, tableVars, DevicePluginInv
<1>1. CASE KubeletRestart
  <2>1. watch' # "open" /\ kview' = Contract!Nothing
    BY <1>1 DEF KubeletRestart, Contract!Nothing
  <2>2. UNCHANGED <<Contract!plugin, granted, devinfo>>
    BY <1>1 DEF KubeletRestart, Contract!plugin, Snapshot, Lost
  <2>3. Contract!Disconnect
    BY <2>1, <2>2 DEF Contract!Disconnect
  <2> QED
    BY <2>3 DEF Contract!Next
<1>2. CASE Tick
  <2>1. check'.pc = check.pc
    BY <1>2 DEF Tick, TypeOK, Checks
  <2> QED
    BY <1>2, <2>1, Unseen DEF Tick, Lost
<1>3. CASE UNCHANGED vars
  BY <1>3, Unseen DEF vars, Lost
<1> QED
  BY <1>1, <1>2, <1>3, PluginStepContract, CallStepContract, HostStepContract DEF Next

(* The plugin implements DeviceContract: whatever checks, writes, restarts  *)
(* and outages interleave, kubelet is told every change of the table, no    *)
(* device is forgotten while the plugin lives, only lost and unheld ones    *)
(* are benched, and pods get described devices that no other pod has.       *)
THEOREM ContractKept == Spec => KeepsContract
<1>1. Init => ContractInv
  BY DEF Init, ContractInv, IndexOrder, CallOpen, NoCheck, NoCall
<1>2. DevicePluginInv /\ ContractInv /\ [Next]_vars => ContractInv'
  BY StepIndexOrder, StepCallOpen DEF DevicePluginInv, ContractInv
<1>3. Init => Contract!Init
  BY ContractInit
<1>4. DevicePluginInv /\ ContractInv /\ [Next]_vars => [Contract!Next]_(Contract!vars)
  BY ContractStep
<1> QED
  BY <1>1, <1>2, <1>3, <1>4, Invariance, PTL DEF Spec, KeepsContract, Contract!Spec
=============================================================================
