--------------------------- MODULE OVNImageProofs ---------------------------
(***************************************************************************)
(* Proofs about OVNImage: its type invariant, that the image a run tags is *)
(* one of the files it was asked for, that .dockerignore is put back, and  *)
(* that no source directory with content is ever removed.                  *)
(***************************************************************************)
EXTENDS OVNImage, TLAPS

Flagged ==
  /\ ok \in BOOLEAN /\ raced \in BOOLEAN /\ blind \in BOOLEAN
  /\ lost \in BOOLEAN /\ unread \in BOOLEAN

(* Everything but the uniqueness of the cache.                             *)
Typed ==
  /\ pc \in Steps /\ override \in BOOLEAN
  /\ src \in {"absent", "empty", "partial", "whole"}
  /\ head \in Version /\ index \in Version /\ work \in Version
  /\ own \in {"own", "absent"} /\ ignore \in {"own", "absent", "generated"}
  /\ saved \in {"own", "absent", "generated"}
  /\ revision \in Revision /\ asked \in Version
  /\ images \subseteq [revision : Revision, content : Version]
  /\ tag \in Version \cup {None}
  /\ Flagged
  /\ edits \in 0..MaxEdits /\ faults \in 0..MaxFaults

(* What the steps rely on: a clone is made where nothing is, a build is    *)
(* for a revision not cached yet, what is tagged is the image of the run's *)
(* revision, and git status is asked when HEAD alone is known.             *)
Keyed ==
  /\ OnePerRevision
  /\ pc \in {"status", "diff"} => \E h \in Version : revision = <<h>>
  /\ pc = "clone" => src = "absent"
  /\ pc = "build" => Cached = {}
  /\ pc = "tag" => Cached # {}

(* The image a revision stands for, when it stands for one.                *)
Stands(r, c) == (Len(r) = 1 => c = r[1]) /\ (Len(r) = 3 => c = r[3])

(* While no change met a run and no changed tree passed for clean, every   *)
(* cached image, and what the run in progress asked for, is the content    *)
(* its revision stands for.                                                *)
Sound ==
  ~raced /\ ~blind =>
    /\ \A i \in images : Stands(i.revision, i.content)
    /\ pc \in {"lookup", "build", "tag", "restore"} => Stands(revision, asked)
    /\ pc \in {"status", "diff"} => revision = <<head>>
    /\ pc \in {"status", "diff", "lookup", "build"} => work = asked
    /\ pc = "restore" /\ ok => Stands(revision, tag)

(* The user's .dockerignore is on disk, or kept by the run in progress.    *)
Kept ==
  ~lost /\ ~unread =>
    /\ pc \in {"idle", "source", "clone", "ignore"} => ignore = own
    /\ pc \in {"revision", "status", "diff", "lookup", "build", "tag", "restore"} =>
         saved = own

Inv == Typed /\ Keyed /\ Sound /\ Kept

USE DEF Version, None, Revision, Steps

LEMMA RevisionsAreTyped ==
  ASSUME Typed, ImageAssumption
  PROVE  /\ <<>> \in Revision /\ <<head>> \in Revision
         /\ \A h \in Version : revision = <<h>> =>
              Diffed \in Revision /\ <<revision[1], 0>> \in Revision
<1> DEFINE W == 0..MaxVersion
<1>1. 0 \in W /\ head \in W /\ index \in W /\ work \in W
  BY DEF Typed, ImageAssumption
<1>2. <<>> \in Seq(W) /\ <<head>> \in Seq(W)
  <2> HIDE DEF W
  <2> QED BY <1>1
<1>3. ASSUME NEW h \in W, revision = <<h>>
      PROVE  Diffed \in Seq(W) /\ <<revision[1], 0>> \in Seq(W)
  <2>1. revision[1] = h
    BY <1>3
  <2> HIDE DEF W
  <2>2. <<h, 0>> \in Seq(W) /\ <<h, 0, 0, 0>> \in Seq(W) /\ <<h, index, work>> \in Seq(W)
    BY <1>1
  <2> QED BY <2>1, <2>2 DEF Diffed
<1> QED BY <1>2, <1>3

LEMMA TypedInit == ImageAssumption /\ Init => Typed
<1> SUFFICES ASSUME ImageAssumption, Init PROVE Typed
  OBVIOUS
<1>1. Flagged
  BY DEF Init, Flagged
<1>2. <<>> \in Revision /\ 0 \in Version
  BY DEF ImageAssumption
<1>3. own \in {"own", "absent"}
  BY Zenon DEF Init
<1> QED
  BY <1>1, <1>2, <1>3 DEF ImageAssumption, Init, Typed

LEMMA CachedIsTyped ==
  ASSUME Typed, Cached # {}
  PROVE  /\ (CHOOSE i \in Cached : TRUE) \in Cached
         /\ (CHOOSE i \in Cached : TRUE).content \in Version
  BY DEF Typed, Cached

LEMMA FlaggedStep == ASSUME Flagged, [Next]_vars PROVE Flagged'
<1> USE DEF Flagged, Ran, Abort, ReadOnly, history
<1>1. CASE User
  BY <1>1, Zenon DEF User, Edit, Stage, Commit, Changes, Revising
<1>2. CASE Preparing
  BY <1>2, Zenon DEF Preparing, Run, EnsureSource, Clone, WriteIgnore, RevParse, RevParsed,
     Status, Diff
<1>3. CASE Building
  BY <1>3, Zenon DEF Building, Lookup, Build, TagBuilt, RestoreIgnore
<1>4. CASE Faults
  BY <1>4, Zenon DEF Faults, GitFails, CloneFails, IgnoreFails, IgnoreUnread, EngineFails, NotRestored
<1>5. CASE UNCHANGED vars
  BY <1>5, Zenon DEF vars
<1> QED
  BY <1>1, <1>2, <1>3, <1>4, <1>5, Zenon DEF Next

LEMMA TypedStep == ASSUME ImageAssumption, Typed, Keyed, [Next]_vars PROVE Typed'
<1>0. Flagged'
  BY FlaggedStep DEF Typed
<1> USE DEF Typed, Ran, Abort, history, tree
<1>1. CASE User
  <2>1. Changes
    BY <1>1, Zenon DEF User, Edit, Stage, Commit
  <2>2. head' \in Version /\ index' \in Version /\ work' \in Version
    BY <1>1, Zenon DEF User, Edit, Stage, Commit
  <2>3. edits' \in 0..MaxEdits
    BY <2>1 DEF Changes, ImageAssumption
  <2> QED BY <1>0, <2>1, <2>2, <2>3, Zenon DEF Changes
<1>2. CASE Run
  BY <1>0, <1>2 DEF Run
<1>3. CASE EnsureSource
  BY <1>0, <1>3 DEF EnsureSource, Removable
<1>4. CASE Clone
  BY <1>0, <1>4 DEF Clone
<1>5. CASE WriteIgnore
  BY <1>0, <1>5 DEF WriteIgnore
<1>6. CASE RevParse \/ Status \/ Diff
  <2>1. revision' \in Revision /\ asked' \in Version
    BY <1>6, RevisionsAreTyped DEF RevParse, RevParsed, Status, Diff, Keyed
  <2> QED
    BY <1>0, <1>6, <2>1 DEF RevParse, RevParsed, Status, Diff, ReadOnly
<1>7. CASE Lookup
  BY <1>0, <1>7, CachedIsTyped DEF Lookup
<1>8. CASE Build
  BY <1>0, <1>8 DEF Build
<1>9. CASE TagBuilt
  BY <1>0, <1>9, CachedIsTyped DEF TagBuilt, Keyed
<1>10. CASE RestoreIgnore
  BY <1>0, <1>10 DEF RestoreIgnore, RestoredIgnore
<1>11. CASE GitFails
  <2>1. revision' \in Revision /\ asked' \in Version
    BY <1>11, RevisionsAreTyped DEF GitFails, RevParsed, Keyed
  <2>2. pc' \in Steps /\ faults' \in 0..MaxFaults
    BY <1>11 DEF GitFails, Fault, ImageAssumption
  <2>3. /\ UNCHANGED <<override, src, head, index, work, own, ignore, saved, images, tag, edits>>
    BY <1>11 DEF GitFails, ReadOnly
  <2> QED
    BY <1>0, <2>1, <2>2, <2>3
<1>12. CASE CloneFails
  BY <1>0, <1>12 DEF CloneFails, Fault, ImageAssumption
<1>13. CASE IgnoreFails \/ IgnoreUnread
  <2>1. /\ ignore' \in {"own", "absent", "generated"} /\ saved' \in {"own", "absent", "generated"}
        /\ pc' \in Steps /\ faults' \in 0..MaxFaults
    BY <1>13 DEF IgnoreFails, IgnoreUnread, Fault, ImageAssumption
  <2>2. UNCHANGED <<override, src, tree, own, revision, asked, images, tag, edits>>
    BY <1>13 DEF IgnoreFails, IgnoreUnread
  <2> QED
    BY <1>0, <2>1, <2>2
<1>14. CASE EngineFails
  BY <1>0, <1>14 DEF EngineFails, Fault, ImageAssumption
<1>15. CASE NotRestored
  BY <1>0, <1>15 DEF NotRestored, Fault, ImageAssumption
<1>16. CASE UNCHANGED vars
  BY <1>0, <1>16 DEF vars
<1> QED
  BY <1>1, <1>2, <1>3, <1>4, <1>5, <1>6, <1>7, <1>8, <1>9, <1>10, <1>11, <1>12,
     <1>13, <1>14, <1>15, <1>16 DEF Next, Preparing, Building, Faults

-----------------------------------------------------------------------------
(* The steps that leave the cache, and the run's place in it, alone.       *)
LEMMA KeyedStep == ASSUME Typed, Keyed, [Next]_vars PROVE Keyed'
<1> USE DEF Keyed, OnePerRevision, Cached, Ran, Abort, ReadOnly
<1>1. CASE User
  BY <1>1 DEF User, Edit, Stage, Commit, Changes
<1>2. CASE Preparing
  <2>1. CASE Run \/ EnsureSource \/ Clone \/ WriteIgnore
    BY <2>1 DEF Run, EnsureSource, Clone, WriteIgnore, Removable
  <2>2. CASE RevParse
    BY <2>2 DEF RevParse, RevParsed, tree, Typed
  <2>3. CASE Status
    <3>1. UNCHANGED <<images, revision, src>> /\ pc = "status" /\ pc' \in {"lookup", "diff"}
      BY <2>3 DEF Status
    <3> QED BY <3>1
  <2>4. CASE Diff
    BY <2>4 DEF Diff
  <2> QED
    BY <1>2, <2>1, <2>2, <2>3, <2>4 DEF Preparing
<1>3. CASE Lookup
  BY <1>3 DEF Lookup
<1>4. CASE Build
  <2>1. /\ images' = images \cup {[revision |-> revision, content |-> work]}
        /\ revision' = revision /\ pc' = "tag" /\ \A i \in images : i.revision # revision
    BY <1>4 DEF Build
  <2>2. [revision |-> revision, content |-> work] \in Cached'
    BY <2>1
  <2> QED
    BY <2>1, <2>2
<1>5. CASE TagBuilt
  BY <1>5 DEF TagBuilt
<1>6. CASE RestoreIgnore
  BY <1>6 DEF RestoreIgnore
<1>7. CASE Faults
  BY <1>7 DEF Faults, GitFails, ReadOnly, RevParsed, CloneFails, IgnoreFails, IgnoreUnread, EngineFails, NotRestored
<1>8. CASE UNCHANGED vars
  BY <1>8 DEF vars
<1> QED
  BY <1>1, <1>2, <1>3, <1>4, <1>5, <1>6, <1>7, <1>8 DEF Next, Building

(* A revision git gave stands for what is on disk; the shorter answers of  *)
(* a git that failed stand for nothing, or for a tree taken for clean.     *)
LEMMA RevisionsStand ==
  ASSUME Typed
  PROVE  /\ Stands(<<>>, work) /\ Stands(<<head, 0>>, work)
         /\ Clean => Stands(<<head>>, work)
         /\ revision = <<head>> =>
              Stands(Diffed, work) /\ Stands(<<revision[1], 0>>, work)
  BY DEF Stands, Diffed, Clean

LEMMA SoundStep == ASSUME Typed, Keyed, Sound, [Next]_vars PROVE Sound'
<1> SUFFICES ASSUME ~raced', ~blind' PROVE Sound'
  BY DEF Sound
<1>0. /\ ~raced /\ ~blind
  BY DEF Next, User, Edit, Stage, Commit, Changes, Preparing, Run, EnsureSource, Clone,
     WriteIgnore, RevParse, Status, Diff, Building, Lookup, Build, TagBuilt, RestoreIgnore, Faults,
     GitFails, CloneFails, IgnoreFails, IgnoreUnread, EngineFails, NotRestored, Ran, history, vars, Typed, Flagged
<1> USE <1>0 DEF Sound, Ran, Abort, history, tree
<1>1. CASE User
  <2>1. /\ UNCHANGED <<pc, revision, asked, images, tag, ok>>
        /\ pc \in {"status", "diff", "lookup", "build"} => UNCHANGED work
        /\ pc \in {"status", "diff"} => UNCHANGED head
    BY <1>1 DEF User, Edit, Stage, Commit, Changes, Revising
  <2> QED BY <2>1
<1>2. CASE Run \/ EnsureSource \/ Clone \/ WriteIgnore
  BY <1>2 DEF Run, EnsureSource, Clone, WriteIgnore
<1>3. CASE RevParse \/ Status \/ Diff
  BY <1>3, RevisionsStand DEF RevParse, RevParsed, Status, Diff, ReadOnly
<1>4. CASE Lookup
  <2>1. CASE Cached = {}
    BY <1>4, <2>1 DEF Lookup
  <2>2. CASE Cached # {}
    BY <1>4, <2>2, CachedIsTyped DEF Lookup, Cached
  <2> QED BY <2>1, <2>2
<1>5. CASE Build
  BY <1>5 DEF Build
<1>6. CASE TagBuilt
  BY <1>6, CachedIsTyped DEF TagBuilt, Cached, Keyed
<1>7. CASE RestoreIgnore
  BY <1>7 DEF RestoreIgnore
<1>8. CASE GitFails
  <2>1. Stands(revision', work) /\ asked' = work /\ pc' = "lookup"
        /\ images' = images /\ work' = work
    BY <1>8, RevisionsStand DEF GitFails, RevParsed, ReadOnly
  <2> QED BY <2>1
<1>9. CASE CloneFails \/ IgnoreFails \/ IgnoreUnread \/ EngineFails \/ NotRestored
  BY <1>9 DEF CloneFails, IgnoreFails, IgnoreUnread, EngineFails, NotRestored
<1>10. CASE UNCHANGED vars
  BY <1>10 DEF vars
<1> QED
  BY <1>1, <1>2, <1>3, <1>4, <1>5, <1>6, <1>7, <1>8, <1>9, <1>10
     DEF Next, Preparing, Building, Faults

LEMMA KeptStep == ASSUME Typed, Kept, [Next]_vars PROVE Kept'
<1> USE DEF Kept, Ran, Abort, history
<1>1. CASE User
  BY <1>1 DEF User, Edit, Stage, Commit, Changes
<1>2. CASE Preparing
  BY <1>2 DEF Preparing, Run, EnsureSource, Clone, WriteIgnore, RevParse, Status, Diff, ReadOnly, RevParsed
<1>3. CASE Building
  BY <1>3 DEF Building, Lookup, Build, TagBuilt, RestoreIgnore, RestoredIgnore
<1>4. CASE GitFails \/ CloneFails \/ IgnoreFails \/ IgnoreUnread \/ EngineFails
  <2>1. CASE GitFails \/ CloneFails \/ EngineFails
    BY <2>1 DEF GitFails, ReadOnly, RevParsed, CloneFails, EngineFails
  <2>2. CASE IgnoreFails
    BY <2>2 DEF IgnoreFails
  <2>3. CASE IgnoreUnread
    BY <2>3 DEF IgnoreUnread, Typed
  <2> QED BY <1>4, <2>1, <2>2, <2>3
<1>5. CASE NotRestored
  BY <1>5 DEF NotRestored, Typed
<1>6. CASE UNCHANGED vars
  BY <1>6 DEF vars
<1> QED
  BY <1>1, <1>2, <1>3, <1>4, <1>5, <1>6 DEF Next, Faults

-----------------------------------------------------------------------------
(* The inductive invariant holds in every state of every sequence of runs, *)
(* edits and faults.                                                       *)
THEOREM InvariantHolds == Spec => []Inv
<1>1. ImageAssumption
  BY ImageAssumption
<1>2. Init => Inv
  BY <1>1, TypedInit DEF Init, Inv, Keyed, OnePerRevision, Cached, Sound, Kept
<1>3. Inv /\ [Next]_vars => Inv'
  BY <1>1, TypedStep, KeyedStep, SoundStep, KeptStep DEF Inv
<1> QED
  BY <1>2, <1>3, PTL DEF Spec

(* Every variable keeps its type, and the cache maps a revision to one     *)
(* image: an image is built only under a revision that has none.           *)
THEOREM TypeCorrect == Spec => []TypeOK
<1>1. Inv => TypeOK
  BY DEF Inv, Typed, Flagged, Keyed, TypeOK
<1> QED
  BY <1>1, InvariantHolds, PTL

(* The image a successful run gives the requested name is one of the files *)
(* found when it asked git, while revisions name their content, no user    *)
(* changed what a run was reading, and git status saw every change.        *)
THEOREM TaggedIsFresh == Spec => []TagIsFresh
<1>1. Inv => TagIsFresh
  BY DEF Inv, Sound, TagIsFresh, Succeeds, NamesContent, Stands
<1> QED
  BY <1>1, InvariantHolds, PTL

(* Between runs the user's .dockerignore is as the user left it, unless a  *)
(* run was killed, or could not write it back, or could not read it.       *)
THEOREM DockerignoreRestored == Spec => []IgnoreRestored
<1>1. Inv => IgnoreRestored
  BY DEF Inv, Kept, IgnoreRestored
<1> QED
  BY <1>1, InvariantHolds, PTL

(* No step removes a source directory that has anything in it.             *)
THEOREM SourceKept == Spec => SourceNeverRemoved
<1> DEFINE Content == src \in {"partial", "whole"}
<1>1. Inv /\ [Next]_vars => [Content => (src' = src)]_vars
  <2> SUFFICES ASSUME Inv, [Next]_vars, Content PROVE src' = src
    OBVIOUS
  <2> USE DEF Ran, Abort, ReadOnly
  <2>1. CASE User
    BY <2>1 DEF User, Edit, Stage, Commit, Changes
  <2>2. CASE Preparing
    BY <2>2 DEF Preparing, Run, EnsureSource, Removable, Clone, WriteIgnore, RevParse, Status, Diff,
       Inv, Keyed
  <2>3. CASE Building
    BY <2>3 DEF Building, Lookup, Build, TagBuilt, RestoreIgnore
  <2>4. CASE Faults
    BY <2>4 DEF Faults, GitFails, CloneFails, IgnoreFails, IgnoreUnread, EngineFails, NotRestored, Inv, Keyed
  <2>5. CASE UNCHANGED vars
    BY <2>5 DEF vars
  <2> QED
    BY <2>1, <2>2, <2>3, <2>4, <2>5 DEF Next
<1> QED
  BY <1>1, InvariantHolds, PTL DEF Spec, SourceNeverRemoved
=============================================================================
