------------------------------ MODULE OVNImage ------------------------------
(***************************************************************************)
(* The OVN-Kubernetes image built from a local source tree and reused by   *)
(* a key of its inputs (pkg/cni/ovn_kubernetes.go).  The user edits, stages*)
(* and commits in that tree at any time, also while a build runs; git and  *)
(* the container engine may fail and dpu-sim may be killed at every step.  *)
(* No caller passes an OVN git ref, and the architecture never changes:    *)
(* the key varies with the revision of the source only.                    *)
(***************************************************************************)
EXTENDS Naturals, Sequences

CONSTANTS
  MaxVersion,  \* bound: the contents the tracked files can have are 0..MaxVersion
  MaxEdits,    \* bound: edits and stagings of the user in all
  MaxFaults    \* bound: failing commands and kills in all

ASSUME ImageAssumption ==
  /\ MaxVersion \in Nat \ {0} /\ MaxEdits \in Nat /\ MaxFaults \in Nat

Version == 0..MaxVersion
None == MaxVersion + 1   \* no image has the tag

Steps == {"idle", "source", "clone", "ignore", "revision", "status", "diff",
          "lookup", "build", "tag", "restore"}

(* A revision is <<>> when git did not give one, else <<head>> as git      *)
(* rev-parse read it, alone or with what sets a changed tree apart.        *)
Revision == Seq(Version)

VARIABLES
  pc,
  override,     \* TRUE with --ovn-kubernetes-path
  src,          \* the source directory: "absent", "empty" (or only .git),
                \* "partial" (no Helm chart), "whole"
  head, index, work,  \* content of the tracked files: committed, staged, on disk
  own,          \* the user's .dockerignore: "own", or "absent"
  ignore,       \* the one on disk: also "generated"
  saved,        \* what the run in progress found there
  revision,     \* the revision the run in progress computed
  asked,        \* what was on disk when it began to
  images,       \* the cached images: [revision, content]
  tag,          \* the content of the image with the requested name
  ok,           \* FALSE once a command of this run has failed
  raced,        \* TRUE once the user changed what a run was reading
  blind,        \* TRUE once git status failed, and a changed tree passed for clean
  lost,         \* TRUE once a run did not get to restore .dockerignore
  unread,       \* TRUE once a run could not read the .dockerignore it replaced
  edits, faults

tree == <<head, index, work>>
history == <<raced, blind, lost, unread>>
vars == <<pc, override, src, tree, own, ignore, saved, revision, asked, images,
          tag, ok, history, edits, faults>>

(* The cache maps a revision to one image.                                 *)
OnePerRevision == \A i, j \in images : i.revision = j.revision => i.content = j.content

TypeOK ==
  /\ pc \in Steps /\ override \in BOOLEAN
  /\ src \in {"absent", "empty", "partial", "whole"}
  /\ head \in Version /\ index \in Version /\ work \in Version
  /\ own \in {"own", "absent"} /\ ignore \in {"own", "absent", "generated"}
  /\ saved \in {"own", "absent", "generated"}
  /\ revision \in Revision /\ asked \in Version
  /\ images \subseteq [revision : Revision, content : Version]
  /\ tag \in Version \cup {None} /\ ok \in BOOLEAN
  /\ raced \in BOOLEAN /\ blind \in BOOLEAN /\ lost \in BOOLEAN
  /\ unread \in BOOLEAN
  /\ edits \in 0..MaxEdits /\ faults \in 0..MaxFaults
  /\ OnePerRevision

Init ==
  /\ pc = "idle" /\ override \in BOOLEAN
  /\ src \in {"absent", "empty", "partial", "whole"}
  /\ head = 0 /\ index = 0 /\ work = 0
  /\ own \in (IF src = "whole" THEN {"own", "absent"} ELSE {"absent"}) /\ ignore = own
  /\ saved = "absent" /\ revision = <<>> /\ asked = 0
  /\ images = {} /\ tag = None /\ ok = TRUE
  /\ raced = FALSE /\ blind = FALSE /\ lost = FALSE /\ unread = FALSE
  /\ edits = 0 /\ faults = 0

-----------------------------------------------------------------------------
(* The user's work in the tree.  It races with a run from the first git    *)
(* command of its revision to the last of them, and an edit, which alone   *)
(* changes what is built, until the build.                                 *)
Revising == pc \in {"status", "diff"}

Changes ==
  /\ src = "whole" /\ edits < MaxEdits /\ edits' = edits + 1
  /\ UNCHANGED <<pc, override, src, own, ignore, saved, revision, asked, images,
                 tag, ok, blind, lost, unread, faults>>

Edit(v) ==
  /\ v # work /\ work' = v /\ Changes /\ UNCHANGED <<head, index>>
  /\ raced' = (raced \/ Revising \/ pc \in {"lookup", "build"})

Stage ==
  /\ index # work /\ index' = work /\ Changes /\ UNCHANGED <<head, work>>
  /\ raced' = (raced \/ Revising)

Commit ==
  /\ head # index /\ head' = index /\ Changes /\ UNCHANGED <<index, work>>
  /\ raced' = (raced \/ Revising)

-----------------------------------------------------------------------------
(* Steps of a build change neither the tracked files nor their history.    *)
Ran == UNCHANGED <<override, tree, own, edits, history>>

Run ==
  /\ pc = "idle" /\ pc' = "source" /\ ok' = TRUE
  /\ Ran /\ UNCHANGED <<src, ignore, saved, revision, asked, images, tag, faults>>

(* The run ends with an error before anything is to be restored.           *)
Abort == pc' = "idle" /\ ok' = FALSE

(* EnsureOVNKubernetesSource: only a directory with nothing in it makes    *)
(* way for a clone.                                                        *)
RemoveUnpopulated == src \in {"empty", "partial"}
Removable == src = "empty"

EnsureSource ==
  /\ pc = "source"
  /\ IF src = "whole" THEN pc' = "ignore" /\ UNCHANGED <<src, ok>>
     ELSE IF ~override /\ src = "absent" THEN pc' = "clone" /\ UNCHANGED <<src, ok>>
     ELSE IF ~override /\ Removable THEN src' = "absent" /\ pc' = "clone" /\ UNCHANGED ok
     ELSE Abort /\ UNCHANGED src
  /\ Ran /\ UNCHANGED <<ignore, saved, revision, asked, images, tag, faults>>

Clone ==
  /\ pc = "clone" /\ src' = "whole" /\ pc' = "ignore"
  /\ Ran /\ UNCHANGED <<ignore, saved, revision, asked, images, tag, ok, faults>>

(* writeDockerignore: the file found is kept, to be put back by a defer.   *)
WriteIgnore ==
  /\ pc = "ignore" /\ saved' = ignore /\ ignore' = "generated" /\ pc' = "revision"
  /\ Ran /\ UNCHANGED <<src, revision, asked, images, tag, ok, faults>>

(* ovnKubernetesSourceRevision, one step per git command: rev-parse gives  *)
(* HEAD, which is the revision when status finds no change; for a changed  *)
(* tree a hash of git diff is added, which compares the disk with the      *)
(* index.                                                                  *)
Clean == head = index /\ index = work
RevParsed(r) == pc = "revision" /\ revision' = r /\ asked' = work
ReadOnly == UNCHANGED <<src, ignore, saved, images, tag, ok>>

RevParse ==
  /\ RevParsed(<<head>>) /\ pc' = "status"
  /\ Ran /\ ReadOnly /\ UNCHANGED faults

Status ==
  /\ pc = "status" /\ pc' = (IF Clean THEN "lookup" ELSE "diff")
  /\ Ran /\ ReadOnly /\ UNCHANGED <<revision, asked, faults>>

HeadOnly == <<revision[1]>>
Diffed ==
  IF index = work THEN <<revision[1], 0, 0, 0>> ELSE <<revision[1], index, work>>

Diff ==
  /\ pc = "diff" /\ revision' = Diffed /\ pc' = "lookup"
  /\ Ran /\ ReadOnly /\ UNCHANGED <<asked, faults>>

Cached == {i \in images : i.revision = revision}

LookupRebuilds ==
  /\ pc = "lookup" /\ pc' = "build"
  /\ Ran /\ UNCHANGED <<src, ignore, saved, revision, asked, images, tag, ok, faults>>

(* The image with the key is tagged with the requested name, or built.     *)
Lookup ==
  /\ pc = "lookup"
  /\ IF Cached = {} THEN pc' = "build" /\ UNCHANGED tag
     ELSE pc' = "restore" /\ tag' = (CHOOSE i \in Cached : TRUE).content
  /\ Ran /\ UNCHANGED <<src, ignore, saved, revision, asked, images, ok, faults>>

Build ==
  /\ pc = "build" /\ pc' = "tag"
  /\ images' = images \cup {[revision |-> revision, content |-> work]}
  /\ Ran /\ UNCHANGED <<src, ignore, saved, revision, asked, tag, ok, faults>>

TagBuilt ==
  /\ pc = "tag" /\ pc' = "restore" /\ tag' = (CHOOSE i \in Cached : TRUE).content
  /\ Ran /\ UNCHANGED <<src, ignore, saved, revision, asked, images, ok, faults>>

RestoreByRemoving == "absent"
RestoredIgnore == saved

RestoreIgnore ==
  /\ pc = "restore" /\ pc' = "idle" /\ ignore' = RestoredIgnore
  /\ Ran /\ UNCHANGED <<src, saved, revision, asked, images, tag, ok, faults>>

-----------------------------------------------------------------------------
Fault == faults < MaxFaults /\ faults' = faults + 1

(* The ways ovnKubernetesSourceRevision answers when a git command fails:  *)
(* no HEAD ("unknown"), no status (taken for clean), no diff ("-dirty").   *)
GitFails ==
  /\ Fault /\ pc' = "lookup" /\ ReadOnly
  /\ \/ RevParsed(<<>>) /\ UNCHANGED blind
     \/ pc = "status" /\ blind' = (blind \/ ~Clean) /\ UNCHANGED <<revision, asked>>
     \/ pc = "diff" /\ revision' = <<revision[1], 0>> /\ UNCHANGED <<asked, blind>>
  /\ UNCHANGED <<override, tree, own, edits, raced, lost, unread>>

(* A clone that fails, or is killed, leaves what it got to.                *)
CloneFails ==
  /\ Fault /\ pc = "clone" /\ Abort /\ src' \in {"absent", "empty", "partial"}
  /\ Ran /\ UNCHANGED <<ignore, saved, revision, asked, images, tag>>

(* .dockerignore could not be written, or only in part: a warning.         *)
IgnoreFails ==
  /\ Fault /\ pc = "ignore" /\ saved' = ignore /\ pc' = "revision"
  /\ ignore' \in {ignore, "generated"}
  /\ Ran /\ UNCHANGED <<src, revision, asked, images, tag, ok>>

(* A read that fails, for whatever reason, counts as no file there.        *)
IgnoreUnread ==
  /\ Fault /\ pc = "ignore" /\ saved' = "absent" /\ ignore' = "generated"
  /\ pc' = "revision" /\ unread' = (unread \/ ignore # "absent")
  /\ UNCHANGED <<override, tree, own, edits, raced, blind, lost, src, revision, asked,
                 images, tag, ok>>

(* Docker or podman fails: the deferred restoration still runs.            *)
EngineFails ==
  /\ Fault /\ pc \in {"lookup", "build", "tag"} /\ pc' = "restore" /\ ok' = FALSE
  /\ Ran /\ UNCHANGED <<src, ignore, saved, revision, asked, images, tag>>

(* dpu-sim is killed, or the file could not be put back.                   *)
NotRestored ==
  /\ Fault /\ pc \notin {"idle", "clone"} /\ pc' = "idle" /\ ok' = FALSE
  /\ lost' = (lost \/ pc \notin {"source", "ignore"})
  /\ UNCHANGED <<override, tree, own, edits, raced, blind, unread, src, ignore, saved,
                 revision, asked, images, tag>>

User == (\E v \in Version : Edit(v)) \/ Stage \/ Commit
Preparing == Run \/ EnsureSource \/ Clone \/ WriteIgnore \/ RevParse \/ Status \/ Diff
Building == Lookup \/ Build \/ TagBuilt \/ RestoreIgnore
Faults == GitFails \/ CloneFails \/ IgnoreFails \/ IgnoreUnread \/ EngineFails \/ NotRestored

Next == User \/ Preparing \/ Building \/ Faults

Spec == Init /\ [][Next]_vars

-----------------------------------------------------------------------------
Succeeds == pc = "restore" /\ ok

(* When a build succeeds, the requested name is an image of the files that *)
(* were on disk when the run asked git: a revision with a diff in it stands*)
(* for one content, however often the tree went there and back.  Excepted  *)
(* are revisions that say nothing of the changes (NamesContent), and all   *)
(* that follows a git status that failed on a changed tree (blind) or any  *)
(* change between rev-parse and diff, or edit before the build (raced):    *)
(* the image then cached is found again under its key by every later run.  *)
NamesContent == Len(revision) \in {1, 3}
TagIsFresh == Succeeds /\ ~raced /\ ~blind /\ NamesContent => tag = asked

(* The comment on ovnKubernetesSourceRevision: "when dirty, appends a hash *)
(* of tracked-file diffs so local changes invalidate cache", while every   *)
(* git command answers and nobody changes the tree during a run.           *)
LocalChangesInvalidate == Succeeds /\ ~raced /\ faults = 0 => tag = asked

(* A run leaves the user's .dockerignore as it found it, or none where     *)
(* there was none, on success and on every error after it was replaced,    *)
(* but for a run that was killed or could not write it back (lost), and    *)
(* one that could not read the file it replaced (unread).                  *)
IgnoreRestored == pc = "idle" /\ ~lost /\ ~unread => ignore = own

(* A directory with anything in it is never removed, whatever failed       *)
(* before: a partial checkout is an error, not a reason to clone again.    *)
SourceNeverRemoved == [][(src \in {"partial", "whole"}) => (src' = src)]_vars
=============================================================================
