--------------------------- MODULE StaticRelease ---------------------------
(***************************************************************************)
(* One use of the publish-static-release action: prepare packs a tree of   *)
(* assets in a private directory, the bundle is uploaded, finalize binds   *)
(* the manifest to it, the manifest is uploaded, and a step that always    *)
(* runs removes the directory.                                             *)
(*                                                                         *)
(* The assets and the bundle may change at any step, as other processes of *)
(* the job write to them; the process may be interrupted or killed at any  *)
(* step. A file is copied in two reads. Its version stands for its content *)
(* and for its stat record: a change that leaves size, inode and mtime     *)
(* alone is left out.                                                      *)
(***************************************************************************)
EXTENDS Naturals, FiniteSets

CONSTANTS
    Assets,     \* names of the files in the tree
    MaxEdits,   \* bound on the changes to assets
    MaxDamage,  \* bound on the changes to the bundle
    MaxSignals  \* bound on interrupts and kills

ASSUME BoundsAssumption ==
    /\ Assets # {} /\ IsFiniteSet(Assets)
    /\ MaxEdits \in Nat /\ MaxDamage \in Nat /\ MaxSignals \in Nat

VARIABLES
    step,       \* the step of the action
    pc,         \* where its process is
    signals,    \* interrupts and kills so far
    disk,       \* the version of each asset, 0 when it is not there
    edits,      \* changes to assets so far
    seen,       \* what the collection found: the files and their versions
    todo,       \* files still to be looked at, or to be packed
    file,       \* the file at work: what its descriptor holds, and the version
                \* its first read gave
    packed,     \* what both reads of each packed file gave
    exists,     \* the private directory is there
    children,   \* and what is in it
    told,       \* its path is in GITHUB_OUTPUT
    bundle,     \* the bytes of bundle.tar
    sealed,     \* the digest in prepared.json, or NoBytes
    uploaded,   \* the bytes of the bundle artifact, or NoBytes
    manifest,   \* the digest in release.json, or NoBytes
    published,  \* the manifest artifact is there
    snapshot,   \* history: the files found, as they were when the search ended
    cut         \* history: a signal came where the code cannot clean up, or
                \* cut its cleanup short

runner == <<step, signals, told, uploaded, published>>
tree == <<disk, edits>>
packing == <<seen, todo, file, packed, snapshot>>
private == <<exists, children, bundle, sealed, manifest>>
SRvars == <<runner, pc, tree, packing, private, cut>>

NoBytes == 0       \* versions of bundle.tar start at 1

Goto(where) == pc' = where

-----------------------------------------------------------------------------

\* In these places prepare's and main's handlers clean up.
InTry == {"tell", "scan", "stat", "open", "first", "rest", "again",
          "digest", "record", "output"}

\* And in these _write_bundle's own handlers remove the bundle before.
Writing == {"scan", "stat", "open", "first", "rest", "again", "digest"}

Places == InTry \cup {"start", "mkdir", "bare", "mark", "undo", "marked",
                      "handover", "check", "produce", "results",
                      "clean", "sweep", "ok", "failed"}

Names == {"owned", "bundle", "prepared", "manifest", "other"}

SRTypeOK ==
    /\ step \in {"prepare", "upload", "finalize", "publish", "cleanup", "over"}
    /\ pc \in Places
    /\ signals \in 0..MaxSignals /\ edits \in 0..MaxEdits
    /\ disk \in [Assets -> 0..(MaxEdits + 1)]
    /\ seen \in [Assets -> 0..(MaxEdits + 1)]
    /\ todo \subseteq Assets
    /\ file \in [name : Assets, now : 0..(MaxEdits + 1), first : 0..(MaxEdits + 1)]
    /\ packed \in [Assets -> (0..(MaxEdits + 1)) \X (0..(MaxEdits + 1))]
    /\ exists \in BOOLEAN /\ children \subseteq Names
    /\ ~exists => children = {}
    /\ told \in BOOLEAN
    /\ {bundle, sealed, uploaded, manifest} \subseteq 0..(MaxDamage + 1)
    /\ published \in BOOLEAN
    /\ snapshot \in [Assets -> 0..(MaxEdits + 1)]
    /\ cut \in BOOLEAN

Nothing == [f \in Assets |-> 0]

\* Some of the assets are there.
SRInit ==
    /\ step = "prepare" /\ pc = "start" /\ signals = 0
    /\ disk \in [Assets -> {0, 1}] /\ edits = 0
    /\ seen = Nothing /\ todo = {} /\ snapshot = Nothing
    /\ file = [name |-> CHOOSE f \in Assets : TRUE, now |-> 0, first |-> 0]
    /\ packed = [f \in Assets |-> <<0, 0>>]
    /\ exists = FALSE /\ children = {} /\ told = FALSE
    /\ bundle = NoBytes /\ sealed = NoBytes /\ uploaded = NoBytes /\ manifest = NoBytes
    /\ published = FALSE
    /\ cut = FALSE

-----------------------------------------------------------------------------
(* prepare *)

\* Contract, identity, checkout root, paths and RUNNER_TEMP are in order.
CheckInputs ==
    /\ pc = "start" /\ step = "prepare"
    /\ Goto("mkdir")
    /\ UNCHANGED <<runner, tree, packing, private, cut>>

\* The directory is made before the try block that would remove it.
MakePrivate ==
    /\ pc = "mkdir"
    /\ exists' = TRUE
    /\ Goto("bare")
    /\ UNCHANGED <<runner, tree, packing, children, bundle, sealed, manifest, cut>>

EnterTry ==
    /\ pc = "bare"
    /\ Goto("mark")
    /\ UNCHANGED <<runner, tree, packing, private, cut>>

MarkOwned ==
    /\ pc = "mark"
    /\ children' = children \cup {"owned"}
    /\ Goto("marked")
    /\ UNCHANGED <<runner, tree, packing, exists, bundle, sealed, manifest, cut>>

\* Wrong variant: the directory goes, whatever has been put into it.
UndoBlind ==
    /\ pc = "undo"
    /\ exists' = FALSE /\ children' = children \ {"owned"}
    /\ Goto("failed")
    /\ UNCHANGED <<runner, tree, packing, bundle, sealed, manifest, cut>>

\* _private_dir has failed in its try block.
Undo ==
    /\ pc = "undo"
    /\ IF children \subseteq {"owned"}
       THEN exists' = FALSE /\ children' = {}
       ELSE exists' = exists /\ children' = children \ {"owned"}
    /\ Goto("failed")
    /\ UNCHANGED <<runner, tree, packing, bundle, sealed, manifest, cut>>

\* It has returned, and prepare has not entered its own try block.
TakePrivate ==
    /\ pc = "marked"
    /\ Goto("tell")
    /\ UNCHANGED <<runner, tree, packing, private, cut>>

\* on_private: the path is known to the final step before anything is copied.
Tell ==
    /\ pc = "tell"
    /\ told' = TRUE
    /\ Goto("scan")
    /\ UNCHANGED <<step, signals, uploaded, published, tree, packing, private, cut>>

\* The tree is not packed: what there is of the bundle goes first.
Reject == Goto("clean") /\ children' = children \ {"bundle"}

\* The names in the tree.
Scan ==
    /\ pc = "scan"
    /\ todo' = {f \in Assets : disk[f] # 0}
    /\ IF todo' = {} THEN Goto("clean") ELSE Goto("stat")
    /\ UNCHANGED <<runner, tree, seen, file, packed, snapshot, private, cut>>

\* The stat record of one of them; a name that is gone ends the collection.
Stat(f) ==
    /\ pc = "stat" /\ f \in todo
    /\ seen' = [seen EXCEPT ![f] = disk[f]]
    /\ IF disk[f] = 0 THEN Goto("clean") ELSE pc' = pc
    /\ todo' = todo \ {f}
    /\ UNCHANGED <<runner, tree, file, packed, snapshot, private, cut>>

\* The collection is complete, and the bundle is created.
CreateBundle ==
    /\ pc = "stat" /\ todo = {}
    /\ todo' = {f \in Assets : seen[f] # 0}
    /\ snapshot' = [f \in Assets |-> IF seen[f] # 0 THEN disk[f] ELSE 0]
    /\ children' = children \cup {"bundle"}
    /\ bundle' = 1
    /\ Goto("open")
    /\ UNCHANGED <<runner, tree, seen, file, packed, exists, sealed, manifest, cut>>

\* A file is opened; it must be the one that was found.
Open(f) ==
    /\ pc = "open" /\ f \in todo
    /\ file' = [name |-> f, now |-> disk[f], first |-> 0]
    /\ todo' = todo \ {f}
    /\ IF disk[f] = seen[f] THEN Goto("first") /\ UNCHANGED children ELSE Reject
    /\ UNCHANGED <<runner, tree, seen, packed, snapshot, exists, bundle, sealed, manifest, cut>>

ReadFirst ==
    /\ pc = "first"
    /\ file' = [file EXCEPT !.first = file.now]
    /\ Goto("rest")
    /\ UNCHANGED <<runner, tree, seen, todo, packed, snapshot, private, cut>>

ReadRest ==
    /\ pc = "rest"
    /\ packed' = [packed EXCEPT ![file.name] = <<file.first, file.now>>]
    /\ Goto("again")
    /\ UNCHANGED <<runner, tree, seen, todo, file, snapshot, private, cut>>

\* Wrong variant: only the number of bytes is checked after the copy.
StatUnchanged ==
    /\ pc = "again"
    /\ Goto("open") /\ UNCHANGED children
    /\ UNCHANGED <<runner, tree, packing, exists, bundle, sealed, manifest, cut>>

\* fstat once more: the file has not changed under the copy.
StatAgain ==
    /\ pc = "again"
    /\ IF file.now = seen[file.name] THEN Goto("open") /\ UNCHANGED children ELSE Reject
    /\ UNCHANGED <<runner, tree, packing, exists, bundle, sealed, manifest, cut>>

\* All files are packed: the bundle is synced,
Pack ==
    /\ pc = "open" /\ todo = {}
    /\ Goto("digest")
    /\ UNCHANGED <<runner, tree, packing, private, cut>>

\* and its length and digest are taken.
Digest ==
    /\ pc = "digest"
    /\ sealed' = bundle
    /\ Goto("record")
    /\ UNCHANGED <<runner, tree, packing, exists, children, bundle, manifest, cut>>

WriteRecord ==
    /\ pc = "record"
    /\ children' = children \cup {"prepared"}
    /\ Goto("handover")
    /\ UNCHANGED <<runner, tree, packing, exists, bundle, sealed, manifest, cut>>

\* prepare has returned; main enters its try block,
Handover ==
    /\ pc = "handover"
    /\ Goto("output")
    /\ UNCHANGED <<runner, tree, packing, private, cut>>

\* and writes the results.
WriteResults ==
    /\ pc = "output"
    /\ told' = TRUE
    /\ Goto("ok")
    /\ UNCHANGED <<step, signals, uploaded, published, tree, packing, private, cut>>

-----------------------------------------------------------------------------
(* finalize *)

\* _owned_private, the artifact's id and the identity, which may have changed.
CheckOwned ==
    /\ pc = "start" /\ step = "finalize"
    /\ \/ exists /\ "owned" \in children /\ Goto("check")
       \/ Goto("failed")
    /\ UNCHANGED <<runner, tree, packing, private, cut>>

\* Wrong variant: the record is there, and that is enough.
CheckPresence ==
    /\ pc = "check"
    /\ IF "prepared" \in children /\ "bundle" \in children
       THEN Goto("produce") ELSE Goto("failed")
    /\ UNCHANGED <<runner, tree, packing, private, cut>>

\* The bundle is the one that was recorded.
CheckBundle ==
    /\ pc = "check"
    /\ IF {"prepared", "bundle"} \subseteq children /\ bundle = sealed
       THEN Goto("produce") ELSE Goto("failed")
    /\ UNCHANGED <<runner, tree, packing, private, cut>>

\* produce_static_manifest reads the bundle again.
Produce ==
    /\ pc = "produce"
    /\ manifest' = bundle
    /\ children' = children \cup {"manifest"}
    /\ Goto("results")
    /\ UNCHANGED <<runner, tree, packing, exists, bundle, sealed, cut>>

WriteManifestResults ==
    /\ pc = "results"
    /\ Goto("ok")
    /\ UNCHANGED <<runner, tree, packing, private, cut>>

-----------------------------------------------------------------------------
(* cleanup, in prepare's handlers and in the final step *)

\* The final step has nothing to do without a path.
BeginCleanup ==
    /\ pc = "start" /\ step = "cleanup"
    /\ Goto(IF told THEN "clean" ELSE "ok")
    /\ UNCHANGED <<runner, tree, packing, private, cut>>

Cleaned == IF step = "cleanup" THEN "ok" ELSE "failed"

\* No directory is fine. Otherwise it must be owned and hold nothing else.
CheckPrivate ==
    /\ pc = "clean"
    /\ IF ~exists THEN Goto(Cleaned)
       ELSE IF "owned" \in children /\ "other" \notin children THEN Goto("sweep")
       ELSE Goto("failed")
    /\ UNCHANGED <<runner, tree, packing, private, cut>>

\* The children go one by one, in the order the directory lists them.
Unlink(c) ==
    /\ pc = "sweep" /\ c \in children \ {"other"}
    /\ children' = children \ {c}
    /\ UNCHANGED <<runner, pc, tree, packing, exists, bundle, sealed, manifest, cut>>

\* A child that came later keeps the directory.
Rmdir ==
    /\ pc = "sweep" /\ children \subseteq {"other"}
    /\ exists' = (children # {})
    /\ Goto(IF children = {} THEN Cleaned ELSE "failed")
    /\ UNCHANGED <<runner, tree, packing, children, bundle, sealed, manifest, cut>>

-----------------------------------------------------------------------------
(* Signals, failures, the runner, and other processes *)

\* Wrong variant: prepare's handler names Exception, not BaseException.
LandingOfErrors(place) ==
    IF place = "mark" THEN "undo" ELSE "failed"

\* Where an exception that is raised in a place leads.
Landing(place) ==
    IF place \in InTry THEN "clean" ELSE IF place = "mark" THEN "undo" ELSE "failed"

Running == pc \notin {"ok", "failed"} /\ step \notin {"upload", "publish", "over"}

\* A call fails: a bad input, a full disk, an output file that is not writable.
Fail ==
    /\ pc \in InTry \cup {"start", "mkdir", "mark", "check", "produce", "results"}
    /\ step # "cleanup" /\ Running
    /\ Goto(Landing(pc))
    /\ children' = IF pc \in Writing THEN children \ {"bundle"} ELSE children
    /\ UNCHANGED <<runner, tree, packing, exists, bundle, sealed, manifest, cut>>

\* SIGINT, or SIGTERM, which main turns into a KeyboardInterrupt.
Interrupt ==
    /\ Running /\ signals < MaxSignals
    /\ signals' = signals + 1
    /\ cut' = (cut \/ step = "cleanup"
                   \/ pc \in {"bare", "undo", "marked", "clean", "sweep"})
    /\ Goto(Landing(pc))
    /\ UNCHANGED <<step, told, uploaded, published, tree, packing, private>>

\* SIGKILL: no handler runs.
Kill ==
    /\ Running /\ signals < MaxSignals
    /\ signals' = signals + 1
    /\ cut' = (cut \/ step = "cleanup"
                   \/ pc \in {"bare", "mark", "undo", "marked", "tell", "clean", "sweep"})
    /\ Goto("failed")
    /\ UNCHANGED <<step, told, uploaded, published, tree, packing, private>>

\* A step that ends well is followed by the next one, any other by the last.
NextStep ==
    /\ pc \in {"ok", "failed"} /\ step \in {"prepare", "finalize", "cleanup"}
    /\ step' = IF step = "cleanup" THEN "over"
               ELSE IF pc = "failed" THEN "cleanup"
               ELSE IF step = "prepare" THEN "upload" ELSE "publish"
    /\ pc' = IF step = "cleanup" THEN pc ELSE "start"
    /\ UNCHANGED <<signals, told, uploaded, published, tree, packing, private, cut>>

\* The bundle is uploaded, or is not, or the job is cancelled.
Upload ==
    /\ step = "upload"
    /\ \/ "bundle" \in children /\ uploaded' = bundle /\ step' = "finalize"
       \/ uploaded' \in {uploaded, bundle} /\ step' = "cleanup"
    /\ UNCHANGED <<pc, signals, told, published, tree, packing, private, cut>>

Publish ==
    /\ step = "publish"
    /\ step' = "cleanup"
    /\ published' \in {TRUE, FALSE}
    /\ UNCHANGED <<pc, signals, told, uploaded, tree, packing, private, cut>>

\* Another process writes to an asset, under the copy if it is open; or it creates,
\* replaces or deletes one, and an open descriptor keeps what it had.
Edit(f) ==
    /\ edits < MaxEdits /\ step = "prepare"
    /\ edits' = edits + 1
    /\ \/ /\ disk[f] # 0
          /\ disk' = [disk EXCEPT ![f] = edits + 2]
          /\ file' = IF file.name = f /\ file.now = disk[f]
                     THEN [file EXCEPT !.now = edits + 2] ELSE file
       \/ /\ disk' \in {[disk EXCEPT ![f] = edits + 2], [disk EXCEPT ![f] = 0]}
          /\ file' = file
    /\ UNCHANGED <<runner, pc, seen, todo, packed, snapshot, private, cut>>

\* It writes to the bundle, after it was packed; the same bytes never come back.
Damage ==
    /\ "bundle" \in children /\ pc # "open" /\ step # "over"
    /\ bundle \in 1..MaxDamage
    /\ bundle' = bundle + 1
    /\ UNCHANGED <<runner, pc, tree, packing, exists, children, sealed, manifest, cut>>

\* It puts something of its own into the directory.
Intrude ==
    /\ exists /\ "other" \notin children
    /\ children' = children \cup {"other"}
    /\ UNCHANGED <<runner, pc, tree, packing, exists, bundle, sealed, manifest, cut>>

Prepare ==
    \/ CheckInputs \/ MakePrivate \/ EnterTry \/ MarkOwned \/ Undo \/ TakePrivate
    \/ Tell \/ Scan \/ CreateBundle \/ ReadFirst \/ ReadRest \/ StatAgain
    \/ Pack \/ Digest \/ WriteRecord \/ Handover \/ WriteResults
    \/ \E f \in Assets : Stat(f) \/ Open(f)

Finalize == CheckOwned \/ CheckBundle \/ Produce \/ WriteManifestResults

Cleanup == BeginCleanup \/ CheckPrivate \/ (\E c \in Names : Unlink(c)) \/ Rmdir

Advance == Prepare \/ Finalize \/ Cleanup \/ NextStep \/ Upload \/ Publish

SRNext ==
    \/ Advance
    \/ Fail \/ Interrupt \/ Kill
    \/ (\E f \in Assets : Edit(f)) \/ Damage \/ Intrude

SRSpec == SRInit /\ [][SRNext]_SRvars /\ WF_SRvars(Advance)

-----------------------------------------------------------------------------
(* Properties *)

\* A bundle that is packed holds the files of the tree as they all were at one
\* moment, although they are looked at and copied one after the other while
\* others write to them (_collect and _write_bundle).
BundleIsSnapshot ==
    sealed # NoBytes => \A f \in Assets : packed[f] = <<snapshot[f], snapshot[f]>>

\* A consumer that verifies the bundle artifact against the published manifest
\* has the bytes that prepare recorded: a bundle that changes between the steps
\* leads to no manifest, or to one that does not fit (finalize,
\* verify_static_bundle).
AcceptedIsSealed ==
    published /\ manifest = uploaded => uploaded = sealed

\* The directory is gone when the action is over, also after interrupts and
\* kills, unless one of them came before the path was given out or cut a cleanup
\* short, or another process has put something there; and then the final step
\* says so (prepare, cleanup, main).
NothingLeft ==
    step = "over" /\ ~cut /\ "other" \notin children => ~exists

\* The action ends.
Ends == <>(step = "over")

\* "removes partially prepared outputs on a Python interruption. The final action
\* step is idempotent after that cleanup" (docs/static-release-producer.md).
InterruptLeavesNothing ==
    step = "over" /\ "other" \notin children => ~exists
=============================================================================
