# A verification of the cas-kb knowledge base

This directory holds TLA+ models of the parts of cas-kb that change its state, the TLC
runs that check them on small instances and the proofs that TLAPS checks for all
instances. References of the form `file.go:line` are to `src/internal/repo/` unless they
say otherwise.

## The system

A library is a content-addressed object store with a small mutable name space on top.

| part | state | operations | hard behaviour |
| --- | --- | --- | --- |
| object store (`internal/store`) | tables `objects`, `branches`, `projects`, `meta` | Put, Get, Has, Delete, List, BranchSet/Get/Delete, MetaSet/Get/Delete, each one SQL statement | no transaction spans two calls; `branches.addr` has a foreign key to `objects` |
| branch writers (`note.go`, `dir.go`, `commit.go`, `bulk.go`, `markdown.go`) | none of their own | note set, note rm, mkdir, rmdir, commit, bulk and Markdown import, export | trees are changed by copy on write; read head, read head again, put objects, put snapshot, set branch: every gap is visible to other processes |
| index upkeep (`indexupdate.go`, `vecbuild.go`, `internal/index`) | index and vector objects named by snapshots | incremental update, full build, rebuild of index, rebuild of embeddings | old index and new tree come from different reads of the head |
| garbage collector (`gc.go`) | meta `gc.keep_last` | mark from branch heads, list, delete row by row | runs next to writers; killed half way; the watermark |
| reset (`reset.go`) | | moves a branch to an ancestor | makes reachable objects garbage |
| merge kernel (`merge.go`) | | merge base, three-way merge of trees | notes against directories, changes on both sides at several depths, several merge bases |
| merge state (`mergestate.go`) | branch `<b>-merge`, meta `merge.<project>.<b>` | start, decide, continue, abort | two rows written by two calls; the freeze of direct writes |
| staging (`stage.go`) | branch `<b>-stage` | stage, commit --staged, abort | two rows written by two calls; changes replayed on a branch that has gone on |
| pull and transfer (`pull.go`, `transfer.go`) | | copy the history of a remote head, fast-forward | killed between objects; parents are put before what they refer to |
| backup and restore (`dump.go`) | | dump all objects and branches, restore | no transaction; `meta` is not in the file |
| fsck (`fsck.go`), search (`internal/index/query.go`) | | read only | fsck and gc decide by different walks what must be there |
| diff, links, views, doctor | | read only | |
| HTTP server (`internal/server`, `cmd/kb/serve.go`) | one open store, the requests in flight | reads, POST and DELETE of a note, graceful stop | requests side by side and beside the command line; a stop with a grace of five seconds |
| self update (`internal/selfupdate`, `cmd/kb/update.go`) | the binary and `kb.old` | look, download, verify, swap | two renames; a server may be started in between |

The command line (one process per command) and the HTTP server (one goroutine per request)
call `internal/repo`, which calls the store. Processes share nothing but the database.
Everything below the branch rows is immutable and named by its hash, so the questions are
always the same three: is everything a branch head needs really there; is what the head
says (index, vectors, history) consistent with itself; and what do overlapping or dying
commands do to each other's work.

What makes each part correct:

- writers: a command that nobody overtook loses nothing; commands that overlap lose at
  most what last-writer-wins loses (DESIGN.md section 4.3 accepts that), and never mix
  contents; the index of a snapshot is the index of its tree;
- collector: nothing a head needs goes, everything else does, after any history of
  crashes;
- merge: the branch stays frozen from the conflict to the end of the merge; the result is
  the automatic merge with exactly the decisions taken; what a killed command left behind
  does not leak into the next merge;
- transfer: a branch is set to a head only when its whole history is here;
- trees: a command changes the paths it names and no other, a merge takes from each side
  what it changed and reports what both did;
- search: the index after any series of updates is the one a full build would give;
- staging: what was staged, and only that, reaches the branch once, whatever dies;
- watermark, backup: what a history may lack is known, and fsck and gc agree on it;
- server: answers tell the truth, reads are fresh, a stop ends and loses no answer it had
  the time for;
- self update: a whole binary is always left, and never an older one.

## Modules

| module | what it is |
| --- | --- |
| `LwwBranch` | abstract specification: what a branch promises to clients that may overlap |
| `BranchWriters` | the writers, the index upkeep, reset and the collector, one action per store call others can see |
| `BranchWriters_proofs` | type correctness, the agreement of index and tree, closure of the heads and exactness of collections |
| `BranchEdits_proofs` | refinement of `LwwBranch`, what undisturbed edits keep, the agreement of vectors and tree |
| `MergeFlow` | pull, the merge with its intermediate state, decisions, continue, abort, gc |
| `MergeFlow_proofs` | type correctness, the state of a merge, its result, its history and the freeze |
| `NoteTrees` | the operations on nested trees: paths, edits, bulk import, staged changes, three-way merge |
| `NoteTrees_proofs` | what edits, imports, replays and merges leave at every path, for trees of any depth |
| `NoteIndex` | the document table and the postings of the search index, full and incremental; search |
| `FlatNotes` | abstract specification: a library as a set of directories and a map from paths to notes |
| `Workspace` | the commands that edit a library, one at a time, on those trees and that index |
| `Workspace_proofs` | refinement of `FlatNotes`, the index, merges and imports |
| `StageFlow` | the stage branch, its commands step by step, several clients |
| `StageFlow_proofs` | what a stage holds, what leaves it, what a commit publishes |
| `Library` | whole libraries: gc with the watermark, fsck, vectors, pull, merge, backup, restore |
| `Library_proofs` | what a history may lack, the agreement of gc, fsck and transfer |
| `SelfUpdate` | kb update, rename by rename |
| `Serve` | kb serve, its requests and its stop |
| `Upgrade` | server and update together, with fairness |
| `Upgrade_proofs` | what updates always keep, what answers promise, and what the composition keeps of both |
| `MC...` | the instances for TLC |

Three groups look at the same commands at different grain. `BranchWriters`, `MergeFlow` and
`StageFlow` take them apart into store calls and let them overlap and die, with trees of
one level or two. `Workspace` runs them one at a time, on nested trees and with the index in
full. `Library` runs them one at a time over several libraries, and looks at which objects
are there. `Upgrade` composes `Serve` and `SelfUpdate`.

### BranchWriters

`stored` is the objects table, `head` the branches table, `snaps` every snapshot content
ever hashed (a snapshot's address is its place there). Since an address stands for a
content, a tree, an index and a vector index are addressed by the function from paths to
notes they stand for; equal contents share an address, as in the store. `w[p]` is the
command process p is running: what it has read, what it has yet to put. `gc` is the
collector's mark set and the open cursor of its list.

A note set is five visible steps: the blob and the note are put before anything is read
(`StartSet`), the head is read and the tree changed in memory (`ReadTree`), the head is read
a second time for the parent, the old tree and the old index (`ReadParent`), index and
trees are put (`PutContent`), the snapshot is put (`PutSnapshot`) and the branch is set
(`SetBranch`). The guards of these steps are the reads that must succeed. The rebuilds
differ in the order (they put first and read the head again after) and in what they carry
over from the second head (`CarryOver`). `Stop` ends a command between any two steps: a
kill, or an error the store returned. The collector marks in one step (it only reads), opens
its cursor in another and deletes row by row; the foreign key refuses to delete the
snapshot of a head, and a refused delete ends the collection.

`seen` and `moved` are history variables: only properties read them.

`GcAlone` chooses the regime. With TRUE a collection and a command never overlap. That is
the operator's discipline, nothing in the code enforces it: `docs/serve.md` section 3
advises one writer at a time and `kb gc` is run by hand or by a timer. With FALSE they
overlap freely, and the run `collector_race` shows what happens then.

### MergeFlow

`main` and `side` are the rows `<b>` and `<b>-merge`, `meta` the merge key, `held` the
snapshots in the local objects table (with what they own), `remote` the head in the other
library, whose history is complete there. A snapshot has a first and a second parent, and
two derived fields that its hash pins down, its set of ancestors and the base snapshot that
`mergeBaseSnapshot` finds along the first parents.

Direct writes (`set`, `pull`, `reset`) pass `rejectIfMerging` in their first step and act
later, which is the gap a race needs. The commands of the merge itself run one at a time:
two operators who continue and abort the same merge at once are not modelled. Kills can
fall between the side branch and the key (`OpenSide`, `Signal`), between the branch and the
key (`Publish`, `Unsignal`), and between the key and the side branch (`Unsignal`,
`DropSide`).

### NoteTrees, NoteIndex, Workspace

A tree is a function from names to entries, and an entry of type dir is the subtree itself,
since an address stands for its content. `Depth` bounds the names of a path: `Ways` are the
paths within it, `TreesOf(notes)` the trees, built level by level. The recursions of the
code are recursive functions over paths, which the prover can reason about: `Walk` gives the
directory at each step of a way down, `Rebuilt` the new directories on the way back up.
`MutateAt` is mutateAt with the function it is called with as data (`Mutated`), `Opened` a
directory that is made where it is missing. `MemPut` and `FinalizeMem` are the nodes that bulk
import builds in memory, a map from directories to their trees, where a directory the batch
has made is not in its parent's tree before the end. `Merged` is mergeTrees, directory by
directory: `Chosen` is its table for one entry, which reports a conflict and keeps ours there.
An operation that returns an error yields `Refused`, and the command then changes nothing.

`Workspace` has the branch as the sequence of its trees (`hist`), the index of its head, a
clone that is edited on its own (`theirs`, `base`) and a directory of Markdown files. The
front matter and its parser are the constant map `MdOf`: what a text is after it was
written and read, which is another text when a tag has a comma in it (y in the instances). The refinement maps a tree to its flat view, so `ImplementsFlat` says of
every step that beside the paths it names nothing moves. `Distinct` excuses search from
notes that are byte for byte the same at two paths: the document table has one row for
both.

### StageFlow

`main` is the tree of the branch, `stage` the trees of base and tip below the row
`<b>-stage`. A staged edit looks for the row, lays a base if there is none (`LayBase`), and is
then a note set in the stage view (`ReadStage`, `ReadStageParent`, `SetStage`). A commit
reads the stage once (what hangs below an address never changes), replays the changes on the
branch (`Replay`), moves it (`Publish`) and drops the row (`Drop`, at the end of a commit or for
the user who aborts). `wanted` and `settled` are history variables: what was staged at each
path, and whether the branch has had all of it at one moment (`Landed` looks at the branch
itself, not at which command has moved it). `NothingStagedIsLost` is an action property: the
step that takes the stage away needs `settled` or the user's abort. `crossed` tells that two
staging commands have overlapped since there was no stage: such commands can lose edits (a
commit drops a row with an edit that came after its read, a write under way sets a row again
that a commit has dropped), and the properties excuse that. A command on the branch itself
may overlap anything. A commit whose changes do not apply, for instance because a note takes
the place of a directory whose notes are removed (mergestate.go:357), leaves the stage as it is, each time
until the user aborts. The properties demand that nothing is lost then, not that it ever
succeeds.

### Library

A library is its set of objects, its two rows and its watermark. A content stands for a tree
and its notes; index and vectors of a content are objects of their own, which a snapshot
names or not. `far` is a field the hash of a snapshot pins down: how many parents it is from
each ancestor. `Marked`, `Pruned` and `Problems` are gc's and fsck's walks, `CopyOrder` the
order in which transfer.copy puts objects, of which any prefix may arrive. A reset counts
what it abandons, so it needs every snapshot of the history to be there. A backup lists
the objects, other commands run, then it lists the rows. A restore wipes what is there,
unless there is nothing, and then the library keeps its watermark; one that dies in between
has put any of the objects of the file, which come in the order of their hashes. Two history
variables say for each library what may be missing from it: `lost` the indexes and vectors
that keep-last let go or a pull left out, `torn` what belongs to the snapshots that came
between the two reads of the backup it was restored from. `NothingElseIsMissing` says that a
history lacks no snapshot and no tree but those in `torn`, and no index and no vector but those and
the ones in `lost`: with a backup that nothing overtakes `torn` is empty.

### Serve, SelfUpdate, Upgrade

`hist` is who moved the branch, in order; a write handler decides (`Land`) and answers
later (`Answer`), and a request that loses its handler is `cut`. Whether the store is open
for a handler that is still at work follows from `proc`: the grace may run out, or the
listener fail, with handlers under way, and the store is closed under them. Every code that refuses
is one refusal, because what matters of it is that nothing was done.

`target` and `old` are the files kb and kb.old, by the build they hold. The steps of swap
are actions, each may fail or be the last. `Found` is what an administrator finds after
that: kb, or kb.old when there is no kb. `overlap` tells that two updates have been under
way together; these can clear away each other's kb.old and put an older build back.

## Runs

| run | question | bounds | result |
| --- | --- | --- | --- |
| `writers` | what can overlapping commands do to each other | 2 writers, 1 branch, 2 paths, 2 values, 3 snapshots, 1 kill | `IndexAgrees`, `UndisturbedEditsKeepAll`, refinement of `LwwBranch` hold |
| `collector` | is the store right after any sequence of commands, collections and crashes | 1 writer, 2 branches, 2 paths, 1 value, 3 snapshots, 2 kills | `HeadsClosed`, `VecAgrees`, `CollectionExact` hold |
| `merges` | does a merge come to the right result through decisions, resets and crashes, and does what a dead one left behind leak into the next | 1 client, 2 values; scene one: 2 paths, 7 snapshots, 1 kill; scene two: 1 path, 8 snapshots, 2 kills, both sides go on | `FrozenHead`, `StateIsWhole`, `HistoryHeld`, `ContinueIsFaithful` hold |
| `trees` | do nested trees, index, merge and import do what their flat reading says | 3 paths (a note or directory, two notes in it), depth 2, 2 texts, 4 batches, 3 commits, 1 edit of the clone | refinement of `FlatNotes`, `SearchExact`, `ConflictsAreExact`, `MergeIsSymmetric`, `ImportRestores`, `BulkLandsApart` hold |
| `stage` | does staging keep and publish what was asked for, through deaths and direct edits | 2 clients, the paths a and a/b, depth 2, 2 notes, any number of commands | `StageIsWanted`, `NothingStagedIsLost`, `CommitIsWanted`, `CommitTwiceIsOnce` hold |
| `library` | what can be missing in a library, and do gc, fsck and pull agree on it | 2 libraries, 2 contents, watermarks 0 and 1, 3 snapshots, 3 other commands beside a backup, a restore that dies has put or yet to put at most 1 object | `NothingElseIsMissing`, `FsckIsSound`, `GcIsExact` hold |
| `upgrade` | is the service whole and does it come back, through stops, crashes and updates | 1 request, 1 write of the command line, 1 stop, 1 crash, 1 updater, 2 updates, 2 failing renames, 1 kill, 2 releases | all nine properties hold |
| `collector_race` | may gc overlap a write | 1 writer, 1 path, 2 snapshots | no: `HeadsClosed` is violated |
| `merge_gc` | may gc run during a merge | 1 client, 6 snapshots | no: `HistoryHeld` is violated |
| `pull_vectors` | can a library that was pulled be collected | 2 libraries, 1 other command | no: `PulledCanBeCollected` is violated |
| `bulk_lost` | does an import refuse contradicting paths as note set does | as `trees` | no: `BulkLands` is violated |
| `md_round_trip` | does the import of an export change nothing | as `trees` | no: `RoundTripKeeps` is violated |

Why the bounds are enough to be interesting. Two writers are all a race of pairs needs, and
three snapshots let a command be overtaken twice, or a rebuild and a reset follow an
edit. Two paths tell an edit of the same note from an edit of another; with one value a
path is written or removed, with two it is also changed. In `collector` the two branches
share trees, notes and indexes (equal contents have equal addresses), which is where a
collector goes wrong, and two kills allow a sweep that died after a command that died. In
`merges` the first three snapshots are a common root and one edit on either side; a
conflicting merge, one decision and its continue take three more, so seven leave room for a
second merge after one that a kill left half done. `MCMergeFlow` bounds a behaviour by the
scene it starts in, which names the commands, the paths, the deaths and the snapshots. In
the first, two paths let a merge have a conflict at one and take the other from a side; the
branch is edited only before the merge, and moves by reset and pull. The second gives up the
second path, reset and pull for edits on both sides between the merges, an eighth snapshot
and a second death, so that a side branch that a dead merge left meets another merge. All
commands at two paths with two deaths have too many states for one run.

In `trees` the three paths are the smallest set with a name that can be a note or a
directory and a directory that holds more than one note; three commits are an edit, another
that undoes or covers it, and an import or merge on top. In `stage` nothing is counted:
every sequence of commands over these trees is explored, since a branch is its tree. Its
view leaves the histories out of states in which staging commands have overlapped: no
property looks at them there, and both are empty again when the overlap is over, so a
behaviour that is left out differs from one that is kept in nothing a property sees. In
`library` three snapshots give a history with a pruned middle, or two that have parted and
their merge; three other commands are, for instance, gc with a watermark, a reset and gc
again, or a pull that dies before a backup has read the objects, a pull that completes it before the
backup reads the rows, and a restore: the shortest way to a branch without its tree (without
`torn` the run finds it). A backup itself changes no library and is not counted. A restore
that dies leaves at most one object or all but at most one: a library without heads, in
which only later copies can tell one part from another. In `upgrade` two
updates let one start from what another left half done, two failing renames are the second
rename and the way back, and the releases are a pre-release and its final version written
with fewer segments; a withdrawn release is the change of the newest back to the older one.

Paths, values, processes and clients are interchangeable where the cfg names a symmetry.
Deadlock is checked except in `trees` and `library`, whose bounds on commits and commands
end every behaviour; no command of the program waits for another there. `upgrade` needs no
exception, because a server that is down can always be started or a release published.

`upgrade` is the run with liveness. Its fairness is weak fairness of three things: of the
steps that end a stop (Shutdown returns by itself or by its timer, serve.go:119), of starting a
server that is down (a supervisor with Restart=on-failure or the operator of
docs/serve.md), and of the steps of an update under way (each request of it has a time
limit, update.go:27 and :60, the rest are file operations). Handlers have none: the server
sets no read or write time limit, so a client may hold one for ever, and `StopEnds` holds
all the same. `ServiceReturns` excuses exactly the cases in which there is nothing to start:
a kill between the two renames, or a way back that fails or finds kb.old cleared away.

The other runs have safety properties only. Commands may always die, nothing in the
repository code retries, and the only promise of progress would be that a command that is
not killed ends, which the absence of loops in the models already shows.

Every property of a passing run has a mutant, a plausible mistake in the code that the
run detects: the operators whose comment begins with "mistake" or "The form".

## What the violations show

- `collector_race` (gc.go:55): gc marks, a server write publishes, gc sweeps what the write
  put. The foreign key keeps the snapshot alone. A 2xx answer does not imply that fsck
  passes when gc may run, against `docs/serve.md:79` and `DESIGN.md:464`.
- `merge_gc` (mergestate.go:146): the base of `<b>-merge` has only ours as its parent, so
  nothing holds theirs until the merge ends, against `docs/research/merge-design.md:201`.
- `pull_vectors` (children.go:31): a snapshot's vectors are no child of it, so a pull leaves
  them behind, and gc and fsck of the copy fail for as long as the snapshot is in a
  history, against `DESIGN.md:146`.
- `bulk_lost` (bulk.go:92): a note of the name of a directory that the same batch has made
  is counted as imported and lost, against the comment at bulk.go:63.
- `md_round_trip` (markdown.go:109): a tag with a comma in it, which can come in over HTTP or
  with bulk import, is written into the front matter as it is and read back as two tags, so
  that the import of an export writes the note anew with another address, against
  markdown.go:19 and `DESIGN.md:262`. `ImportRestores` therefore speaks of the text that a
  file reads back as.

Races that the passing runs leave out, each with the constants that show it:

- an embedding rebuild that is overtaken by an edit publishes the tree from before and the
  index from after the edit (vecbuild.go:160): `IndexAgrees` with "embed" among the
  `Commands` of two writers. RebuildIndex has the same shape for vectors
  (indexupdate.go:129): `VecAgrees` therefore holds only with one writer at a time and is
  checked in `collector`, not in `writers`;
- the freeze and the second look at the head are check-then-act (mergestate.go:217 and
  :287): a note set that began before the merge can land inside continue and is undone,
  with two `Clients` in `MergeFlow`; the properties of the merge are checked with one;
- overlapping staging commands (stage.go:88, :93): `StageIsWanted` and
  `NothingStagedIsLost` without `~crossed`; TLC finds a violation of each;
- a backup that is overtaken by a pull that completes an earlier one (dump.go:52):
  `NothingElseIsMissing` without `torn`. The restored branch has its snapshot and not its tree;
- overlapping updates: `upgrade` has one updater. With several the theorems `ABinarySurvives`
  and `AnUpdateIsNeverOlder` say what is left: of two that overlap (selfupdate.go:397) neither
  promises that the build is not older.

## Proofs

All theorems are for arbitrary constants: any sets of writers, branches, paths, names, values,
requests, updaters and releases, and any bounds, the depth of trees among them. Every
invariant and every action property of a passing run is a theorem, under the assumptions
given below.

`BranchWriters_proofs`
- `ReferencesExist`: the invariant `TInv`: types, every snapshot id that any variable holds
  is at most `Len(snaps)`, histories are sets of written snapshots, and a writer's program
  counter fits its kind. Type correctness alone is not inductive: `snaps[head[b]]` has a
  type only if the id exists.
- `TypeCorrect`: `Spec => []TypeOK`, from `TInv`.
- `IndexStaysTrue`: without the command `embed`, `Spec => []IndexAgrees`. The invariant
  `IndexInv` says of every snapshot ever written, not only of heads, and of every writer
  past `ReadParent`, that the index is absent or that of the tree. Snapshots that are not
  heads matter because reset can make them heads. The assumption is needed, see above.

The two that follow are under `GcAlone`, which `collector_race` shows to be needed:

- `HeadsStayClosed`: `Spec => []HeadsClosed`. The invariant `ClosedInv` adds to `TInv`:
  histories contain themselves and are transitively closed (`PastSelf`, `PastTrans`); the
  heads hold all they need (`HeadsHold`); what a writer has read and what it has put is
  stored (`WritersHold`), which is what lets `SetBranch` extend `HeadsHold`; and while the
  collector is at work nobody writes, so what it has marked is still what the heads need and
  what it has yet to delete is outside it (`GcHolds`).
- `CollectionIsExact`: `Spec => CollectionExact`, from `ClosedInv` and `GcExact`: during a
  sweep, whatever is stored and not marked is still on the list.

`BranchEdits_proofs`
- `WritersImplementLww`: `Spec => ImplementsLww`, the refinement, step by step, under
  `Paths # {}` (with no path at all there is no edit to map a move of a branch to). The
  mapping takes a branch to the tree of its head, and to the edit of a command its window:
  the trees the branch had since the command read. The invariant `WindowInv` says that what
  a writer has read is in its window, whatever moved meanwhile.
- `UndisturbedEditsLoseNothing`: `Spec => UndisturbedEditsKeepAll`. Two invariants:
  `StartsBare` (a command that has not read yet carries nothing of an earlier one) and
  `FreshInv` (as long as nobody moved the branch, both reads of the head are the head).
- `VectorsStayTrue`: without the command `reindex`, `Spec => []VecAgrees`, for any number of
  writers that race. The run `collector` has rebuilds of the index and one writer; the
  theorem says that these rebuilds are the only way to break the property.

`MergeFlow_proofs`, for any number of clients where nothing else is said
- `TypeCorrect`: `Spec => []TypeOK`. Not inductive by itself: the invariant `TInv` adds that
  every snapshot that a row, the merge key, a command or another snapshot names is there
  (`Refs`). That the merge base is one needs a greatest element of the common history.
- `StateStaysWhole`: `Spec => []StateIsWhole`. The invariant `MergerInv` relates what the one
  command that deals with the merge has still to write to the key and the side branch
  (`MergerOf`), one clause for each place at which it can be killed, and says of a key that
  is there that the decisions recorded are the ones on the side branch.
- `ContinueStaysFaithful`: `Spec => ContinueIsFaithful`, from the same invariant and
  `ReplayedIsTarget`: replaying the differences of two trees on the first gives the second.
- `HistoryStaysHeld`: under `~ GcInMerge`, `Spec => []HistoryHeld`. `merge_gc` shows that the
  assumption is needed. The invariant adds what commands under way have read.
- `FreezeHolds`: with one client (`\A p, q \in Clients : p = q`), `Spec => []FrozenHead`. With two
  it is false, see above.

`Library_proofs`, for any number of libraries and histories of any shape
- the invariant `Inv`: a snapshot's history is the union of the histories of its parents and
  itself (`SnapOf`); each library, and each backup and backup file at the heads it was taken
  for, holds all that the heads need or counts it `lost` or `torn` (`Served`), and only indexes
  and vectors are ever `lost` (`SearchOnly`), which is why a missing tree must be `torn`; the history of main names
  an index throughout, without which a commit that changes nothing could name an index that
  was never put.
- `HeadsHaveObjects` (`TypeOK`), `HistoriesLackNothingElse` (`NothingElseIsMissing`),
  `FsckTellsTheTruth` (`FsckIsSound`), `CollectionsAreExact` (`GcIsExact`). For the transfer
  it is shown that `CopyOrder` is defined and lists exactly the snapshots, trees and indexes
  of the history (`OrderIsComplete`); for fsck, that references followed one by one reach the
  whole history (`SoundMeansWhole`); for gc, that a snapshot near one head is not pruned
  however far it is from the others (`RecentIsKept`).
- The attempt to prove `TypeOK` showed that `Library` let a reset go to a snapshot that a torn
  backup had left out, which takes one command more than the bound of the run. The code
  reads the whole history first (reset.go:56), and `Reset` now has that guard.

`NoteTrees_proofs`, about the operators that `Workspace` and `StageFlow` share, for trees of any
depth
- that each recursive definition has a value and unfolds (`WalkExists`, `RebuiltExists`,
  `MergedExists`, `FinalExists` and others), and that the operations stay within the trees of
  that depth (`LevelIs`, `MergedType`, `FinalType`);
- what each operation leaves at every path: `EditIs` and `EditLeaves` for mutateAt (the entry at
  the path it names is the new one, what lies on the way becomes a directory, every path
  beside it keeps its entry), with `PutIs`, `DropIs`, `RemoveDirIs` and `MkdirIs` for the commands;
  `ImportIs` for a batch; `MergeAt` and `MergeConflicts` for a merge.
- `ReplayStaged`: the differences of two trees, replayed on a third, give at each path the
  second where the two differ and the third elsewhere, and replayed again give the same
  tree, unless the replay fails. The two trees differ at finitely many paths, else there is no
  sequence of changes.
- `MergeSymmetric`: a merge and its mirror report the same conflicts, and without conflict
  come to the same tree.

`Workspace_proofs`
- the invariant `Typed` (`AlwaysTyped`): the trees of branch, clone and base are in `Held`: trees
  of notes within the depth in which nothing stands where no command puts it. Without the
  second half `Flat`, which looks at the paths the commands name, could miss something.
- `LibraryIsFlat`: `Spec => ImplementsFlat`, the refinement: `FlatEdit`, `FlatBulk` and `FlatMerge`
  take each command to the action of `FlatNotes` it implements. `LibraryTypes` is `TypeOK`.
- `SearchIsExact`: `Spec => []SearchExact`. The invariant `Indexed` says that the index is the full
  index of the head's tree, as long as no note has stood at two paths (`Distinct`). A commit
  keeps it (`IndexStep`): after the first k deltas, the postings are those of the tree that
  has the new note at the paths of these deltas and the old one elsewhere (`PostedFor`), in
  any order in which the removals come last; the document table follows from which notes
  the deltas touch.
- `MergeIsExact` (`ConflictsAreExact`) and `MergesAreSymmetric` (`MergeIsSymmetric`), from `MergeAt`
  and `MergeSymmetric` for the trees in `Held`.
- `BulkLanding` (`BulkLandsApart`) and `ImportKeepsTimes` (`ImportRestores`), from `ImportIs`: the last
  item of a path is what stands there, since none of the items goes through it. `MdOf` is any
  map from texts to texts there; that a round trip changes nothing is not claimed.

`StageFlow_proofs`, for any finite set of clients
- `StageTypes` (`TypeOK`), from the invariant `Typed`, which also types what a client in the
  middle of a command holds (`ClientsOK`).
- `StageKeepsEdits`: `Spec => []StageIsWanted`. It is inductive together with `Typed` and `Alone`:
  while staging commands have not overlapped at most one is under way, and what it has read
  of the stage is still so.
- `StageLosesNothing`: `Spec => NothingStagedIsLost`. The invariant `Delivered` says of a client
  that is about to publish that its draft has every wanted edit that differs from the base, and of
  one that is about to drop the stage at the end of a commit that the branch has had them. The
  draft has them by `ReplayStaged`, since by `Alone` it was made with the changes of the stage
  (`StepDelivered`); a stage without changes wants nothing that differs (`NoChanges`).
- `CommitPublishesEdits` (`CommitIsWanted`) and `CommitRepeats` (`CommitTwiceIsOnce`), from these and
  `ReplayStaged`.

These proofs use no induction theorem, since those take an operator as a parameter. Where a
fact about all snapshots, paths or steps of a recursion needs induction, the proof takes the
least one for which it fails (`WFMin`, `LeastNumber`, `DeepestOf`) and looks at what it is made
from: the parents of a snapshot, which are older, or the directories below.

`Upgrade_proofs`

Of `SelfUpdate`, with any number of updaters that may overlap:

- `InstalledIsWhole`: `UpdSpec => []UpdTypeOK`: what stands at kb or kb.old is a release or
  the development build, never a torn download.
- `ABinarySurvives`: `UpdSpec => []BinarySurvives`. The invariant says for each step of swap
  which of the two files is there while no other update is under way, and, with overlapping
  updates in which nothing fails, that a missing kb means some update is between its renames
  and has the new one in hand.
- `AnUpdateIsNeverOlder`: `UpdSpec => NeverOlder`. It needs that the binary an update has
  unpacked is newer than the build it was started from, and that this build is still the one
  found: lemmas about `CmpSeg` and `CompareVersions` give the comparison.

Of `Serve`, with any number of requests:

- `AnswersTellTheTruth`, `ReadsAreNeverStale`, `AStopLosesNothing`. The invariant: until a
  write handler has decided its request is not in the history, from then on the decision says
  whether it is (`Truthful`); a read under way was sent at a head that is still in the
  history (`Fresh`); a store closed within its grace has no handler left (`Drained`).

Of both together:

- `UpgradeKeepsBoth`: what is proved of `Serve` and of `SelfUpdate` holds of their composition,
  since each of its steps is a step or a stutter of either (`UpgradeIsServe`,
  `UpgradeIsUpdate`).
- `WhatRunsIsABuild` (`TypeOK`) and `RestartsServeNoOlder` (`ServesNoOlder`), from the invariant
  `Behind`: unless updates overlapped, what is installed is the build that runs or newer.
  That needs `NewerIsTransitive`: the comparison of versions is transitive over the
  releases, with pre-releases and missing segments.

Assumptions on constants are the ones the modules state and those named above. The modules
state: the markers for "nothing there", "not asked" or "torn" are not values; bounds are natural
numbers; the kinds of command a run asks for are kinds there are; a release is a sequence of
segments; the clients of `MergeFlow` are finitely many (the
bound on snapshots counts the ones that have a snapshot still to write), and so are those of
`StageFlow` and the paths that commands name; `Home` is among the libraries. In the modules
with trees a path that commands name has at least one name and at most `Depth`, notes are neither trees nor
markers, and a batch is a sequence of pairs of path and text. Names, values,
writers, libraries, requests and releases may be any sets. TLC evaluates these
assumptions in every run.

Only model-checked: the liveness of `Upgrade` (`StopEnds`, `ServiceReturns`), since it depends on
fairness and on which steps are enabled, which the prover does not treat.

## What is left out, and the plan

Abstractions:

- one object stands for a note and its blob; where trees are flat, one for the root tree and
  its directories; an index for root and shards. Time and message are not part of a
  snapshot in the step-by-step modules (two commits are two snapshots);
- the mark of the collector is one step, since it only reads and, with `GcAlone`, nothing
  moves meanwhile;
- one branch of one project in `MergeFlow` and `StageFlow`. The meta key of a merge joins
  project and branch with a dot, so that project a.b with branch c and project a with branch
  b.c share one (mergestate.go:52);
- a transfer is one step in `MergeFlow`, since objects of a transfer that died are not
  reachable and a later transfer walks through objects it already has; object by object it
  is in `Library`;
- in `Library` the content a merge results in is any content: the kernel is in `Workspace`;
- a database call happens or fails. A connection to PostgreSQL that drops between a commit
  and its acknowledgement would make an answer of 500 to a write that was done;
- restore puts every row as the file has it. The code decodes rows into one reused record,
  so that an empty description becomes that of the row before it; descriptions are not
  modelled;
- overlapping writes of one batch: bulk import has the same calls as note set in the same
  order and is not a kind of its own in `BranchWriters`.

Not modelled:

- scores, ranking, tokenizing and hybrid search: floating point arithmetic over texts;
- the embedding services and their protocols: calls of external services, of which a
  failure ends the rebuild;
- diff, links, listings, snippets, doctor and the output of commands: read only;
- the byte formats of objects and front matter (of which `MdOf` keeps that a text may read back
  as another), compression, migrations between schema
  versions, and the differences between the two database back ends.

Next, most important first: `MergeBase` with two libraries that merge each other and reach
several nearest ancestors; merge commands of two operators at once; two identical notes at
two paths in the index.

Theorems to add: the inductive part of the argument for `StopEnds` (that each step of a stop
leaves fewer handlers); with several merge bases, which of them `MergeBase` may choose.
