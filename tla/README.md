# A TLA+ verification of mrimgx-consolidate

`mrimgx-consolidate` merges a range of a Macrium Reflect X backup set into one file.
It runs unattended on the only copy of somebody's backups, often on a network share,
and may delete the files it merged. This directory holds TLA+ models of the program,
the TLC runs that check them and the TLAPS proofs about them. Source references are
to the repository root, so `src/plan.rs:180` is the plan's closure.

## 1. Inventory

The program is one process that runs one command and exits. There are no threads and no
daemons: everything concurrent comes from two processes working in one directory, from
the network file system below them, and from being killed.

| Part | State it keeps | Operations | What makes it correct |
| --- | --- | --- | --- |
| `set` (`src/set.rs`) | the members of a set, newest first, and the map from file number to member | `discover`, `check_complete`, `flatten`, `shape` | a number has one owner; every number a restore reads has one; replay gives the image that was backed up |
| `plan` (`src/plan.rs`) | nothing; a value computed from a set | `check_pair`, `check_rules`, `absorbed_file_numbers`, `classify`, `changed_positions`, `build` | no kept reference names an absorbed file; the output and the survivors restore to what the set restored to |
| `write` (`src/write.rs`) | the output offset, the map of blocks already copied, the index being built | `write_data_region`, `copy_actions`, `write_metadata_region`, `patch_document`, `check_output` | each entry of the new index finds the bytes its source entry found; nothing overlaps |
| `commit` (`src/commit.rs`) | the lock file, the temporary file, the destination | `Lock::take/clear/drop`, `TempOutput::create/reserve/commit/drop`, `rename_into_place`, `clear_leftovers` | one merge per directory; nothing partly written is visible under the destination name |
| `cli` (`src/cli.rs`) | the order of the whole run | `consolidate`, `write_merge`, `redundant_paths`, `--recover`, `--delete-merged` | nothing is deleted before the read-back; a kill at any point loses nothing |
| `scan` (`src/scan.rs`) | the newest file seen of each set; the stack of folders to visit | `scan`, `report`, `scan_tree`, `members_above` | each folder visited once, the walk ends, the reported numbers are what a merge does |
| `reader`, `block` (`src/reader.rs`, `src/block.rs`) | nothing | `walk_list`, `read_footer`, `parse`, `check_framing` | a file the writer wrote is walked to exactly its footer |
| `index` (`src/index.rs`) | nothing | `PartitionIndex::parse`, `to_bytes` | the two forms round-trip, the wrong stride is noticed |
| `json` (`src/json.rs`) | nothing | `Header::from_value`, `owned_file_numbers`, `check_round_trip` | the fields the rules read |
| `crypto`, `verify` (`src/crypto.rs`, `src/verify.rs`) | nothing | per-block decrypt and hash of the output | optional test of bytes |

How they interact. `cli` reads the header of the From file, has `set` discover and
resolve the members beside the To file, has `plan` compute what to copy, looks at the
destination, takes the lock, opens every absorbed file, has `write` fill a temporary file
through `commit`, renames it, reads it back and deletes. All calls are synchronous. The
only shared state is the directory: the files of the set, one lock file `merge_running`
per destination folder, and temporary outputs with random names. A second process, the
person who runs `--recover`, and Reflect itself all change that directory.

What is hard here:

- **Two processes.** The set is read and the destination looked at before the lock is
  taken (`src/cli.rs:163`, `:369`); the answers are used hours later. The lock belongs to
  the destination's folder, the files that are deleted to the set's.
- **Kills.** A run may stop between any two of its file operations: with a lock and a
  temporary file left behind, with an output in place and some sources deleted.
- **Network mounts.** A server may report an error for a rename it performed, and may
  keep other bytes than it was sent. The program retries, believes the paths, and
  reads back.
- **A merge of a merge.** A merged file answers for numbers whose files are gone, and its
  entries are those of several generations.
- **Differentials.** A Differential names blocks of the Full and is not part of the delta
  chain, so a merge can break one that it never looks at.
- **Power loss.** What the program sees in the folder is not what the disk holds: a rename
  and the deletions after it may reach the disk in any order, or not at all.
- **Boundaries.** Holes, blocks that several positions share, data that ends on an
  alignment boundary, space reserved from a projection.
- **Files that say anything.** Lists without an end, offsets past the file, an index read
  at the wrong stride: a file is not trusted until it is accounted for to its last byte.
- **A tree that changes.** A recursive scan lists each folder twice, over minutes, while
  others move and delete folders.
- **The mount table.** Whether a commit is careful hangs on finding the right line of it.

The list with each line is `hazards` in `PROJECT.json`, with the properties that would
notice each one going wrong.

## 2. Modules

| Module | Models | Built on |
| --- | --- | --- |
| `MergeRun` | `cli` and `commit`: runs of the program over shared folders | |
| `BackupSet` | `set`: owners, base, missing numbers, flattening (operators) | |
| `MergePlan` | `plan`, and the file `write` produces (operators) | `BackupSet` |
| `Consolidate` | the life of one set: Reflect's backups, merges, partial deletions | `MergePlan` |
| `RestorePoints` | what a set promises its owner, with no files in it (abstract) | |
| `OwnerView` | the set as its owner sees it, shown to implement `RestorePoints` | `Consolidate` |
| `ScanReport` | `scan`: the savings a report promises for a set | `Consolidate` |
| `CopyRegion` | `write`: the data region and the index entries, byte by byte | |
| `Commit` | `commit` and `cli`: space, flushes, power loss | |
| `Framing` | `reader`, `block`, `write`: the lists of the metadata, read and written | |
| `IndexBytes` | `index`: the payload of an index block | |
| `Verify` | `verify`, `crypto`: the test of an output's blocks | |
| `ScanTree` | `scan`: the walk over folders | |
| `MountTable` | `commit`: local disk or network mount | |
| `Documents` | `write`: the file history, the paths and the disk size of a document | |
| `BackupFile` | what a file is read for: one of `Framing`, `IndexBytes`, `Verify` | those three |
| `SetFolder` | what is found around the files: one of `ScanTree`, `MountTable`, `Documents` | those three |
| `MCMergeRun`, `MCSet`, `MCCopyRegion`, `MCFile`, `MCFolder` | instances for TLC | the module |
| `MergeRunProofs`, `CopyRegionProofs`, `CommitProofs` | theorems about those modules | the module |
| `FileProofs`, `FolderProofs` | theorems about `BackupFile` and about `SetFolder` | the module |
| `DataLemmas` | lemmas: least and greatest members, induction over data, recursive functions, folds, sums, sequences | |
| `ConsolidateProofs` | what the operators of `BackupSet` and `MergePlan` compute, and theorems about `Consolidate` and `ScanReport` | `ScanReport` |
| `OwnerViewProofs` | the proof that `OwnerView` implements `RestorePoints` | `ConsolidateProofs` |

The same program is cut in several ways, each with the data the others leave out.
`MergeRun` has processes, kills and mounts, and of a file only the numbers it carries,
claims and truly holds. `Consolidate` has real block indexes and real stored blocks, and
of a run only its deletions. `CopyRegion` has bytes and offsets, and one plan. `Commit` has
one run and the disk below it. The other modules each take one reading or writing of a
file, a folder or a table.

`BackupFile` and `SetFolder` each hold three modules that share no state. A behaviour is a
behaviour of one of the three, chosen at the start; the variables of the other two keep
values at which those have ended. So one run checks what three would, with the properties
of the instanced modules under their own names, and the theorems about it are theorems
about each of the three.

No module uses a RECURSIVE operator; iteration is a fold or a recursive function. A
definition marked "(Mutant: ...)" stands beside the one it spoils. It is not part of the
specification, and `PROJECT.json` says which property notices when it takes the other's
place.

### MergeRun

State, and what it is in the program:

| Variable | In the code |
| --- | --- |
| `pc` | how far `consolidate` and `write_merge` have got |
| `plan` | the `MergePlan` and the member paths; `victims` is `redundant_paths` |
| `held` | the handles of `SourceFiles` |
| `temp` | the `TempOutput`: absent, being written, whole |
| `tries` | the attempt counter of `rename_into_place` |
| `todo` | the rest of the deletion loop |
| `dir` | the directory, with `holds` for what a restore would truly find |
| `lock` | `merge_running`, one per folder |
| `clearing` | a `--recover` between its two halves |
| `clock`, `born` | history: the order in which outputs came into place |

Actions follow the order of the code: `Plan` (`--to` discovered, range checked),
`CheckDestination` (`out.exists()`), `TakeLock` (size and space, then `create_new`),
`WriteLock` (the body and its sync), `OpenSources`, `CreateTemp` (with permissions and
reservation), `WriteOutput`, `Flush` (`sync_all`, close), `Rename` (one call), `JudgeRename`
(`rename_already_happened`, retry or give up), `ReadBack` (`check_output` and
`verify_file`), `Delete` (one `remove_file`), `DropTemp` and `DropLock` (the two `Drop`s, in
the order the locals go out of scope). Every operation that may fail has the failing outcome
as a disjunct. That of the two `Drop`s and of `clear_leftovers` is not heard of: a run that
reports an error may leave its temporary file and its lock behind (`src/commit.rs:547`,
`:88`; the test at `src/commit.rs:836-839` finds the file still there), as a kill does, and
`--recover` is the way out of both. `Kill` may come between any two steps; `Again` repeats
the command; `ClearLock` and `ClearTemps` are the two halves of `clear_leftovers`.

Handles keep the content of a file that another run deletes, so `held` is taken once, at
`OpenSources`. A temporary file that `--recover` removed while it was being written stays
open under no name, and its rename can only fail. A folder in `Remote` may store an output
damaged in its framing (which `check_output` sees) or in its payload (which only
`--verify-md5` sees), as `Damage` says.

`--recover` is run by a person who was told to do so "if no merge is running", so
`ClearLock` waits until no run is under way in the folder. A run may begin between the
two halves, and `ClearTemps` then takes its temporary file.

In this module the set has a Full and Incrementals, so a restore needs every number up to
its newest; Differentials are the business of `Consolidate`.

### BackupSet, MergePlan, Consolidate

A file is a record of the header fields the rules read, a reserved-sectors list, a map
from block positions to entries, and a sequence of stored blocks. `BackupSet` is
`src/set.rs`: `Discoverable` is what `discover` and `check_complete` accept, `Flatten` is
the replay of the delta lists in member order, over the array that grows with holes.
`MergePlan` is `src/plan.rs`: the rules, the closure of absorbed numbers, the positions a
delta output lists; `Output` is the header and the entries that `src/write.rs` records.

`Consolidate` lets Reflect (external, as the code reads its files) add Incrementals,
Differentials and split Incrementals and remove what retention removes, while the program
merges any pair of files its own rules accept. `Delete`, `Stop` and `Tidy` are the
deletions one at a time, their interruption, and the person who follows the error message
of `discover`. The history variable `image` remembers the disk at each backup, so that
`Restore`, which replays a set through the program's own rules, can be compared with it.
Each block Reflect stores is different from every other, so a wrong block is always seen.
The history variable `flaws` remembers the two merges after which something is known to
go wrong (section 4).

### RestorePoints, OwnerView

`RestorePoints` is a map from moments to what the disk held then. A backup adds a later
moment, a merge gives up those of its range but the last, retention gives up one, and none
of them changes what another moment restores to. `OwnerView` adds one variable to
`Consolidate`: `view`, what each file of the directory restores to once the files that
another one absorbed are put aside. The refinement maps `points` to it. A merge with its
deletions, the kill that cuts them short and the person who tidies up are then one step
and its stutterings: a kill never leaves half a merge to be seen.

### ScanReport

`Candidate` is the row `report` prints for a range that ends at the newest file, from the
plan's own numbers (`BytesToCopy`, `ProjectedSize`). `Released` is what the directory truly
loses when the merge `MergePlan` makes is done. `NoneMerged` says of a range that none of its
files is the output of a merge.

### Commit

One run from its check of space to its last deletion. `folder` is what a process sees,
`disk` what power loss would leave, `pending` the operations in between. `PowerLoss` keeps
any subset of those, and of an output whose bytes were not flushed it may keep a torn one.
`Reserve` makes the file longer than what is written to it, so `Measure` (the check of the
length, and the cut, either of which may fail) meets files whose last bytes never arrived.
`Sync` is strong, weak (`flush_downgraded`) or fails; `FlushFolder` may do nothing without
the run hearing of it. `Again` is the command started once more after a failure or a power
loss.

### Framing

A file may hold anything: a header is chosen when it is first read. `ReadFooter`,
`ReadHeader` (one step of `walk_list`), `ReadDocument` and `EndList` are
`BackupFile::parse`, with its checks in its order. From a To file that is accepted,
`WriteOutput` lays out the output (`write_metadata_region`, the root list, the footer), and
the same actions read that back. Lengths are units, of which a header takes one; only the
order and the sums matter to the properties. The text of a packed document may have any
length, since it is not the stored one that the estimate and the writer take.

### IndexBytes, Verify

`IndexBytes` serializes an index, changes at most one word of the payload, or cuts or
extends it, and parses it with either `delta_index`; lengths are in words, and a count that
no `i32` holds is written as the largest that one does. `Verify` merges
two files, lets the disk damage a stored block, and walks the output as `verify_file`
does: `walked` counts the entries behind it, in the order of the reserved sectors and then
of the blocks. A stored block carries the plaintext and the vector it was encrypted with;
decrypting it with another vector leaves noise. An entry names its stored block by the
array and the position it was copied for, since the offsets are `CopyRegion`'s.

### ScanTree, MountTable, Documents

`ScanTree` has the stack of `scan_tree` and a tree that `Change` moves folders about in
between any two listings. A link is followed by the system and not by the walk. `Push`, the
second listing, may fail as a whole or leave out single entries, and tells of neither;
`unseen` remembers what it left out. `MountTable` is the table after any sequence of mounts
and `file_system_of` on it: of the fitting lines the first of the longest, since a later
line has to be longer to replace what was found. A table that cannot be read, or a path that
cannot be resolved, gives the unknown kind, which is careful. `Documents` lets Reflect write
documents and merges patch them (`patch_partitions`, `patch_auxiliary_data`,
`patch_disk_sizes`). A history is kept in the order of its numbers and is the set of its
entries in the model. A document may be without paths, and a merge then adds none. Every
document has a history and every entry a number, as Reflect writes them; what a merge does
without (`src/write.rs:457-469`) is left out.

### CopyRegion

The loop of `copy_actions` over all arrays of a plan. `at` is the running offset, `seen` the
map of copied blocks, `entries` the index, `out` the bytes. `CopyFirst` is the read
(`read_block`, with its bounds), the append and the entry; `CopyAgain` the entry of a block
met before (`Remembered` is the map with one more); `TakeKeep` and `TakeHole` the others;
`Fail` any error; `Pad` the zeros up to the metadata region.

## 3. Runs

The longest, `set`, takes two minutes.

| Run | Instance | Shows |
| --- | --- | --- |
| `home` | 3 runs, 4 source files, one network folder, both damages, 2 attempts | mutual exclusion, nothing lost, nothing overwritten, and each run ends, also where removals fail |
| `chain` | a merge, a merge of its output, and a merge of the whole set to another folder that damages framing | nothing is lost though the lock of the one folder does not stop the run in the other, and no two that succeed absorb the same file |
| `set` | 2 block positions (one beyond the Full) and file numbers up to 3, or up to 4 (`MaxNumber`) while no file has a block beyond the Full (`MaxGrown`), two settings; Incrementals, Differentials, split files, retention | what can be restored is right, what is there can be resolved, the replay is last-writer-wins, a scan promises no more than a merge of unmerged files saves, and the set implements `RestorePoints` |
| `copy` | every plan of up to 3 actions over 6 blocks of 2 files | entries find their bytes and stay apart, nothing is written in vain, and the region fits the projection |
| `commit` | 3 sources, a projection of 3 with a margin of 1, outputs of 2 to 4 | power loss at any moment leaves every source or a whole output, and no torn output under its name; the length is exact and space lasts |
| `file` | files of up to 6 units with lists of 2 blocks; indexes of 2 entries in each array; merges of 2 files over 2 positions | a walk is bounded, an accepted file is tiled, what is written is read, the estimate covers; an index round-trips and nothing is left unread; `--verify-md5` passes what is intact and only that |
| `folder` | 4 folders and a link, 2 changes, 1 fault; 3 mounts; 5 backups under 6 names | each folder is visited once, misses are reported, the walk ends; the right mount is found; names lead to files |
| `overwrite`, `lockleak`, `set_later`, `gap`, `saving` | see Findings | the code does other than a comment says |

Why the bounds are enough. In `home` two ranges overlap in one file and a third run names
a file that is there: the pairs of runs that can meet at one file or one name. `chain` is
the smallest case where an output is itself absorbed, beside a run under another lock.
Two attempts reach "retried" and "gave up". In `Consolidate`, number 3 allows a merge, its
re-merge and a file above both; position 1 beyond the Full makes the array grow; the
longer chain stays on the place in the Full, since retention acts on files. Number 4 is where a
gap that retention left can be merged over. In `commit` three deletions are enough for
the disk to keep the first and the last without the second, and the outputs are below,
at and above their projection. A list limit of 2 in `file` is reached by lists of one, two
and more blocks, files are refused at every boundary within 6 units, and the shapes have
a disk without partitions, one with two, and two disks. Two words a count and two entries
an array put the second count where a wrong stride reads it. In `folder`, a folder may be
moved below one that was visited, above it, or away; three mounts nest, cover and repeat.
The plans of `copy`
hold a block twice, two blocks that share a start but not a length, two that overlap, one
that adjoins, one beyond the end of its file and one of a file that is not open, with an
alignment of 4 that data ends before, on and after.

Deadlock is not checked: a run of the program ends, a plan is finished, and Reflect stops
at `MaxNumber`, so every model has states with nothing left to do.

Fairness. `RunEnds` is checked under `FairSpec`, weak fairness of `Step(r)` for each run:
a process that has not been killed is scheduled, and each of its file operations returns.
Nothing is assumed of `Kill`, `Again` or `--recover`, and nothing of which outcome an
operation has. That fairness would be wrong for a mount that hangs for ever, which the
program has no timeout against. `WalkEnds` assumes that the scan keeps running, and that
others change the tree only finitely often (`MaxChanges`): a tree to which somebody adds
folders faster than they are listed can keep a scan going.

## 4. Findings

| Run | What |
| --- | --- |
| `overwrite` | The destination is looked at before the lock is taken and not again. Two runs with one `--out` and different ranges both pass; the second waits for nothing, and its rename replaces the output of the first. The comment at `src/cli.rs:370` says this never happens. |
| `lockleak` | An error while the body of the lock file is written leaves the lock, since the value whose `Drop` removes it does not exist yet (`src/commit.rs:62`). |
| `set_later` | A merge whose range starts at the Full writes the blocks of the Full it keeps at new offsets, into an output that answers for number 0 (`src/write.rs:212-226`). A Differential above the range keeps entries that name file 0 at the old offsets, finds other bytes there, and the file that had the right ones is deleted. `src/cli.rs:387-388` says of a newer file that Reflect "resolves either way". |
| `gap` | A merge from the Full to a file above a gap, which retention left below a Differential, makes an output that is the new base with the number of the Full, so `check_complete` asks for the numbers of the gap (`src/set.rs:164`) and accepts no file above the range any more. `src/set.rs:138` says a gap below the base is normal, and `CHANGELOG.md:33-34` that the check asks for the files a restore reads. |
| `saving` | The report adds the size of a merged file once for every number it answers for (`src/scan.rs:258`, and so does the plan that `src/cli.rs:580` prints), and promises more than the merge releases. `src/scan.rs:23` says it is the bytes that the merge would release. |

These and the following limit what else can hold; each is a condition that a property
states.

- `NeverOverwrites` and `NothingLost` are stated for runs whose outputs are their own, and
  the theorem about `SuccessesApart` assumes that they are.
- `RestoreCorrect` holds until a merge has absorbed a file that a full index above it
  names (`"stranded"` in `flaws`).
- `NothingMissing` holds until a merge from the Full goes over a gap (`"gap"` in `flaws`; run
  `gap` is why).
- `SavingBounded` is about ranges that hold no merged file (run `saving` is why).
- `SurvivesPowerLoss` is about disks on which flushes do what they say: a flush that was
  downgraded (`weak`) or did nothing (`unheard`) gives no such promise, and the code
  gives none. `NeverTorn` does not need the flush of the folder.
- A short write behind a reservation passes the check of the length and is renamed into
  place (`src/commit.rs:424`, where the comment at 434 says that nothing is); the read-back
  then meets it before anything is deleted, which is why `SurvivesPowerLoss` holds. The
  read-back itself runs after the rename, and not before it as `src/write.rs:640` says.
- `MissedIsReported` leaves out what is at or below a folder that a second listing left out
  (`unseen`). An error of that listing, or of one of its entries, loses what is below without
  a word (`src/scan.rs:147`, `:151-153`), where `src/scan.rs:117-118` says that a folder which
  cannot be listed is reported as skipped.
- `NestedMountsFound` is about mounts that nest: of two on one point, or a longer one
  that a later mount hides, the program finds the older (`src/commit.rs:260`). It is also about
  points without a space: the table writes a space as `\040`, so such a point matches no
  directory (`src/commit.rs:249`), the mount below is found, and a share may be handled as a
  local disk, where `src/commit.rs:239-240` says that the longest mount point wins.
- `NamesLead` is about merges that end at the newest file: one that ends below it leaves the
  names of deleted files in the documents above, and a later merge that ends at one of those
  copies them into its output (`src/write.rs:462`), where `src/write.rs:432` says that the
  history names the files that still exist.
- `NoFalseAlarm` asks an encrypted set to number its disks and partitions alike in all
  files of the range. No rule of a merge compares those numbers (`shape` counts disks and
  partitions), and the vector of a block depends on them (`src/write.rs:8-10`). It also
  leaves out an output with no block of its own, which `--verify-md5` always refuses, and
  a missing password, which is noticed once the output is in place.
- `WrittenIsRead` takes it from the To file that `$AUXDATA` ends its root list, as
  `src/write.rs:621` says it does.
- `EstimateCovers` allows for a document that outgrows `$JSON` of the To file by more than
  the allowance, as the list of a hundred merged numbers may: the margin of the space
  check (`SPACE_MARGIN`) is there for that, and `SpaceLasts` is about that margin.

## 5. Theorems

Proved by TLAPS for every value of the constants.

**MergeRun.** `TypeCorrect`; `Exclusive` (mutual exclusion by the lock file);
`SuccessesAreApart` (no two runs that succeeded and deleted absorbed the same file);
`Preserves` (no file is written over); `Safe` (nothing is lost). They assume the named
ASSUMEs of the module: paths and numbers are well formed, and no two source files have one
number. `Preserves`, `SuccessesAreApart` and `Safe` also assume `OwnOutputs` (finding
`overwrite` is why), and `Safe` assumes `DamageSeen`: where payload may be damaged, a run
that deletes also has `--verify-md5`.

`NothingLost` is not inductive: that every number is held somewhere does not say that the
file a run is about to delete is held elsewhere. The invariant `Inv` of `MergeRunProofs`
adds, from the bottom up: a file holds blocks only under numbers it claims (`Honest`);
a file a run plans to absorb is as the run saw it or gone, and older than the run's output
(`PlansTrue`); open handles reach what those files hold (`HandlesTrue`); an output in
place is unreadable, damaged in its payload, or holds all that was absorbed
(`OutputsTrue`); and whatever a run in its deletion loop has still to delete is held by a
file that came later (`Covered`). The last is where a circle threatens, since the output
of one run is deleted by another, whose output may cover it only while a third spares it.
`born` numbers outputs in the order they came into place and is the way out: every cover
is younger than what it covers, so a deletion leaves the youngest holder of a number
alone, and what the deleted file covered is covered by its own, still younger, cover.

`SuccessesAreApart` is about two runs that both planned to delete one file, whichever locks
they hold. A file is removed once, since where an output of a run's own is gone no other
takes its place, and a run that succeeds has removed all it absorbed itself. So its invariant
`Parted` says that what a run has removed is gone and was removed by no other.

**CopyRegion.** `TypeCorrect`, `CopiesAreFaithful`, `EntriesStayApart`,
`NothingWrittenInVain` (`OneCopyEach`), for any plans, files and alignment. The invariant
says of the map of copied blocks: each lies below the offset with the bytes of its source
(`SeenTrue`), no two overlap (`SeenApart`), the entry of every copy is the one of its block
(`Placed`), each block has an entry (`SeenUsed`), and they leave no byte between them
(`NoGap`). `NeverMoreThanProjected` (`WithinProjection`) adds that the offset is at most
what the plan counted for the actions taken (`Counted`): a block that several positions
share is counted for each.

**Commit.** `CommitTypes`; `PowerLossLosesNothing` (`SurvivesPowerLoss`: where flushes do
what they say, power loss at any moment leaves every source on the disk or a whole output);
`OutputNeverTorn`; `OutputHasItsLength`; `SpaceIsEnough`. They assume that the
sizes are naturals and that the output is no longer than its projection and the margin,
which is what `EstimateCovers` is about. `SurvivesPowerLoss` speaks of the disk, and a step
of the run changes the folder; so the invariant `Inv` of `CommitProofs` says how the two
differ at each step. Until the rename the folder, the disk and the operations pending
between them are as the run found them (`NothingYet`), what is renamed was flushed one way
or the other (`RenamedIsFlushed`, `DiskIsWritten`), the folder is flushed before the first
deletion (`FlushedBeforeDeleting`), and a deletion is pending only when the output was read
back whole (`DeletedIfWhole`). `LengthKept` carries the length of the temporary file, and
the room it leaves, from one step to the next.

**ScanTree.** `NoFolderTwice` (`VisitedOnce`) and `NothingIsMissedSilently`
(`MissedIsReported`), for any finite tree with links, moved about while it is walked.
`Above`, the folders on the way up from one, is a recursive function over a tree that
changes; `AboveIsClimb` turns it into a chain of parents, about which the proofs argue. The
invariant `Inv` of `FolderProofs` says that each path the walk knows was a way through
the tree when it was found, and that what was not moved since is where it was
(`TrailsKnown`); and that of a way which was there all along the end is told of, or a step
of it is still to come (`Followed`). The second is the reason for the report: a walk that
ends has nothing to come, so the end of each such way was visited or a step of it skipped.

**Documents.** `DocumentsNameTheirFile` (`OwnEntry`) and `NamesLeadToTheFiles` (`NamesLead`),
for any names and any backups and merges; the types of the scan and of the documents are
`FolderTypes`. `DocInv` of `FolderProofs` says that the numbers of a file are an interval
that begins with its own (`FileOK`), that those of two files share nothing (`Apart`) and
that together they cover every number there is (`Covering`): so what a merge absorbs is an
interval again, and the output takes its place. Neither property is inductive without
that. `FileOK` also says of a history that it has one entry a number, one of them the
file's own under its own name, which a merge relies on when it removes and adds entries by
number; and as long as every merge ended at the newest file, `NamesFiles` says that a
history names the files up to its own and no other.

**MountTable.** `TheLongestPointIsTheMount` (`NestedMountsFound`), for any number and depth of
mounts. Where mounts nest, of two points that lead to one directory the later has the longer
point; so the first of the longest is the last that was mounted.

**Framing.** `WalksAreBounded`, `FramedIsTiled`, `OutputsAreRead` (`WrittenIsRead`),
`ProjectionCovers` (`EstimateCovers`), for files of any size with any lists. A file that is
read may hold anything, and `Tiled` speaks of an end: that nothing lies between the lists
says nothing of the lists before the last was read. So `FInv` of `FileProofs` follows the
reader. Every list walked so far is without a gap and ends at its first last block (`Sound`,
`Ended`); the lists known are those before the one being walked, in the order of `Before`,
and each begins where the one before it ended (`Walking`, `Joined`); and an accepted file
has them all, to the root list (`Accepted`). For an output, `OutInv` says that there are
lists which the writer laid out, one after another from the end of the data to the root
list and from there to the footer (`Laid`), that no two of them overlap (`Apart`), that the
headers in the file are theirs and no others (`Held`), that they are the lists of the To
file but for the new indexes and document (`Copies`), and that the reader has got some way
along them (`Along`): so it can refuse nothing. The projection is a comparison of sums over
the same lists, one of what they take up and one of what `estimate_metadata` adds.

**IndexBytes.** `IndexesRoundTrip`, `WrongStridesAreRefused`, `NoWordIsUnread`
(`NothingUnread`), for any range of a word and any lengths of elements and arrays. Lemma
`Flattened` gives the length of the joined elements and the place of each of their words
(`CellOf`, `CellIn`), so both counts and every word of a payload have a place that the
counts and the stride give. With the wrong stride the second array ends elsewhere than the
payload, unless it is empty.

**Verify.** `PassedIsIntact` (`PassMeansIntact`) and `NoFalseAlarms`, for any disk, reserved
sectors, captures and numbering; `FileTypes` has the types of the three parts. The invariant
`VerifyInv` says that the output is that of the merge but for stored blocks that became
noise (`OutIs`); that every entry walked over which is the output's own gave the bytes its
hash is of (`Tested`), and that the report is the number of those; and what a failure was
due to. `InOrderIs` shows that the list of changed positions has each of them, in order, so
a walk to the end has tested every position; `OwnIs` that each own entry names a block of
the payload whose vector is the one the walk gives it, where disks and partitions are
numbered alike. They assume what `PartsAssumption` says: positions count from zero, an
element is at least a word and a delta element is longer.

**Consolidate.** `TypesHold`, `FlattenHolds` (`FlattenIsLastWriter`), `NothingMissingHolds`,
`RestoreHolds` (`RestoreCorrect`), for any number of positions, any settings and kinds of
backup, and any sequence of backups, merges, deletions, kills and tidying up. The one
assumption is `SizeAssumption`: the Full has no more blocks than there are positions, and
there is a setting to write it with (and the kinds of backup are the module's). They rest on
the invariant `Inv` of `ConsolidateProofs`.

- *Numbers.* `Shape` says how the claims of files lie: the numbers of a file are its own
  and later ones (`FileOK`), increment numbers follow file numbers (`Order`), a file that
  begins within another lies within it (`Laminar`), nothing absorbs a continuation
  (`SplitAlone`), and only a merge from the Full absorbs a full index (`FullsOver`). It is
  about every pair of files in the directory and not about a set that resolves, since
  after a kill the output lies beside what it absorbed, and a later merge may have an end
  among those. `JobCovered` says that what a merge has still to delete is covered.
- *Missing numbers.* `Intervals` and `Accounted` are what keeps `NothingMissing`: no file
  skips a number but a Full merged over a gap, and a number that nobody has lies below a
  full index from which every later file can start. Retention takes numbers away, so
  "every number has an owner" is not invariant.
- *Blocks.* `RestoreCorrect` is not inductive: that the sets of today restore says nothing
  of the sets that a deletion or a merge makes of the same files tomorrow. `Values` says it
  of each file by itself, against the history: where it names a position it gives the disk
  of its moment, together with whatever file it may ever be read with (`Gives`), and where
  a delta names none the disk was as it was before the file. A merge keeps that of its
  output because the replay of its range is last-writer-wins, and of every other file
  because a file shares no number with the output, or lies within it. `EntriesOK` says in
  which file an entry's block is to be looked for, which is what `TypesHold` and the
  numbers a plan keeps depend on.

**ScanReport.** `SavingsHold` (`SavingBounded`) rests on the same invariant. `OutputFits`
shows that an output is no larger than `projected_size`, since the list of copies has at
most one block for each action that moves one (`CopyingLength`); `OwnersAddUp` that the
sizes a report adds up, one for each absorbed number, are those of the files of the range
and, once more for every number of a file but one, what `CountedAgain` says, which is
nothing where no file of the range is merged. It uses that the files of the range are the
owners of the absorbed numbers and share none (`RangeIs`).

**OwnerView.** `Implements`: `ViewSpec` implements `RestorePoints`, for the same constants.
The invariant `ViewInv` adds to that of `Consolidate` that of two files with one number
the one has absorbed the other (`Nested`), that no file lists its own number and no full
index was cut in two (`Neat`), and, until a merge has a flaw, that `view` is what the files
Tidy would leave (`Clean`) restore to. `SeenIs` shows that `view` is then the history
`image` on the moments of those files, so a step of the set need only be followed in its
moments (`Sees`): a backup adds one or none, a merge takes those of its range but the last,
retention takes one that is not the newest, and a deletion or a tidying up changes none,
since what it removes was not in `Clean`.

**Lemmas.** A replay is a fold over the members and the plan's list is one over positions,
so what they compute has to be shown by induction over data. The induction rules of the
library have an operator for a parameter, where `DataLemmas` has a set: a set of naturals
that is not empty has a least member (`LeastNatural`, from the library's theorem that no
descending chain of finite sets is infinite), so a set with 0 that is closed under + 1 is
all of them (`NatClosed`), and so for finite subsets (`SubsetsClosed`). `NatRecursion` and
`FoldExists` show that a recursive function and a fold are what their equations say, and
`SumOfOneMore`, `SumOfTwo`, `SumOfBlock` and `SumByParts` how sums over finite sets add up.
The first part of `ConsolidateProofs` uses them for `Flatten`, the last writer, the base and
the plan's list of positions.

Only model-checked: `RunEnds` and `WalkEnds`, being liveness, which needs ENABLED. The
properties of the five violated runs are false. Every other property of a run is a theorem.

## 6. Not modelled

- The characters of the document, wording, JSON output, colours, help: unit tests are the
  right tool for text, and no step depends on it. That a file may be unreadable is in
  `MergeRun` and `Framing`.
- What the ciphers, the decompression and the hashes compute: library code. `Verify` has
  which bytes they are given, and with which vector.
- `inspect`, `resolve`, `--dry-run` and `members_above`: they read and print.
- A mount that hangs, and the commands a person runs beside the ones named above.
- In `Consolidate` two positions stand for all blocks of all partitions, and every block
  has one length; `CopyRegion` has lengths.

## 7. Plan

Done, in this order: `MergeRun` with its theorems, since it decides whether data survives;
`BackupSet`, `MergePlan` and `Consolidate`; `CopyRegion` with its theorems; `RestorePoints`
and its refinement; `Commit`, `Framing`, `ScanTree`, `ScanReport`, `Documents`,
`MountTable`, `IndexBytes` and `Verify`.

The theorems of section 5 came in this order: `MergeRun`, `CopyRegion`, `Commit`, `ScanTree`,
`Consolidate`, `OwnerView`, `Framing`, `Documents`, `MountTable`, `IndexBytes`, `Verify`,
`ScanReport`.

What would say more about the program from here:

1. `Consolidate` with lengths: one model of the block index and the data region, in which an
   entry of `CopyRegion` is the entry that `MergePlan` writes. Today the two meet in prose.
2. Differentials in `MergeRun`, so that the deletions of a run can strand one.
3. Documents of sets with Differentials, and the merge that ends below the newest file.
