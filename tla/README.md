# A verification development for Inknest Notes

Inknest is a local-first notes app (Flutter, `src/lib`) with a synchronization
server (Python, FastAPI and PostgreSQL, `src/server`). The app always works on
the files of its device; the server keeps an authoritative copy of the library
of an account, and devices exchange changes through it. What is hard to get
right, and hard to test, is the synchronization, with the transfer and removal of
binary assets beside it: this directory specifies it in TLA+, model-checks it
with TLC on small instances, and proves with TLAPS, for instances of every size,
the safety properties that the runs check; two of them under a hypothesis that names
the step of the code that breaks them.

Contents

1. Inventory of the system
2. The modules, and how they correspond to the code
3. What each run checks, its bounds
4. Fairness
5. What is proved
6. What the checks show about the code: findings and known limits
7. What is not modelled
8. Plan

How to run it: `tlc -config MCSyncStore_pages.cfg MCSyncStore` (and so on for
every `.cfg`; the module is the part of the name before the underscore), and
`tlapm SyncStoreProofs.tla` (likewise `CommitEndpointProofs`, `ChangeFeedProofs`,
`DeviceSyncProofs`, `DeviceContentProofs`, `AssetLifecycleProofs`,
`AccountDeletionProofs`, `RestoreBoundaryProofs`). The longest, `DeviceSyncProofs`,
takes some ten minutes.

## 1. Inventory of the system

`server` below is `src/server/src/inknest_server`.

### Server

**Library store** (`server/models/library.py`, `repositories/content.py`,
`sync/merge.py`). *State*: rows of folders, notebooks, pages and infinite
canvases with `revision`, `content`, metadata, `deleted_at`, and for pages a
`position` that a unique partial index keeps distinct among the active pages of
a notebook; the immutable table `revisions`; the table `sync_changes`.
*Operations*: create (merge endpoint), `save_notebook` with a page order,
`save_page`, `save_infinite_canvas`. Each flushes a next revision, a history row
and a change event. *Hard*: many code paths append their own history and change
rows; renumbering of pages touches rows other than the one the request names.
*Correct if*: no version is ever lost from the history, the feed of a row is
gapless and ends at the row, positions never collide, and a revision names one
state of a row.

**Tombstones and restore** (`sync/tombstones.py`). *State*: tombstones with base
and deleted revision, the content and position to restore, and a state. *Operations*:
`delete` (stale base: refused but recorded), `preserve_edit_after_delete`,
`restore`. *Hard*: delete and edit in both orders, the last page of a notebook,
positions after any sequence of deletes and restores. *Correct if*: a row is
hidden exactly while one tombstone is active for it and that tombstone can bring
it back.

**Conflicts** (`sync/conflicts.py`). *State*: conflict records with the displaced
and the submitted side, a reserved copy identifier, a status. *Operations*:
`create`, `resolve` with `keep_original`, `use_conflict`, `keep_both`. *Hard*: a
resolution long after the conflict, when the original has changed again or is
deleted; two devices resolving. *Correct if*: both sides stay recoverable and a
resolution replaces only what its author saw.

**Commit endpoint** (`sync/service.py`, `repositories/sync.py`,
`api/v1/sync.py`). *State*: rows of `sync_commits`, one per account, device and
idempotency key, with the request's hash and the stored response. *Operations*:
reserve, apply, commit, roll back, replay. *Hard*: a retry overlapping its
original, a lost answer, an operation failing in the middle, a restart. *Correct
if*: a batch is performed at most once, its record appears with it, every answer
is true, and a device that keeps sending gets one.

**Change feed and bootstrap** (`repositories/sync.py`, `sync/service.py`,
`sync/bootstrap.py`, `sync/cursor.py`). *State*: `sync_changes.sequence`, numbers
taken at flush and visible at commit. *Operations*: `list_changes` (a page after
a cursor), `bootstrap` (cursor, then inventory). *Hard*: commits in any order.
*Correct if*: the revisions of a resource arrive in order and no cursor passes
over an event.

**Assets** (`assets/service.py`, `assets/cleanup.py`, `storage/minio.py`,
`maintenance/cleanup_assets.py`). *State*: upload sessions (one row per asset),
ready assets, cleanup candidates, and the objects in the object store under a
staging and a final key. *Operations*: create or reuse a session (a signed URL
lets the client PUT straight into the store), complete (look, copy, verify,
commit), cancel; the cleanup expires sessions, deletes staging residue, and
deletes unreferenced final objects after a quarantine. *Interaction*: completing
commits a change event of the feed; the cleanup command reads and writes the same
rows and objects. *Hard*: the database and the store have no common transaction;
only completion locks its row; a stop between copying and committing. *Correct if*:
the object of a ready asset holds the verified bytes and stays, a cancelled
session stays cancelled, and what nobody refers to is removed in the end.

**Accounts** (`auth/service.py`, `auth/tokens.py`, `auth/rate_limit.py`,
`maintenance/delete_accounts.py`). *State*: users, devices, refresh tokens, rate
counters, deletion requests with the object keys that remain. *Operations*: sign
in, refresh with rotation, revoke, delete an account in steps. *Interaction*:
deleting the user row removes every row of the library and of uploads by
cascade. *Hard*: concurrent refreshes, deletion with retries while requests and
URLs from before are still at work. *Correct if*: a deletion once accepted is
completed, and nothing of the account is left.

**HTTP layer, configuration, readiness** (`main.py`, `config.py`, `errors.py`,
`middleware`, `services/readiness.py`): no state that outlives a request.

### Device

**Local library files** (`src/lib/storage/file_notebook_repository.dart`).
*State*: the content files. *Operations*: save, create, delete, move, import.
*Interaction*: after a save it notifies the mutation tracker.

**Mutation tracker and sync state** (`src/lib/sync/sync_mutation_tracker.dart`,
`file_sync_state_store.dart`, `sync_resource_map_store.dart`). *State*:
`state.json` (pending operations, the frozen batch with its idempotency key, the
cursor) and `resources.json` (the revision each local resource is mapped to).
*Operations*: queue an operation (coalescing), freeze a batch, mark it
succeeded (rebasing what is pending), move the cursor. *Hard*: tracker and cycle
use store objects of their own on the same files. *Correct if*: an edit stays
queued until the server has it and names the revision it was built upon.

**Synchronization cycle** (`incremental_sync_push_service.dart`,
`incremental_sync_pull_service.dart`, `first_sign_in_sync_service.dart`,
`features/library/library_screen.dart:574`). *Operations*: push, upload of pages
the cloud does not have, pull. *Hard*: the app ends or the connection is lost
between any two writes; the user edits meanwhile; other devices commit
meanwhile. *Correct if*: no edit is lost or silently replaced, no change is
skipped, and devices converge.

**Apply of shared changes** (`shared_sync_apply_service.dart`,
`sync_page_structure_service.dart`). Applies listed changes to several files, with
a rollback if one fails. *Correct if*: all or nothing.

**First sign-in and reconciliation** (`automatic_first_sign_in_sync.dart`,
`sync_merge_plan.dart`, `bootstrap_restore_service.dart`,
`signed_out_sync_*.dart`, `sync_restore_snapshot.dart`). *State*: the library and
the sync files of the device, and a snapshot of both under
`sync/restore-recovery`. *Operations*: inside a boundary that copies both first,
send what only this device has, download what only the cloud has, move it into
the library, list it, map it, store the cursor; put the copies back if anything
fails. It runs again for every notebook created on a synchronized device.
*Hard*: any of these steps can fail, those of the rollback too; the app can end
between two of them, and nothing looks for the snapshot of an attempt that did
not end; the user goes on working. *Correct if*: what was there before is never
gone, no cursor is stored for content that is not there, and a later attempt can
complete.

**Client views of conflicts and tombstones** (`sync_conflicts.dart`,
`sync_tombstones.dart` and the deletion and resolution services): requests for
what the store does, and lists of notices.

**Editor, rendering, export** (`src/lib/features/editor`, `src/lib/export`):
single-threaded user interface; its saves are inputs of the above.

### How they interact

Editor → local file → tracker → `state.json` → push → commit endpoint →
library store → change feed → pull → apply → local file. Resolutions, restores
and deletes enter through the same endpoint or one of their own, and reach the
other devices through the feed. Bytes of images, recordings and PDFs go from the
device straight to the object store, between the creation and the completion of
an upload session. The first sign-in writes library, mappings and cursor itself,
before the cycle takes over. Two operator commands, the asset cleanup and the
retry of account deletions, work on rows and objects beside the API.

## 2. The modules, and how they correspond to the code

| Module | What it is | Interacts with |
|---|---|---|
| `SyncStore` | the server's library of one account, one operation per step | its operations are what a batch of `CommitEndpoint` applies and what `DeviceSync` sees as `ServerCommit` |
| `ExactlyOnce` | abstract specification of a commit under an idempotency key | implemented by `CommitEndpoint` |
| `CommitEndpoint` | the transactions of `/sync/commit` and `/sync/merge/commit` | refines `ExactlyOnce` |
| `ChangeFeed` | the feed under concurrent transactions, cursors, bootstrap | gives `DeviceSync` its listing and snapshot |
| `DeviceSync` | devices with editor, tracker, files and cycle, composed with the cloud | uses the exactly-once commit of `CommitEndpoint` as one step |
| `AssetLifecycle` | upload sessions, completion and cleanup against the object store | what the rows and objects of an account go through |
| `AccountDeletion` | the deletion of an account, composed with `AssetLifecycle` | extends it: its steps with a deletion beside them |
| `RestoreBoundary` | the first sign-in of a device within its restore boundary | leaves the mappings and the cursor that `DeviceSync` starts from |
| `MC...` | instances for TLC | |
| `...Proofs` | theorems | extend the module they are about |

Each module looks at one level of atomicity. `SyncStore` takes a request as one
step, which is justified by the row locks (`SELECT ... FOR UPDATE`, every row a
request writes, held to the end of its transaction) and checked as such in the
two modules that open the transactions up: `CommitEndpoint` for the key and
the record, `ChangeFeed` for numbers and visibility. `DeviceSync` in turn takes
a commit as one step because `CommitEndpoint` implements `ExactlyOnce`
(`CommitEndpoint!Promise`). The asset modules cannot be read at that level,
because the object store takes no part in a transaction: there each `await` that
reads or writes is a step of its own.

**`SyncStore`.** The variables are the columns and tables: `rows`, `revision`,
`content`, `meta`, `deleted`, `position`; `history` is the table `revisions`,
`changes` the events of rows with the snapshot they publish (a delete has none),
`tombstones` and
`conflicts` the tables of the same name, `notices` the events about those.
`Meta` stands for a metadata field that an upsert merges three ways (baseline,
desired, what the row holds). Every operation the code performs is one action,
with the side effects on other rows included: `Delete` renumbers the siblings
(`Compacted`), `Restore` and `PreserveEditAfterDelete` make room (`Reinserted`),
`SaveNotebook` can carry a page order (`Reordered`), and every page so moved gets
a revision, a history row and an event (`Moved`, `Publish`). An operation that
fails (`MetaConflict`, a stale canvas, the last page, a stale resolution) changes
nothing and is a disabled action; one whose outcome is "unchanged" is a
stutter. Copies: a conflict reserves an identifier that no row and no other
conflict uses (`Fresh`). A device bases its operation on a revision it has seen,
`base \in 1..revision[r]`.

**`CommitEndpoint`.** An attempt goes `find → reserve → apply → commit →
answered`. `Reserve` inserts the key's row; the unique index makes it wait while
another transaction holds an uncommitted one, and if a committed record is
there by then answers from it. `Apply` takes the row locks. `RollBack` is an operation
that fails, `Restart` the end of the server process, `Lose` a lost answer.
`reserved` and `rowLock` model PostgreSQL and are marked external.

**`ChangeFeed`.** `Write` locks a row, takes the next number of the identity
column (never given back) and keeps the event with the transaction; `Commit`
makes rows and events visible, in any order; `RollBack` loses the numbers. A
device pages by cursor (`ListChanges`) or bootstraps (`Bootstrap`, then one
`ReadInventory` per resource, under READ COMMITTED).

**`DeviceSync`.** Per device: the files `local`, `mapping` (`resources.json`) and
`file` (`state.json`, one record), and the running app: `editor`, the tracker's
`queue` and what it has read (`tracker`), where the `cycle` is, the state file it
has read (`held`), what it `fetched`, and the request on the `wire`. Edits are
numbered and `lineage` remembers what an edit was built upon, so that "silently
replaced" and "lost" can be said. In the cloud, `own[d][p]` is the last revision
of a page that device `d` made (the column `revisions.device_id`), so that it can be
said whose version an edit conflicts with. The order of the writes is the code's:
`UpdateRemote` (mapping), `MarkCommitSucceeded` (state), `QueueMetadata`;
`ApplyIfSafe` (content), `RebuildMappings`, `MarkChangesApplied` (cursor); a
crash or a lost connection can come between any two. The tracker's read-modify-
write of `state.json` (`ReadMapping`, `ReadState`, `Track`) and the cycle's
(`HoldState`, then the write) overlap as far as the scenario allows.

**`AssetLifecycle`.** Indexed by asset: the row of the session (`status`, what is
left until `expires_at`, `staging_deleted_at`), the set `ready` of assets with a
row, the bytes under the `staging` and the `final` key, the cleanup's
`candidate` and what is left of its quarantine. `request` holds what each API
request has read so far, `sweep` the same for the cleanup. Contents are told apart
only as the announced bytes, others of the same size and type, and others; a
hash distinguishes the first two, the metadata do not. Creation decides on the row
as it reads it and writes later (`Reuse`, `WriteReuse`), and writes only the
attributes it changed, as the ORM does. Completion locks the row before
it reads (`StartComplete`) and holds the lock to `CommitAsset`; cancellation and
creation read without a lock and wait for it when they write (`Unlocked`). The
cleanup is one transaction whose writes become visible at `SweepCommit`, while
what it deletes from the store is gone at once; a run that ends early loses the
first and not the second. Any request may end after any step (`Abort`).

**`AccountDeletion`.** Adds `account`, the `deletion` request with its
`objectKeys`, and the attempts (`worker`): from the endpoint, which disables the
account and records the request in one commit (`PlaceRequest`), or from the
operator's retry. An attempt deletes the recorded and the listed keys one by one,
keeps what fails, lists again and then erases the user row and with it the rows
of uploads and assets (`EraseAccount`). Requests let in before go on
(`RequestStep`); what they write to rows that are gone fails (`RejectErased`,
`SweepLosesRows`).

**`RestoreBoundary`.** `disk[d][p]` is what directory `d` (the library or the
sync files) holds at place `p` (where it belongs, in the snapshot, moved out of
the way); `captured` is what an attempt found, which is what the manifest
records. The library is a set of the user's notebooks and whether the cloud's
notebook is absent, moved in, or listed in `index.json`; `index` is what that file
listed when notebooks were about to be added, and what is written back with them;
the sync files are
whether resources are mapped and whether there is a cursor. The user can create a
notebook at every step of the action. `step` is the place
in `withSyncRestoreSnapshot`, its action and the rollback. The two renames of a
replacement, what takes them back, and the two halves of writing
`resources.json` are steps of their own, so that a failure or an end of the app
can fall between them.

## 3. What each run checks, its bounds

Every bound is a constant or a field of a `Budgets` record. Where a bound is a
guard (`MaxRevision`, `MaxTombstones`, `MaxConflicts`, `MaxSequence`,
`MaxFailures`, `MaxEdit`) behaviours stop there, so the runs of `SyncStore` and
`CommitEndpoint` do not check for deadlock, nor do those of `RestoreBoundary`,
which ends when the handoff is complete; those of `DeviceSync`, `ChangeFeed` and
`AccountDeletion` do.

| Run | Checks | Instance |
|---|---|---|
| `MCSyncStore_pages` | `TypeOK`, `HistoryComplete`, `ActivePositionsDistinct`, `ConflictsRecoverable`, `NotebookKeepsPage`, `DenseAfterRestructuring`, `RevisionNamesState` | 3 pages of one notebook, 2 documents, 3 revisions per page, 2 tombstones, 2 conflicts |
| `MCSyncStore_roots` | `DeletedIffActiveTombstone`, `NoticesComplete`, `FeedConverges`, `ResolutionSeesCurrent` | a notebook with a canvas, the notebook that may become its copy, 2 documents, 2 metadata values, 1 tombstone, 1 conflict |
| `MCCommitEndpoint` | `TypeOK`, `RecordsMatchLibrary`, `ApplyingAlone`, `AnswersAreTrue`, `PerformedOnce`, `EveryRequestSettles` | 3 requests, two under one key; 2 attempts at a time, 2 failures |
| `MCChangeFeed_order` | `TypeOK`, `RevisionsInOrder`, `ReadsMissNothing` | 2 transactions, 2 resources, 1 device, 4 numbers, pages of one event |
| `MCChangeFeed_bootstrap` | `BootstrapSkipsNothing` (violated) | the same |
| `MCDeviceSync_devices` | `TypeOK`, `CursorCovered`, `MappedContentIsLocal`, `CaughtUpIsCurrent`, `NoSilentOverwrite`, `ConflictsAreReal`, `QueuedUntilSent`, `NoEditLost`, `EventuallyConverged` | 2 devices, 1 page, 2 edits: scenarios `Writer` and `Crossing` with 1 failure, `Overlapping` with 1 overlap |
| `MCDeviceSync_unlisted` | `NoSilentOverwrite` (violated) | 2 devices, 2 pages, 3 edits: another page changes between listing and bootstrap |
| `MCDeviceSync_afterconflict` | `NoSilentOverwrite` (violated) | 3 edits: one device goes on after a conflict |
| `MCAccountDeletion_uploads` | `AccountTypeOK`, `ReadyBytesVerified`, `ReadyObjectKept`, `CancelledForGood` | 1 asset, 2 contents; `Uploading` (2 requests at a time, cleanup, 1 fault) or `Closing` (1 request, cleanup, deletion, no fault) |
| `MCAccountDeletion_reclaim` | `OrphansReclaimed`, `ResidueReclaimed`, `ErasureCompletes` | 1 asset, 3 contents, 1 fault, 1 request at a time with the cleanup, or with the deletion |
| `MCRestoreBoundary` | `TypeOK`, `PriorStateKept`, `HandoffInOrder`, `HandoffCompletes` | 2 failures; or 2 ends of the app; or 3 failures, one of them in what takes a rollback back, and 1 end |
| `MCRestoreBoundary_saved` | `SavedWorkKept` (violated) | nothing fails, the app does not end |

Why these are enough for the interesting cases:

- Three pages are the least for which a delete in the middle, a restore before
  and after a moved sibling, and a copy beyond a gap differ. Three revisions let
  a stale edit meet a conflict that is resolved after the original changed
  again. Two tombstones and two conflicts let them meet each other. Pages and
  documents are interchangeable, so symmetry is used; the runs with symmetry
  check safety only.
- `RootRevisions` gives the notebook four revisions (edit, delete, restore or
  preserve, edit) and its copy one, which is all a copy gets. A canvas cannot
  become a conflict, so one with two revisions covers its stale edit.
- Two attempts at a time and three requests contain an original with its
  overlapping retry, and a different request under the same key; two failures
  let both roll back, or a restart follow a rollback.
- Four numbers let two transactions write two events each, so that one can
  take an early number and commit last. Pages of one event make every listing
  end at a page boundary.
- In `DeviceSync` a `Budgets` record bounds saves, additions, lost connections
  and crashes, and overlapping writes. `Writer`: one device saves twice (so that
  a pending edit is rebased on the result of the one before it) and adds a page
  (so that mappings are replaced and contents queued again), the other reads.
  `Crossing`: both save the same page, so that one edit becomes a conflict. A
  failure can fall between any two steps. `Overlapping`: one device saves twice
  while its tracker and its cycle write the files across each other. Properties
  with the premise `Orderly` (the two take turns, no page is opened while a cycle
  may pull, the app ends only when every save is tracked) say nothing of it; types,
  cursor and `NoSilentOverwrite` hold there too. One page suffices
  for the properties that are about one page, and two pages show in `unlisted` what
  fails there; the proofs are for any number.

- One asset suffices for uploads: the code never relates two assets, and all rows,
  objects and candidates are keyed by asset. Two contents of the announced size
  are what verification has to tell apart; the third, of another size, is where
  a completion ends early. Time counts in ticks of the deadlines: a
  request takes less than one tick, a run of the cleanup and an attempt to delete
  an account none, which their sizes against hours and days justify. The
  deadlines are chosen so that their order is the configured one: a URL does not
  outlive its session or the grace for staging objects. One fault is one
  aborted request, run or attempt, or one failed storage call, anywhere.
- In `RestoreBoundary` one notebook of the user's from before, one from
  meanwhile and one from the cloud are what the rollback and the comparison tell
  apart. Two failures let an action and its rollback fail, or two attempts; three
  let a rollback and what takes it back fail as well. The budgets are separate
  because their combinations are what the properties depend on: where what takes
  a rollback back may fail too (`returns`), a cursor can be left without content,
  and where the app ends, an attempt can be left that no later one can start
  from (known limits); `HandoffInOrder` names the first as its exception,
  `HandoffCompletes` excludes both in its premise.

Each action of every module is taken in some passing run: canvas and metadata
actions in `roots`, `QueueMetadata` in `Crossing`, `ReplaceMappings` to
`PushAgain` in `Writer`, the tracker's partial reads in `Overlapping`, the rejected
requests and the retried attempts in `Closing`, the failing returns in the third
budget of `RestoreBoundary`.

## 4. Fairness

Four runs check liveness; each states what it assumes of the scheduler.

`CommitEndpoint!FairSpec`: the server works on every attempt it has (weak
fairness of `Serve`), the device sends a request that has no answer again and
again, and not every answer is lost (strong fairness of `Send` and of `Deliver`
for each request: sending competes for a bounded number of attempts, and an
answer may be lost any finite number of times). The push service retries a
frozen batch in every cycle until it is answered
(`incremental_sync_push_service.dart:95`, `file_sync_state_store.dart:440`).
Rollbacks and restarts are bounded, not fair.

`DeviceSync!FairSpec`: weak fairness of the tracker (`Track`: its queue is a
chain of futures that always runs on), of `StartCycle` (the periodic timer of
the library screen starts a cycle again and again,
`library_screen.dart:448`), of the cycle's own steps, and of `ServerCommit`. No
fairness of the user, of crashes or of the connection, which only fails as
often as the budget says. `EventuallyConverged` is conditional on every editor
staying closed from some time on, because a cycle pulls only when the library is
in view (`library_screen.dart:496`). A batch that the server refuses for good is
outside the model (see hazards).

`AccountDeletion!AccountFairSpec`: the server goes on with every request it has
begun, the clock goes on, and the operator runs the cleanup and the retry of
deletions again and again (`src/server/README.md:607` calls the first "a routine
maintenance operation", and 197-203 says to run the second until nothing is
pending; neither is started by the server). Strong fairness, because each may
find the lock of a row taken again and again. No fairness of the client: nobody
has to PUT, complete or cancel. `OrphansReclaimed` and `ResidueReclaimed` are
conditional on an operator who runs the cleanup (`budget.cleanups`).

`RestoreBoundary!FairSpec`: an attempt goes on to its end (its steps follow each
other in one future), and another one is begun as long as there is no cursor (the
library screen asks for a cycle every thirty seconds). `HandoffCompletes` is
about behaviours in which the app does not end, and asks for a completion that lasts
(`<>[]`), since one that is reached can still be rolled back.

## 5. What is proved

The theorems hold for every value of the constants that satisfies the named
assumptions (`StoreAssumption`, `EndpointAssumption`, `FeedAssumption`,
`DeviceAssumption`, `AssetAssumption`, `BudgetAssumption`, `BudgetsAssumption`,
`MissingAssumption`); TLC evaluates those in every run.

**`SyncStoreProofs`.** Assumes that notebooks, pages and canvases are disjoint
sets, that pages are finitely many, that every page and canvas has a parent
notebook, and that "no content" is not a content. Nearly everything rests on
the lemma `StepPublishes`: whatever the operation, there is a set of rows that
each get the next revision, a history entry and a change event with the new
columns, and no other row changes at all. From it:
- `TypeCorrect`, `TypeInvariant`: `Spec => []TypeOK`. `TypeOK` alone is not
  inductive: a row's content must not be "no content" (else a history row would
  be ill-typed), what has no row has revision 0 and is not deleted, tombstones and
  conflicts refer to rows and a conflict's copy is of its original's kind;
  `WellFormed` adds this. The positions need lemmas of their own (`CompactedPlaces`,
  `ReinsertedPlaces`, `ReorderedPlaces`, `PositionAfterAllIsLast`): cardinalities
  of finite sets are natural numbers, and the position of a kept copy is one
  beyond a maximum that has to exist (`LastPosition`, by well-foundedness of the
  strict subsets of a finite set).
- `HistoryIsComplete`: `Spec => []HistoryComplete`, with
  `HistoryInv == WellFormed /\ HistoryComplete` inductive.
- `RevisionsNameStates`: `Spec => RevisionNamesState`, directly from
  `StepPublishes`.
- `FeedIsConvergent`: `Spec => []FeedConverges`; the inductive `FeedInv` adds that
  no event lies beyond the revision of its resource, rows or not.

Its second half is about the structure of a library. An operation is one of four
kinds, and `StructureSteps` says which: it adds a row, writes rows, hides one or brings
one back. Each property has one lemma for each kind.
- `ConflictsAreRecoverable`: `Spec => []ConflictsRecoverable`. `ConflictsInv` is
  inductive: it adds to `HistoryInv` that no two conflicts reserve the same copy
  (`CopiesDistinct`; else one `keep_both` would take the identifier of another),
  that a record is pending exactly while it has no resolution, that its revision
  is one the row has had, and that a reserved copy has no row yet. History entries
  stay (`StepGrows`), so what a record refers to stays as well (`RecordStays`).
- `ResolutionsSeeCurrent`: `Spec => ResolutionSeesCurrent`, from the same invariant.
- `NotebooksKeepPages`: `Spec => []NotebookKeepsPage`.
- `PositionsStayDistinct`: `Spec => []ActivePositionsDistinct`, and
  `RestructuringLeavesDense`: `Spec => DenseAfterRestructuring`. Both from `Ranks`:
  where the positions of a finite set of pages are distinct, counting the pages
  before a page numbers them from 0 without a gap (an injection of a finite set
  into one of its size is onto). `CompactedIsNumbered`, `ReinsertedIsNumbered` and
  `ReorderedIsNumbered` say so of the three renumberings of the code, whatever gaps
  there were before.
- `HiddenRowsHaveTheirTombstone`: `Spec => []DeletedIffActiveTombstone`; the
  invariant is stated tombstone by tombstone (`TombstonesHold`), which avoids
  counting them.
- `NoticesStayComplete`: `Spec => []NoticesComplete`.

**`CommitEndpointProofs`.** Assumes that every request carries a key and that
`None` is neither a request nor an attempt.
- `EndpointIsCorrect`: `Spec => [](TypeOK /\ RecordsMatchLibrary /\ ApplyingAlone /\
  AnswersAreTrue)`. The three are inductive together, not one by one, and with the
  facts that an attempt carries a request and has no answer before it is answered
  (`AttemptsWellFormed`): `ApplyingAlone` is what makes `Commit` keep the records unique, and
  `RecordsMatchLibrary` is what makes an answer from a record true. `EndpointTypes`,
  `AttemptsApplyAlone` and `AnswersStayTrue` state the parts by themselves.
- `EndpointImplementsPromise`: `Spec => PerformedOnce`, the refinement of
  `ExactlyOnce`: `Commit` is `Perform`, `Deliver` is `Confirm`, `Refuse` or a
  stutter, everything else stutters.

**`ChangeFeedProofs`.** Assumes a positive page size and that `None` is not a
transaction.
- `FeedTellsRevisionsInOrder`: `Spec => []RevisionsInOrder`. The property says
  nothing of uncommitted events and is not inductive. `FeedInv` adds that a
  transaction writes only rows it holds the lock of (`WritesAreLocked`), that
  every number in use was taken from the counter (`NumbersWereTaken`), that the
  written events of a row continue the committed ones in order of revision and of
  number (`InOrder`) without a gap (`Consecutive`).
- `FeedTypes`: `Spec => []TypeOK`. That a cursor is a number that was taken needs
  that the committed events are finitely many (`ReadsInv`): only then a page of
  them, and the feed, have a last one.
- `FeedReadsMissNothing`: `Spec => ReadsMissNothing`. A page that is full ends at
  its highest number, and `PageHasNoGap` says that every visible event up to
  there is on it.

**`DeviceSyncProofs`.** Assumes finitely many pages, and that overlapping writes
occur only in scenarios that allow them. Devices may be infinitely many. Five
inductive invariants build on each other; each has one lemma per action, and a
lemma that a step of one device leaves what is said of the others (`Others...`).
- `DeviceTypes`: `Spec => []TypeOK`, for every scenario, overlapping writes
  included. `TypesInv` adds that there are finitely many stored responses (a new
  key exists), that a cursor, and what a read copy of the state file says of it, does
  not run ahead of the feed, and that a bootstrap names revisions that exist. The
  feed's new events are a sequence of a finite set (`SetToSeqIsSeq`).
- `CursorStaysCovered`: `Spec => [](~budget.parallel => CursorCovered)`. Where the
  tracker and the cycle take turns no copy of the state file is older than the
  file (`CalmInv`). `CoveredInv` says what covers the cursor at each stage: beside
  the mapping, the stored answer to the frozen batch, because the mapping takes it
  over however late it arrives, and the bootstrap, which covers what the cursor
  will move to.
- `QueuedEditsAreSent`: `Spec => QueuedUntilSent`, and `NoEditIsLost`:
  `Spec => NoEditLost`, both for orderly scenarios, as the properties say.
  `OrderedInv`: what an edit is built upon is closed and earlier
  (`LineageOrdered`); the contents of a page follow each other from `state.json`
  through the tracker's queue to the local file and the editor (`EditsInOrder`);
  the server has what it has answered, and what is on the wire under the key of the
  frozen batch is that batch (`AnsweredReached`); nothing is pending while changes
  are applied (`PullsUndisturbed`); and every local content has reached the server,
  is queued or is waiting for the tracker (`LocalSafe`).
- `ConflictsStayReal`: `Spec => ConflictsAreReal`. `CurrentInv`: the revisions a
  device works with (the mapping, the bases of what is pending and of what is
  frozen) exist and are not behind a version of its own, except where the stored
  answer to its batch is still to correct them (`Unanswered`, `AnsweredOp`).

**`DeviceContentProofs`.** What the devices of `DeviceSync` have of the contents in the
cloud, from the same assumptions and the invariants above, for orderly scenarios:
any number of devices, pages, edits, lost answers and crashes after tracking.
- `DevicesCatchUp`: `Spec => []CaughtUpIsCurrent`, the safety half of convergence:
  a device that has nothing of a page to send, to track or to list has the cloud's
  content of it, also after conflicts and in both scenarios of the findings.
  The property is far from inductive. `SettledInv` says that a local content that is
  not the cloud's always leaves something to do (`LocalCurrent`), and what has to
  hold at each stage for that: every version is told by the feed (`FeedComplete`);
  no base of what is sent, nor the revision of the answer, is older than what the
  cursor has passed (`BasesCurrent`, `AnswersCurrent`), so that a content preserved as a
  conflict has met a change that is still to be listed; once the frozen batch is
  answered, what it sent is the cloud's content or a later change is to be listed
  (`AnswerSettles`); what waits for the tracker, or else is pending, or else is
  frozen ends with the local content (`LatestIsLocal`); and what a pull applied is
  what the pages are mapped to when the cursor moves (`PullApplied`).
- `MappedContentStaysLocal`: `Spec /\ [][no MapsUnseen]_vars => []MappedContentIsLocal`.
  `MapsUnseen(d, p)` is the step of the code that breaks it: page `p` of device
  `d` is mapped to another revision by a bootstrap (`RebuildMappings` of a pull whose
  list does not name the page, or `ReplaceMappings` after an addition). `KnownInv` is
  inductive without it: every version of a page is built upon the earlier ones
  (`Chain`), whatever a device has of a page upon the mapped revision, and whatever it
  sends upon its base (`WorkKnown`); what was made since the batch was frozen is
  built upon the batch (`BatchFirst`), because the answer, as late as it comes, moves
  the mapping to what the batch has become (`AnswersKnown`).
- `TheirContentStaysLocal`: the same page by page. A page keeps it until an
  edit of that page is preserved as a conflict or that page is mapped unseen,
  whatever happens to the others.
- `VersionsBuildOnLast`: under the hypothesis of `MappedContentStaysLocal` a commit
  adds only a version that was built upon the last one of its page, for as long as
  nothing of that page was preserved as a conflict; `NothingIsOverwritten`:
  `NoSilentOverwrite` itself, where nothing at all is.
- `OnePageStaysLocal`: for one page and no additions the hypothesis about bootstraps
  is proved too (`Narrow`): a pull goes on to apply only where it has listed a
  change, and with one page that is a change of this page.

The hypotheses are not empty: in the runs with one page and no addition no step is a
`MapsUnseen`, and the two violation runs of `DeviceSync` are what remains when one of
them is dropped (`unlisted` the first, `afterconflict` that nothing was preserved).

**`AssetLifecycleProofs`.** Assumes that the deadlines are positive, that a URL is
shorter-lived than the grace for staging objects and that "no object" is neither
a content nor an asset. `BytesInv` is inductive: beside `TypeOK` and the
property it says that at most one completion is under the lock of an upload row
(`CompletesAlone`), that none of them is of a ready asset (`CompletesUnready`),
and that a completion about to commit has verified what is under the final key
(`VerifiedStays`). Without the first a second completion could copy other bytes
between the verification and the commit of the first; without the second, after
it. From it:
- `AssetTypes`: `Spec => []TypeOK`.
- `ReadyAssetsVerified`: `Spec => []ReadyBytesVerified`.
- `CancelledSessionsStay`: `Spec => CancelledForGood`. Whether a session is settled
  is a fact about its row and every request that has read it, so there is a lemma
  for what each kind of step may do to it (`CreateLeavesSettled` and so on).

**`AccountDeletionProofs`.** Takes over the lemmas of the former per action, and
shows that the steps of a deletion and the loss of rows keep `BytesInv` too:
objects only vanish, requests only end, and the rows go only while nobody holds
their locks, so that no completion is left that could commit.
- `AccountTypes`: `AccountSpec => []AccountTypeOK`.
- `ReadyAssetsVerifiedInAccount`: `AccountSpec => []ReadyBytesVerified`.
- `ReadyObjectsKept`: `AccountSpec => ReadyObjectKept`, with `DisabledFirst`: no
  attempt to delete works on an account that is still active.
- `CancelledSessionsStayInAccount`: `AccountSpec => CancelledForGood`.

**`RestoreBoundaryProofs`.** Assumes that "no directory" is not a content of one.
`BoundaryInv` says for each of the 20 or so steps where the two captured contents
are (`Protected`), which names in the snapshot are free for a rename
(`NamesFree`), how far the handoff has come (`Advancing`), and that a cursor never
goes without mappings and content, wherever a rollback has them
(`CursorWithContent`).
- `BoundaryTypes`: `Spec => []TypeOK`.
- `PriorStateIsKept`: `Spec => []PriorStateKept`, for any number of failures and
  ends of the app.
- `HandoffIsInOrder`: `Spec => []HandoffInOrder`, and
  `UninterruptedHandoffIsInOrder`: where the app does not end and what takes a
  rollback back does not fail, without the exception.

What attempts at proofs showed about the statements. `HandoffInOrder` had the
premise that nothing which takes a rollback back fails: an end of the app between
the two swaps refutes that too, and the property now names the state instead.
`ConflictsAreReal` spoke of the author of the cloud's version and was false after a
device adopts another's content; it now speaks of the device that made the
revision. `CursorCovered` is not an invariant of every scenario, and
`MappedContentIsLocal` not one of two pages, which led to the finding about unlisted
pages.

Only model-checked, or proved under a hypothesis:
- The liveness properties (`EveryRequestSettles`, `EventuallyConverged`,
  `OrphansReclaimed`, `ResidueReclaimed`, `ErasureCompletes`, `HandoffCompletes`):
  they rest on fairness, which is out of the prover's reach.
- `MappedContentIsLocal` and `NoSilentOverwrite` hold for every value of the constants
  only under the hypotheses of `DeviceContentProofs` (the two findings about
  `DeviceSync`, and the addition by a second writer under known limits). Beyond the
  theorems the run checks them in the scenario `Writer`, where the one writer adds a
  page, and where both devices save and an edit becomes a conflict
  (`NoSilentOverwrite`, two edits).

That modules fit each other (the batch of `CommitEndpoint` as one step of
`DeviceSync`, for instance) is an argument of section 2, not a theorem.

## 6. What the checks show about the code

### Findings

Each is a run that ends in a counterexample, and quotes what it contradicts.

- **A bootstrap can skip an event for good** (`MCChangeFeed_bootstrap`;
  `sync/service.py:130`). Numbers are taken at flush and visible at commit; the
  highest visible number can be beyond one that is still uncommitted. The passing
  run shows what does hold: nothing that is visible is passed over, and each
  resource's revisions come in order.
- **Editing on after a conflict replaces the other version**
  (`MCDeviceSync_afterconflict`; `file_sync_state_store.dart:506`). Pending edits
  are rebased on the result of a commit also if that is a conflict, and the
  metadata sent after a conflict move the mapping to the other device's revision;
  the local content still is the conflicting one, so the next edit is accepted on
  top of a version it never saw.
- **A page the list does not name is mapped to a revision it does not have**
  (`MCDeviceSync_unlisted`; `incremental_sync_pull_service.dart:472`). The contents
  are checked and applied for the pages that the listed changes name, the mappings
  rebuilt for all of them from a bootstrap that is read later. A page that
  another device changes in between keeps its old content on the device under the
  new revision; the next edit of it is accepted and replaces a version that its
  author never saw. The next pull lists the change and puts the content right, if
  it comes before that edit.
- **The rollback deletes what the user added meanwhile**
  (`MCRestoreBoundary_saved`; `sync_restore_snapshot.dart:153`). A notebook created
  while a mixed merge is under way is in the library and not in the cloud;
  the final comparison of the two inventories fails
  (`first_sign_in_sync_service.dart:730`) and the boundary puts back the copy it
  made before, without that notebook. Nothing has failed, and the screen says
  that content "was not overwritten". The same rollback after a lost connection
  takes whatever was saved since the attempt began. The documents describe the
  rollback to "the exact prior local state"; what is missing is that the user is
  kept from working meanwhile, or that the work is kept.

### Known limits

TLC found further disagreements while the models were written. The passing runs
exclude what leads to them by a field of `Budgets`, or the property names them as
its exception; they are recorded here and as hazards.

Library and devices:

- *Kept page beyond the end.* `KeepBoth` gives the copy of a page the maximum
  position over all page rows plus one, deleted rows included
  (`sync/conflicts.py:201`); after a delete that leaves a gap, which
  `docs/development/STATUS.md:205-206` excludes ("only at the final server
  position") and the app's apply service refuses
  (`shared_sync_apply_service.dart:286-295`). `ActivePositionsDistinct` holds all
  the same, and the next delete, restore or reorder closes the gap
  (`DenseAfterRestructuring`).
- *Two stores on one file.* The tracker and the push service use stores of their
  own on `state.json`, each serializing only its own writes. With `parallel` and
  `overlaps`, an edit queued between the push's read and write of the file is
  gone (`sync_mutation_tracker.dart:120`, against
  `docs/development/STORAGE.md:93-95`, "edits made while it was uploading remain
  pending"): `QueuedUntilSent` fails in the scenario `Overlapping`, which is why
  it asks for an orderly one. With a second writer `CursorCovered` fails as well
  (a write of the tracker brings an answered batch back, and its answer, sent
  again, takes the mapping back behind the cursor): the theorem
  `CursorStaysCovered` has the premise that the two take turns.
- *A save that is never tracked.* If the app ends after a page is saved and before
  the save is tracked (`endsUntracked`), nothing remembers that the page differs
  from its mapped revision, and the next pull that lists it replaces the content
  (`file_notebook_repository.dart:954`, `NoEditLost`).
- *Stale base.* With `overlaps > 0` and `parallel`, the tracker reads the mapping
  before a commit is recorded and queues the edit after it: the edit conflicts
  with the device's own earlier one (`sync_mutation_tracker.dart:107`,
  `ConflictsAreReal`).
- *Addition by a second writer.* With an addition by a device whose page another
  device has changed meanwhile, `ReplaceMappings` maps the page to the new
  revision and the older local content is queued on top of it
  (`first_sign_in_sync_service.dart:265`): `MappedContentIsLocal` fails, and with it
  `NoSilentOverwrite`. It is one of the two forms of `MapsUnseen` (section 5).
- *Opening a notebook in a cycle that pulls.* Whether to pull is decided when a
  cycle is requested; with `opensInPull` the content is replaced beneath the open
  editor (`library_screen.dart:496`, `NoSilentOverwrite`).
- *Crash between content and mapping.* After a crash between `ApplyIfSafe` and
  `RebuildMappings` an edit of the applied content still names the older revision
  and becomes a conflict with the version it is built upon. Nothing is lost.
  `ConflictsAreReal` therefore does not say that an edit only conflicts with what
  its author had not seen, but that it never conflicts with a version that its
  own device made.

Assets and accounts:

- *A late PUT after the last listing.* A URL signed before the account was disabled
  stays valid; a PUT after `ListAgain` leaves bytes under a key no row names and
  no retry lists again, although "all account-prefixed objects" are to be removed
  (account-release-readiness brief, 24-29). `EraseAccount` does not wait for URLs.
- *Check and delete.* An orphan past its quarantine is deleted after a last look
  at the references (`cleanup.py:261`); a completion of the same key that commits
  in between keeps its row and loses its object. `ReadyObjectKept` allows
  exactly this window.
- *Key of a deleted orphan.* A candidate that reads `deleted` is never registered
  again (`cleanup.py:222-229`): a later orphan under the same key stays for good.
  `OrphansReclaimed` names the exception.
- *A full batch.* A run of the cleanup takes at most
  `asset_cleanup_batch_size` rows (100 by default) of each kind, oldest first, and
  registers the first orphans of the listing only (`cleanup.py:67`, `139`, `199`,
  `250`). The model has no such limit: with as many objects whose deletes always
  fail, or whose candidates read `deleted`, those behind them are never reached, and
  `OrphansReclaimed` and `ResidueReclaimed` say nothing of that.
- *Stale renewal.* A creation that reads an expired row before the cleanup marks
  its staging object deleted does not reset the mark (`service.py:411`), because
  the ORM writes only what changed: bytes PUT afterwards are not reclaimed.
  `ResidueReclaimed` names the exception.
- *Later status wins.* Cancel and expiry are decided on a row read without a
  lock: a completed upload can read cancelled or expired afterwards, and a
  repeated completion is answered with 409 instead of the asset that exists
  (README of the server, 226-229); a renewal that read the row before it was
  cancelled writes nothing to the status of a pending row, but one that read an
  expired row can make a cancelled one pending. `CancelledForGood` therefore speaks
  of sessions with no other work under way.

First sign-in:

- *The index written back.* The restore reads `index.json`, moves the downloaded
  directories, and writes what it read with their notebooks added
  (`bootstrap_restore_service.dart:248`, `289`); a notebook that the user creates in
  between is not listed any more, although its directory is there, and the attempt
  completes. `SavedWorkKept` is about attempts that were not completed, which is
  what the message it quotes is about; without that premise TLC finds this as well.
- *The boundary on a device that has a cursor.* A device enters the same boundary
  for notebooks of its own that the cloud does not list yet
  (`first_sign_in_sync_service.dart:335-369`). `Begin` asks for no cursor, so
  `RestoreBoundary` says nothing of it. `resources.json` is deleted there before its
  successor is renamed (`sync_resource_map_store.dart:311-312`), as in every pull
  and addition: an end of the app between the two leaves a cursor without mappings,
  and edits are not queued (`sync_mutation_tracker.dart:107`) until a pull or an
  addition rebuilds them. In `DeviceSync` the replacement of the file is one step.
- *End after the move.* If the app ends after a downloaded directory was moved
  into the library and before `index.json` lists it, every later attempt fails with
  "A notebook directory appeared before bootstrap apply."
  (`bootstrap_restore_service.dart:274`). `HandoffCompletes` excludes ends.
- *End in a rollback.* Between the two renames of a replacement the library is
  only in the snapshot, and nothing looks into `restore-recovery` at the next
  start. `PriorStateKept` holds (the copy is there), but the app shows an empty
  library and the next attempt takes that for the state to protect.
- *Discard that fails.* If the snapshot cannot be deleted after the cursor was
  stored, the boundary rolls everything back although the handoff was complete;
  since the library is swapped before the sync files, a second failure that also
  hits what takes the swap back leaves the cursor without the content.
  `HandoffInOrder` names it (`Stranded`): the content is then in what the rollback
  moved out of the way. An end of the app at the same place does it too.

## 7. What is not modelled

- Folders, the folder a notebook is in, notebook covers: they follow the pattern of
  notebooks in `SyncStore` and add the subtree operations, which are planned.
- Validation of requests, sizes, hashes and signatures: a request is in a state
  the validated program can be in; equal documents have equal hashes.
- Page deletes, notebook operations and structural conflicts on the device;
  batches the server refuses.
- Applying one set of changes file by file, with its rollback, and the
  suppression of the tracker meanwhile.
- Of the cleanup: the limit of a batch (known limits) and the refusal of keys
  outside the expected prefix (`cleanup.py:153`, `268`), which the server never
  writes.
- Of the restore boundary: its use on a device that has a cursor (known limits), the
  records of conflicts the action stores (`first_sign_in_sync_service.dart:744`),
  `folders.json` beside `index.json`, and saves of the user while the copies are made
  or put back.
- The merge plan of the first sign-in (a comparison of sets of identifiers), the
  upload of a library that exists only locally, and the reconciliation of changes
  made while signed out.
- Sessions and refresh tokens, device revocation, the rate limiter; download URLs
  and the dry run of the cleanup, which change nothing.
- Stroke geometry, rendering, PDF import and export, handwriting features, HTTP,
  configuration: no shared state or pure I/O.

## 8. Plan

In the order of importance; what is done is named for its place in the whole.

1. `SyncStore` with its proofs: done.
2. `ExactlyOnce`, `CommitEndpoint` with the refinement and its proof: done.
3. `ChangeFeed` with its proofs: done.
4. `DeviceSync`: pages, additions, conflicts, crashes: done.
5. `AssetLifecycle`, `AccountDeletion` with their proofs: done.
6. `RestoreBoundary`: done.
7. Proofs of the structure of the store, of the reads of the feed, of the uploads
   under a deletion, of the restore boundary, of the devices and of what they have
   of the cloud's contents: done. Every safety property of a passing run is stated
   by a theorem.
8. Further models, should the development go on: one step per file in the apply
   of shared changes, shown to implement `DeviceSync!ApplyIfSafe`; deletes and page
   orders in `DeviceSync`; sessions; folders in `SyncStore`.
