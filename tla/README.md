# A verification of context-switch

This directory holds TLA+ specifications of the core of context-switch (the time
tracker in `src/`), TLC configurations that model-check them, and theorems about them
that TLAPS checks. Every definition is translated from the source; `PROJECT.json`
gives, for each, the file and the lines it stands for, the runs and what they check,
the mutations that show each property can fail, and the hazards the properties are for.

## 1. The system

### Components, their state and their operations

| Component | State | Operations |
|---|---|---|
| Logbook domain (`contextswitch-core/src/domain.rs`) | one `Logbook`: spans, projects, tags, the active pointer, a revision | start, stop, switch, edit, add, remove, describe, unassign; add, rename, archive projects and tags, set a client; `validate`, `migrate` |
| `StorageProvider` contract (`storage.rs`) | a version and a logbook | `read`, `commit(logbook, expected_version)`, `fingerprint` |
| `GenericProvider` (`provider.rs`, `crypto.rs`) | the cached head (revision and ETag of the last known blob), under a mutex | `read`, `commit`, `rekey`, `fingerprint` over a blob store and a cipher |
| Blob stores (`blob.rs`, `s3.rs`) | one object with an ETag; for local files a data file, a lockfile and a temporary file | `get`, `put` with `IfAbsent` or `IfMatch`, `stat` |
| `SyncEngine`, `MemoryCachingProvider` (`sync.rs`) | the replica (`entry`), the pending count, the failed list, the task channel, one worker thread | `snapshot`, `commit` (buffered or write-through), `take_failed_write`, `flush`, `Drop`; the worker's drain and refresh |
| `CoswStore` (`contextswitch-uniffi/src/lib.rs`) | a backend: a provider, or a sync engine over one | `mutate` (read, apply, commit, one retry on conflict), one method per domain operation |
| Android client (`LogbookStore.kt`, `TimerService.kt`) | the snapshot flow, a cache file, a sync job, an operation mutex, the foreground service | `runOp`, `refresh`, `open`, foreground and background, the service's start, stop and restart |
| CLI (`cli/cosw/*.py`) | none between runs (a best-effort cache of names) | `transact` (read, mutate, confirm, commit), the commands, reports and timesheets |
| Portable configuration (`portable_config.rs`) | none | export and import of a sealed configuration |

### How they interact

A client reads a snapshot, applies a domain operation to its copy and commits the copy
against the version it read. The CLI does so directly on a provider, the Android app
through `CoswStore`, with or without a `SyncEngine` in between. `GenericProvider` seals
the logbook and puts it on the blob store on condition that the blob is still the one
it knows; the blob store makes that condition and the write one step (S3 by the
service, local files by a lockfile and a rename). The threads of a process share one
`GenericProvider` (its head is behind a mutex, its calls are not) and one `SyncEngine`
(its state is behind a mutex that is never held across I/O). Devices share only the
stored object.

### What is hard, and what makes each part correct

The full list, with the line where each hazard bites and the properties that would
catch it, is under `hazards` in `PROJECT.json`. In short:

- **Domain**: any sequence of operations, at instants in any order, must keep recorded
  time disjoint, one timer active, references and names sound, and the logbook
  acceptable to `validate`, or the user can no longer commit.
- **Provider**: the head is a cached value used after others may have changed the blob;
  a conditional PUT may be answered, refused, lost, or arrive late; a passphrase may
  be rotated by another process. A commit must land exactly once, against the version
  it expects, or not at all, and must say so truthfully.
- **Local files**: processes interleave at every file-system call and die anywhere; the
  lockfile must exclude, be reclaimed after a crash, and never be waited for for ever.
- **Sync engine**: a replica that is ahead of the store (optimistic), behind it (another
  device wrote), or wrong (the write was rejected), fixed by a worker whose probe, read
  and install are three steps. No write may vanish, the replica must show nothing
  that was rejected, and must become the stored logbook in the end.
- **Clients**: a command is several mutations on a copy, made earlier, by someone who does
  not know of the others; a retry applies it to a newer logbook than the one its user
  saw. Together they must act as one logbook to which whole commands are applied.
- **Android**: coroutines, a service, an activity and a polling loop, each of which the
  system may end, publish snapshots they obtained at different times.
- **Reports**: spans cross the ends of a range and midnights; no instant may be counted
  twice, none forgotten.

## 2. The modules

| Module | Models | Uses |
|---|---|---|
| `Domain` | the operations of `impl Logbook` and `validate` as pure operators on a logbook record | |
| `Logbook` | one logbook and every operation on it as a state machine | `Domain` |
| `VersionedStore` | abstract: what a `StorageProvider` promises | |
| `Provider` | `GenericProvider` on one conditional-write blob | refines `VersionedStore` |
| `ConditionalStore` | abstract: what a `BlobStore` promises | |
| `LocalFs` | `LocalFsBlobStore::put` and the bootstrap of `LocalFsProvider`, per file-system call | refines `ConditionalStore` |
| `SyncEngine` | the sync engine over a provider taken at the contract of `VersionedStore` | |
| `Commands` | the operations of `CoswStore` and the commands of `cosw` as operators: what a whole command makes of a logbook | `Domain` |
| `LogbookCommands` | the commands given to every logbook the mutations can build | `Logbook`, `Commands` |
| `Reports` | `cosw report` and the timesheet as functions of a logbook | `Logbook`, `Commands` |
| `SharedLogbook` | abstract: one logbook, changed by one whole command at a time | |
| `Devices` | several clients, with retries and confirmations, on one store at the contract of `VersionedStore` | `Commands`; refines `SharedLogbook` |
| `AndroidApp` | `LogbookStore`, `TimerService`, the activity, and a process that may be killed | |
| `MCLogbook`, `MCProvider`, `MCSyncEngine`, `MCDevices` | the instances TLC checks | |
| `DomainProofs`, `LogbookProofs` | lemmas about `Domain`, theorems about `Logbook`, `LogbookCommands` and `Reports` | |
| `CommandsProofs` | what every command keeps | `DomainProofs` |
| `ProviderProofs`, `LocalFsProofs`, `SyncEngineProofs`, `DevicesProofs`, `AndroidAppProofs` | theorems about each, refinements among them | |

They stack: `LocalFs` implements `ConditionalStore`, the conditional write on which
`Provider` rests; `Provider` implements `VersionedStore`; `SyncEngine` and `Devices` are built on
`VersionedStore`'s contract, and `Devices` implements `SharedLogbook`, whose steps are the
commands of `Commands`, made of the operations of `Domain`; `AndroidApp` takes such a
command as one step.

### Domain and Logbook

A method of `impl Logbook` is a pair: `CanXxx` is the conjunction of the checks the
method makes before it changes anything, `Xxxed` the logbook it leaves. The methods take
`&mut self` and check everything before the first assignment, so an error changes nothing
and an operation is one step. `Validates` is `validate`, with its sort and its comparison
of adjacent spans: `SortsBefore` breaks ties by id, since the sort is stable over a map
ordered by id. Ids are fresh (`Uuid::new_v4`), and a fresh span id may fall anywhere in
that order. Instants are free: the clients accept back-dated times. Left out:
`created_at`, `updated_at` and the revision (no check reads them; the provider assigns
the revision), and `migrate` (a change of the schema number).

### VersionedStore and Provider

`VersionedStore` says of commits: each lands at most once, in one step, when the stored
version is the one it expects, and raises it by one; `ok` means landed, `conflict` means
not landed; `failed` leaves it open, and such a call may still land later, at the version
it expects.

`Provider` has one step per access to the blob store and per critical section on `head`,
so that threads sharing an instance interleave everywhere the code lets them: between a
GET and the `set_head` after it, between `invalidate_head` and the re-read. The blob's
ETag is the count of its writes (0: absent), which makes `IfMatch` and `IfAbsent` one
comparison and ETags distinct, as a content hash over a sealed payload with a fresh nonce
and as S3's ETag are. A PUT may land and be answered, land and lose its answer, be
refused, not land, or (`delayed`) land after its caller gave up. `rekey` and the
re-opening of a store with another passphrase are included. `ImplementsStore` is the
refinement: the stored revision and content are the abstract version and content, a thread
in `commit` is an abstract call, and a delayed PUT an abstract late call.

### LocalFs

A process opens (and perhaps bootstraps) the store, gets, and puts; `put` is its
sequence of system calls: `create_new` of the lockfile, the age check, the removal of a
stale lockfile, the re-read for the precondition, creating, writing and renaming the
temporary file, and the removal of the lockfile by the guard, which removes whatever
file has that name. `Crash` leaves lockfile and temporary file behind. Time appears as
`Age`: the lockfile of a process that is not in a put any more becomes stale (with
`SlowHolders`, also that of one that is), and every process that finds it so removes
whatever lockfile is there a step later, as `acquire_lock` does. That can take the lockfile
of a process inside (`Robs`): because it is not the one the remover has looked at, which
somebody else removed in between, or because it has grown old in use. Two history
variables, which no guard reads, say so: `judged`, the processes that have found the
lockfile that is there stale, and `robbed`. The properties promise what they promise until
then, and nothing else ends the promise: a fresh lockfile taken for stale, a release of
somebody else's lock, or a precondition that is not checked breaks them. Two processes that
share the temporary file after a robbery are modelled roughly: what one writes into a file
the other has truncated or renamed is left out.
`ImplementsConditionalStore` is the refinement: the data file is the object, a process in a
put is a call that lands at the rename (`Calls`: the object its precondition names, and the
one it brings), and what a process has seen last is what the abstract client has (`Seen`); a
data file that does not parse is not seen.

### SyncEngine

One module for both commit modes (`mode`, fixed in the initial state). A step per critical section on `CacheState` and per call of the inner provider, for each
caller and for the worker; `ExtCommit` is another device. The inner provider is taken at
the contract `Provider` is shown to implement, late commits included. A logbook is the
set of updates it contains, and a client commits what it last read plus one update, which
is what `CoswStore::mutate` and the CLI's `transact` do. The change token is the store's
version (two tokens are equal only for the same stored object). Queue entries are the
tasks of the channel. `accepted`, `taken` and `past` are history variables: no guard
of the engine reads them (`accepted` also names the next fresh update). Left out: the failure of a
`send` to the worker (the worker ends only when the engine is dropped), the sleeps
between retries, and `sync_status`, which reads the modelled state.

### Commands and LogbookCommands

`Outcomes(b, cmd, now)` is the set of logbooks that a command can make of `b` at the
client's clock `now`: one for each choice of fresh ids, none if the command fails. A
command works on a copy, so a failure in its middle leaves nothing; this is why a set of
logbooks is all there is to it. `named = TRUE` is the CLI's form: projects and tags by
name, looked up by `casefold` (`Fold`; any entry that matches, since the list is ordered by
random ids) and created when they are not found, archived ones
refused, spans by id, by `-n` counting from the newest, or the latest; the other is the
app's, by ids. The two differ where the code does (the CLI's `edit` may unassign first, its
`cancel` asks; the app's methods check nothing by name). What a command should do is said
without the operators that do it: `PointedAt` finds the span meant by comparing starts, not
by indexing a sorted list, and `EditsDoWhatIsAsked` compares the span before an edit with the
one after it, whatever mutations ran between. Left out: more than one tag on a
command line, abbreviated span ids, and messages.

### Devices

An app's operation is `mutate`: read, apply to a copy, commit, and once more from the read
when the commit conflicts. A CLI's is `transact`: the same, with a confirmation between
mutation and commit that may take any time and may be declined, and no second attempt. The
store is `VersionedStore` itself, instantiated: commits may be lost, answered late, or land
after their caller has been told of a failure. `landings` counts the commits of a command
that took effect; no guard reads it. An app over a replica is the client in `SyncEngine`.

### Reports

`bounds`, `matching_spans`, `totals_by`, `totals_by_day`, `day_segments` and the lines of
`build_timesheet`, with dates as numbers (`Day`, `Midnight`). The reference is to count:
`Counts` says whether an instant is recorded and asked for. `ClockAssumption` says that
instants are whole seconds with none missing between two of them; `CalendarAssumption`
that a date is the instants from its midnight to the next, and never comes back once it is
over: where clocks are set back across midnight, `day_segments` would not advance
(`reporting.py:154`). Left out: the `month` and `year`
shortcuts (computed as `week` is), filters on clients, rounding to hours, and the label
"(unassigned)", which a project of that name would share.

### AndroidApp

The coroutines of `LogbookStore` (`open`, `runOp`, the operation and `refresh` under the
mutex, publishing, then the cache file), the poll of the foreground and the watch of the
service (which looks at the snapshot and calls `stopSelf` in two steps: its coroutine does
not run on the main thread), `LaunchedEffect` of the activity, the notification's stop, and the sticky
restart. A command of `CoswStore` is one step, or an error that leaves open whether it took
effect, which is what `Devices` shows of it. Of a snapshot the version and the running
span are kept; a span is named by the version that started it. `Kill` ends the process
anywhere, in the middle of writing the cache file too (`Torn`). One storage location; error
messages are left out.

## 3. The runs

| Run | Instance | What it shows |
|---|---|---|
| `logbook_timeline` | 3 spans, 5 instants, the 8 operations on spans; every command of both clients on each logbook; 6 queries | recorded time is disjoint instant by instant; one active timer; the operations build logbooks `validate` accepts (ties aside); stopped spans stay stopped; a switch leaves no gap and no overlap. Whole commands keep a logbook sound and lose or move no recorded time but that of the span they are pointed at. Reports count every instant once, on its date |
| `logbook_catalogue` | 1 span, 2 projects, 2 tags, names "ss", "SS", "sz", blank and over-long texts, all 15 operations; on each logbook the commands of both clients that are several mutations | types; references resolve; names unique up to case. Whole commands keep a logbook sound, with the projects and tags they create on the way; an edit leaves on its span what it was asked for and nothing else |
| `logbook_ties` (violation) | 2 spans, 2 instants | see findings |
| `provider` | 2 threads sharing one instance, 1 thread of another, 2 passphrases, 3 writes | the refinement of `VersionedStore`; the cached head is never a wrong pair; a rotation is not undone |
| `localfs` | 3 processes, 1 crash, 2 payloads | until a process inside is robbed of its lockfile: the refinement of `ConditionalStore` (a put lands once, at the rename, on the object it expects, and its caller is told the truth), mutual exclusion, no torn file; always: every put ends, and nobody builds on a file that does not parse |
| `localfs_race` (violation) | the same | see findings |
| `sync` | 2 callers, 2 updates, 1 foreign update, 2 retries, both modes | the pending count, no forgotten write, sound tokens, a justified replica, flush and drop as barriers; no update is lost until a write has been rejected |
| `sync_liveness` | buffered, 1 caller, 2 updates, 1 foreign update, 1 retry, fair | the buffer drains, flush returns, the replica converges |
| `sync_lost_update` (violation) | buffered, 1 caller, 2 updates, 1 foreign update | see findings |
| `devices` | an app and a CLI, 3 commits, 12 commands that disturb each other | the refinement of `SharedLogbook`; a command takes effect at most once and its client is told the truth; what an app is handed back is what is stored |
| `android` | 2 coroutines, another device, 1 kill, 2 opens, 2 commits, fair | nothing unstored is shown; a coroutine publishes nothing older; display and notification become what is stored |
| `android_cache` (violation) | the same | see findings |

**Bounds.** Overlap, the active pointer and disjointness relate two spans, and an
operation moves one or two of them: three spans are the two related and one to get in
the way, five instants let them be nested, adjacent, equal and apart. Name clashes relate
two names of the same fold, references one span and one project or tag. Of the three names,
"ss" and "SS" differ in case, and "sz" (for ß) is the same as both for `casefold` and
another name for `to_lowercase`, so that the CLI finds entries the core keeps apart. There
the commands are those made of several mutations, each with every project, tag, name or
text that tells them apart: an app's edit that unassigns, keeps or sets the project and
keeps, clears or replaces the tags; a CLI's that creates, adds and takes away. One span is
enough for them, since `logbook_timeline` has the commands that choose among several. In `Provider`
the interesting situation is one caller holding a base (a head, or the result of a GET)
while two others each write once: `MaxEtag = 3` is the three writes, counting those under way; `MaxVersion = 2`
lets a caller expect the version before the first commit, between the two first and after
them, so that commits chain. The proofs of section 4 need neither bound. One PUT at a time is delayed. In `LocalFs` a crashed holder, a reclaimer
and a second reclaimer are three processes, and one crash leaves one lockfile behind; the
proofs of section 4 take any number of either. No live holder is slow there
(`SlowHolders`): against holders that keep outliving the stale age a waiter may remove one
old lockfile after the other for ever, because `acquire_lock` looks at its deadline only
when the lockfile is not stale. In `SyncEngine` two updates are a write and one chained on its prediction, the foreign
update the one that takes the predicted version; one probe at a time is queued, and one
unanswered commit is late. In `Devices` a command that loses to another, and is tried
again, meets what the other left: two commits and a third on top (`MaxVersion = 3`); two
spans are the running one and one to resume, edit or remove. The five instants of the
reports are three dates of two instants (the last begun): a span can lie within one, cross
one midnight or two. In `AndroidApp` the races are between two operations in flight, a
poll, and a cache being loaded; one kill leaves whatever file there was, and the second
`open` reads it. Symmetry is used for interchangeable callers, updates,
projects, tags and passphrases, and never in a run with a liveness property.

**Fairness.** `LocalFs`: a process inside a put keeps running (`WF` on its next step;
crashing excuses it). `SyncEngine`: the worker thread keeps running (`WF`); the
provider's answers vary, but if it is asked for ever it answers some time (`SF` on the
probe and the read that succeed; nothing of the kind is assumed of commits, whose
retries are bounded); a caller finishes the call it is in, and keeps calling `snapshot`,
now and then after the refresh interval (`SF` on the call that sends a probe): without
readers the engine sends no probes, by design, and need not converge. `Converges` further
uses that updates are finite; `PendingDrains` and `FlushReturns` need the worker and the
callers only. `AndroidApp`: the coroutines, the effect, the service's watch and the loads
keep running (`WF`); the mutex is given to whoever waits (`SF`; Kotlin's `Mutex` is fair),
and the polls and the provider's answers come again and again (`SF` on the poll and on the
refresh that succeeds). `DisplayConverges` and `NotificationFollows` say what
follows once the app stays in the foreground, or its service running.

**Deadlock** is checked in the runs of `Logbook`, `Provider` and `LocalFs`. In those of
`SyncEngine` an engine that has been dropped has really stopped; in those of `Devices` and
`AndroidApp` the clients have nothing left to do when the bounds are reached and the
process is gone.

### Findings

1. *validate depends on the order of random ids* (`logbook_ties`, `domain.rs:484`). A
   span stopped or switched away from at the instant it started is empty; another span
   may start at that instant. Sorted by start and then id, if the longer span comes
   first, the adjacent-pairs check reports an overlap, otherwise none. The comment at
   `domain.rs:481` says that after sorting an overlap *always* shows up between adjacent
   spans and `CONTEXT.md:10` that touching boundaries are allowed. The user sees an
   operation succeed and its commit refused, with probability one half.
2. *A buffered commit may overwrite another device's* (`sync_lost_update`,
   `sync.rs:294`). A commit chained on a queued one keeps only the predicted version
   number. If the queued one is rejected (a conflict will do), and another device's
   commit has that number, the chained commit lands on top of it. The module's
   documentation says correctness is never weakened (`sync.rs:21`).
3. *Two reclaimers of a stale lockfile* (`localfs_race`, `blob.rs:156`): the second
   removes the lock the first has just taken; both are inside, and a stale put replaces
   a newer file. `storage.rs:139` says a stale commit always fails.
4. *The cache file is written after the mutex is released* (`android_cache`,
   `LogbookStore.kt:144`). Two operations in flight write it in the opposite order of what
   they display, or at once: the older snapshot stays on disk, or a torn file.
   `LogbookStore.kt:19` says the last snapshot is cached so that the app can render
   offline.

Two remarks without a run. `storage.rs:81` calls the version "an ETag for remote object
storage"; `provider.rs:167` uses the revision for every backend, as its comment says. And
`sync.rs:242` says that `Ok(None)` of `flush` "means every queued write landed": flush
only takes the oldest entry of the failed list after its barrier (`sync.rs:251`), so it
answers `Ok(None)` as well when the rejected write has been taken out by
`take_failed_write` or by another thread's `flush` before. What holds is said by
`FlushIsBarrier` and `NoWriteForgotten` together: once the barrier is passed, every write
accepted before it is stored, or in the failed list, or was handed to whoever took it.

## 4. What is proved

`LogbookProofs` (with the lemmas of `DomainProofs`) proves of `Logbook`, for every set of
ids, integers as instants, any names with any case folding, and any texts:

- `Soundness`: `Spec => []IInv`, where `IInv` is `TypeOK` and `Sound(book)`;
- `TypeCorrectness`, `RecordsOnce`, `ActiveTimerUnique`, `CatalogueAlwaysConsistent`:
  the invariants `TypeOK`, `NoDoubleRecording`, `OneActiveTimer` and
  `CatalogueConsistent` of the two passing logbook runs;
- `MutationsCommit`: `MutationsStayCommittable` (`SoundValidates`: a sound logbook
  without ties passes `validate`);
- `CommandsSoundness`, `RecordedTimeIsSafe`, `EditsAreDone`: the properties of
  whole commands, `CommandsKeepSound`, `RecordedTimeSurvives` and `EditsDoWhatIsAsked`;
- `SpansStayFinite` and `ReportsAreExact`: a logbook has finitely many spans, and
  `ReportsCountOnce`, that every total of every query on it is exact.

*Why a strengthening.* `NoDoubleRecording` speaks of instants, and an empty span covers
none: from it alone one could not show that a later edit of an empty span, checked by
interval comparison, keeps the rest disjoint. `Sound` therefore states disjointness with
the code's own comparison (`SpansDisjoint`), and adds what the operations rely on: the
active pointer names the only span without an end, and ends are not before starts (which
`DisjointRecordsOnce` uses to go back to instants). *The argument.* Each operation
replaces, inserts or removes one span (a switch does two). `PutSpanSound` is the heart: a
span that is free of all the others and well-formed can be put under an id, old or new,
if the active pointer follows. Each `...KeepsSound` lemma shows that an operation's guard
gives `PutSpanSound` its premises; `TimelineKeepsSound` and `CatalogueNextKeepsSound` have
one case per action.

*Assumptions*: span ids and instants are integers, `None` is not among the values it
stands apart from, blank and over-long texts are disjoint sets of texts. They are the
named `ASSUME`s of `Domain`, and TLC evaluates them in every logbook run. The theorems on
commands further use those of `Commands`: span ids are naturals (they are compared with
`-n`); nothing is assumed of `casefold`, not even that it identifies what `to_lowercase` does.

`CommandsProofs` shows of every command, at any clock: from a sound logbook it makes sound
logbooks of the right type (`OutcomesSound`), and a stopped span it was not given is in
them unchanged (`OutcomesKeepRecorded`); `EditsAreDone` follows an edit's mutations one by
one, each of which sets its own fields of the span and leaves the others. Each goes through a command's mutations in
order: resolving names only adds to the catalogue, so the next mutation finds the spans it
found before.

*Reports.* `ReportsCountOnce` compares sums over rows, and sums over the pieces into which
rows are cut at midnights, with the number of instants that count. `SegmentsPartition`
shows that the pieces of a row are apart, cover it, and lie each on one date;
`SecondsCount`, that the seconds of intervals that are apart add up to the number of
instants they cover; `SoundReportsCount` puts these together for a sound logbook, whose
spans are apart by the invariant above. The cutting and the adding are recursive
functions. Induction is done on sets: a nonempty set of finite sets has a smallest one
(`SmallestSet`), so a smallest set of rows, or of instants left to cut, for which the
claim is false leads to a contradiction; that the recursive definitions have a solution at
all is shown the same way, on an explicit one. This is why a logbook must be finite
(`SpansStayFinite`). *Assumptions*: `ClockAssumption` and `CalendarAssumption`, for any
calendar and queries.

*Action properties.* `NeverReopened` and `SwitchesSeamlessly` prove `StoppedStaysStopped`
and `SwitchIsSeamless` from the same invariant: the lemmas before them say, for each
operation, which spans it may touch and how.

`ProviderProofs` proves of `Provider`, for every set of threads, instances, contents and
passphrases, every assignment of threads to instances, and every value of the two bounds:

- `Soundness`: `Spec => []IInv`; `TypeCorrectness` and `HeadsAreTrue`: `TypeOK` and
  `HeadNeverMislabels`;
- `RotationsStay`: `RotationIsNotUndone`;
- `Implementation`: `Spec => ImplementsStore`, that `GenericProvider` implements
  `VersionedStore`.

*Why a strengthening.* That a PUT's ETag is current says that nobody has written since
the caller learned it, but not what the caller learned: `CallSound` says so for every
point of a call. As long as the blob still has the ETag the call holds, the call knows its
revision (and a rekey its content), and the blob opens under the passphrase of the call's
instance; `HeadReadable` says the same of a cached head, from which a commit that skips the
GET takes its ETag, and `DelayedSound` of a PUT left behind. *The argument.* Every write
makes an ETag nobody holds, so after it only the writer's own call has anything to show
(`WriteStep`); a step that writes nothing must leave its own call and its head sound
(`QuietStep`, `HeadKept`). For the refinement, each step maps to one step of
`VersionedStore` or to a stutter: `BeginCommit` is `Submit`, `PutLands` is `Land` (its
premise, that the call expects the stored version, is `CallSound`), the ends of a commit
are `Return`, a late PUT is `LandLate`, a rotation at most `Forget`. *Assumptions*:
a thread belongs to one instance, the empty content is a content, the bounds are naturals,
`None` is not a number; the `ASSUME`s of `Provider`, evaluated by TLC in its run.

`DevicesProofs` proves of `Devices`, for every set of clients and of commands:

- `DevicesSoundness`: `Spec => []` of the inductive invariant; `DevicesTyped`: `TypeOK`;
- `StoredAlwaysSound`: what is stored is a sound logbook, whoever wins;
- `TakesEffectOnce`, `HandsBackWhatIsStored`: `NeverTwice`, `ReturnedIsStored`;
- `ClientsShareOneLogbook`: `Spec => ImplementsSharedLogbook`.

*Why a strengthening.* A commit stores a copy made some time ago. The invariant says of
every copy under way, in a client, in a call, or left behind in the store, that it is sound
and that one command made it from the stored logbook, as long as the store is still at the
version it was made from. A landing, early or late, happens at that very version, so it is
one step of `SharedLogbook`; it raises the version and makes the premise false for every
other copy. *Assumptions*: apps are clients, commands are commands, the bound is a natural.

`LocalFsProofs` proves of `LocalFs`, for any number of processes, payloads and crashes:
`Soundness`, `TypeCorrectness` (`TypeOK`), `OneInside` (`MutualExclusion`), `NoTornFile`
(`NeverTorn`), `StaleCommitsFail` (`StaleCommitFailsUnlessRobbed`) and `Implementation`, that
the lockfile, the temporary file and the rename implement `ConditionalStore`. No theorem has
a hypothesis on the constants: slow holders and any number of reclaimers are included.
`TypeCorrectness` holds without condition, the others until a process inside has been
robbed, so that the two cases of `Robs` are the only holes in the protocol; `localfs_race`
shows one of them. *Why a strengthening.* `LockSound` says that the lockfile that is there
was made by whoever is inside; `JudgedSound` that a lockfile found stale is stale until it
is removed, so that a reclaim that is not a robbery finds nobody inside; `PutSound` that the
data file is what the precondition was checked on, and the temporary file the process's own,
until its rename. `CallsSound` (what a put carries, and that nothing is carried outside one)
holds robbed or not. The refinement adds `KnowsSound`: a process
that has not opened the store, or is bootstrapping it, has seen no object, so that it asks
for `IfAbsent`. Taking the lock, checking and writing the temporary file are stutters, the
rename is `Land`, a failure or a crash before it `Fail` or `Crash`.

`SyncEngineProofs` proves of `SyncEngine`, for every set of callers and updates, both
modes, any number of retries and of probes: `Soundness`, `TypeCorrectness` (`TypeOK`),
`PendingCounts` (`PendingAccurate`), `WritesAreKept` (`NoWriteForgotten`), `TokensTell`
(`TokenSound`), `ReplicaJustified` (`EntryJustified`), `FlushWaits` (`FlushIsBarrier`),
`LossFollowsRejection` (`UpdatesKeptUntilRejection`) and
`WriteThroughIsSafe`: with write-through commits no update is ever lost.
*Why a strengthening.* None of the properties sees the private copies of the threads, and
they are what goes wrong: a caller's snapshot (`CallerSound`), the worker's task, probe
and read (`WorkerSound`), the channel (`QueueSound`), and what is queued behind a barrier
(`BarrierSound`, `FlushedSound`). `PastSound` says that the version tells the stored
snapshot from all that were stored before; `EntrySound`, that a token on the replica is not
newer than the snapshot it labels, which is what makes `TokenSound` survive another
device's commit; `ThroughSound`, that in write-through mode no commit is left to the worker,
and the one that may still land extends what the store held at the version it expects.
`LossFollowsRejection` says how far the second finding goes: as long as no write was
rejected, no update is lost, in either mode. It needs a further invariant, `LossInv`, about
the chain of predictions: each queued commit carries on from a snapshot that the store has
held or that the commits ahead of it in the queue will make it hold (`CommitsExtend`), as
does what a caller has read (`ReadsAreComing`); so the head of the queue carries on from
the stored past, and, when it lands, from the store. A rejection breaks the chain: what was
predicted will not be stored, and the version alone no longer says what it extends.

`AndroidAppProofs` proves of `AndroidApp`, for any number of coroutines and any bounds:
`Soundness`, `TypeCorrectness` (`TypeOK`), `NeverAheadOfStorage` (`NeverAhead`) and
`RefreshKeepsFresher` (`FresherStays`). *Why a strengthening.* The display and the file are
taken from coroutines and loads under way: `HeldTrue` says of all of these that they are
not ahead of the storage, and equal to it at its version; `MutexSound` that one coroutine at a time is between its call and its
publication; `LatestCalled` that what such a coroutine holds is the newest of all.
*Assumptions*: the bounds are naturals, and stopping is a command (the notification offers
it always).

*Only model-checked*: liveness (`PutEnds`, `PendingDrains`, `FlushReturns`, `Converges`,
`DisplayConverges`, `NotificationFollows`), which the prover does not handle. Every safety
property of a passing run is a theorem. The four violation runs are counterexamples and
have nothing to prove.

## 5. What is not modelled

- Cryptography: a payload opens under the passphrase that sealed it and no other.
- S3's wire protocol, request signing and credentials. What a conditional PUT may do to its
  caller is in `Provider`.
- Serialisation and schema migration: a logbook is stored and read back as it is.
- The clock of the file system: the change tokens of two writes within its granularity are
  taken to differ.
- The failing removal of a lockfile: `acquire_lock` would spin.
- The portable configuration (a record exported and imported, with no state) and the
  conformance suite (tests; what they assert is the content of `VersionedStore`).
- The language bindings, which call the modelled methods one to one; configuration,
  completion and time parsing of the CLI; dashboard and exports; the screens of the Android
  app.

The components of `PROJECT.json` marked `partly` or `not_modelled` say what is left out of
each and why, and each of its hazards without a property says so as well.

## 6. The plan

Done, in this order: `Domain` and `Logbook`; `VersionedStore` and `Provider`; `LocalFs`;
`SyncEngine`; the theorems about these; `Commands`, `Devices` and `Reports`; `AndroidApp`;
the theorems about them, on reports last; `ConditionalStore`, its implementation by
`LocalFs`, and the limits of lost updates in `SyncEngine`.

Left, in the order of importance:

1. An abstract specification of the sync engine (a replica that is a snapshot of the store
   or one with commits ahead of it), and the theorem that `SyncEngine` implements it.
2. Removals of the lockfile that fail, and change tokens that come from a coarse clock.
3. The `month` and `year` shortcuts and the client filters of the reports.
4. A larger instance of `AndroidApp`: a second kill, and a change of the storage location.
5. The portable configuration, when it comes to hold more than it does.
