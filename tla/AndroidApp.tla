----------------------------- MODULE AndroidApp -----------------------------
(***************************************************************************)
(* The Android app around CoswStore: LogbookStore (the snapshot on         *)
(* display, its copy on disk, one coroutine per operation), the foreground *)
(* service whose notification shows the running timer, and the activity    *)
(* that starts and stops it.  Android may kill the process at any time.    *)
(*                                                                         *)
(* A command of CoswStore is one step here (Devices shows why), or an      *)
(* error that leaves open whether it took effect.  Of a snapshot, the      *)
(* version and the running span are kept; a span is the version that       *)
(* started it.  Error messages are left out.  One storage location.        *)
(***************************************************************************)
EXTENDS Naturals, FiniteSets

CONSTANTS
    Jobs,           \* coroutines that may be under way at a time (a bound)
    Commands,       \* what users do, here and on other devices: start, stop, switch, edit
    None,
    Unset,          \* LaunchedEffect has not run yet in this activity
    Torn,           \* a cache file that does not parse
    MaxVersion,     \* bound: commits, of this app and of other devices
    MaxKills,       \* bound: times the process is killed
    MaxOpens        \* bound: calls of open()

ASSUME BoundAssumption == MaxVersion \in Nat /\ MaxKills \in Nat /\ MaxOpens \in Nat
\* The notification always offers to stop the timer.
ASSUME CommandAssumption ==
    "stop" \in Commands /\ Commands \subseteq {"start", "stop", "switch", "edit"}

VARIABLES
    remote,         \* the stored logbook
    cacheFile,      \* the last snapshot on disk: a Snapshot, None or Torn
    alive,          \* the process exists
    opened,         \* LogbookStore.store is not null
    snapshot,       \* the snapshot on display
    jobs,           \* per coroutine: where it is
    loading,        \* the main thread, between reading the cache file and publishing it
    foreground,     \* the activity is on screen, and syncJob active
    effect,         \* what LaunchedEffect last ran for: an activeSpanId, None or Unset
    service,        \* the span TimerService shows, None if it does not run
    ending,         \* the watcher has seen no timer and is about to call stopSelf
    restore,        \* a START_STICKY restart has yet to deliver its null intent
    kills, opens

disk == <<remote, cacheFile>>
ui == <<foreground, effect, service, ending, restore>>
bounds == <<kills, opens>>
vars == <<disk, alive, opened, snapshot, jobs, loading, ui, bounds>>

Snapshot == [version : Nat, active : Nat \cup {None}]

Idle == [at |-> "idle"]
NotLoading == [at |-> "none"]
Job == {Idle} \cup [at : {"opening"}]
       \cup [at : {"queued", "calling"}, op : {"refresh"} \cup Commands]
       \cup [at : {"called", "installed", "writing", "loading"}, result : Snapshot]

Init ==
    /\ remote = [version |-> 0, active |-> None]
    /\ cacheFile = None
    /\ alive = FALSE /\ opened = FALSE /\ snapshot = None
    /\ jobs = [j \in Jobs |-> Idle]
    /\ loading = NotLoading
    /\ foreground = FALSE /\ effect = Unset /\ service = None
    /\ ending = FALSE /\ restore = FALSE
    /\ kills = 0 /\ opens = 0

----------------------------------------------------------------------------
(* LogbookStore *)

JobAt(j, where) == jobs[j].at = where
JobDoes(j, state) == jobs' = [jobs EXCEPT ![j] = state]

\* Mutant of MutexFree: the calls of two coroutines overlap.
NoMutex == TRUE

\* opMutex.withLock, around the call and the publication of its result.
MutexFree == \A j \in Jobs : jobs[j].at \notin {"calling", "called"}

\* runOp, once the store is there: a coroutine is launched.
RunOp(op) ==
    /\ opened
    /\ \E j \in Jobs :
           /\ JobAt(j, "idle")
           /\ JobDoes(j, [at |-> "queued", op |-> op])

\* Mutant of Readable: what does not parse is published all the same.
Present == cacheFile # None

\* loadCache: nothing, if there is no file or it does not parse.
Readable == cacheFile \notin {None, Torn}

\* open(): with settings it is a coroutine, without them the cache is shown.
Open ==
    /\ opens < MaxOpens
    /\ opens' = opens + 1
    /\ \/ /\ \E j \in Jobs : JobAt(j, "idle") /\ JobDoes(j, [at |-> "opening"])
          /\ UNCHANGED loading
       \/ /\ loading' = IF Readable THEN [at |-> "open", result |-> cacheFile] ELSE NotLoading
          /\ UNCHANGED jobs

OpenSucceeds(j) ==
    /\ JobAt(j, "opening")
    /\ opened' = TRUE
    /\ JobDoes(j, [at |-> "queued", op |-> "refresh"])
    /\ UNCHANGED <<disk, alive, snapshot, loading, ui, bounds>>

OpenFails(j) ==
    /\ JobAt(j, "opening")
    /\ JobDoes(j, IF Readable THEN [at |-> "loading", result |-> cacheFile] ELSE Idle)
    /\ UNCHANGED <<disk, alive, opened, snapshot, loading, ui, bounds>>

LoadAfterFailure(j) ==
    /\ JobAt(j, "loading")
    /\ snapshot' = jobs[j].result
    /\ JobDoes(j, Idle)
    /\ UNCHANGED <<disk, alive, opened, loading, ui, bounds>>

Lock(j) ==
    /\ JobAt(j, "queued")
    /\ MutexFree
    /\ JobDoes(j, [jobs[j] EXCEPT !.at = "calling"])
    /\ UNCHANGED <<disk, alive, opened, snapshot, loading, ui, bounds>>

\* Does the command apply? edit and its like touch no timer; cancel is like stop here.
Applies(op) ==
    /\ op = "start" => remote.active = None
    /\ op = "stop" => remote.active # None

After(op) == [version |-> remote.version + 1,
              active |-> CASE op = "edit" -> remote.active
                           [] op = "stop" -> None
                           [] OTHER -> remote.version + 1]

\* Every command but refresh commits a new version.
TakesEffect(op) ==
    IF op = "refresh" THEN UNCHANGED remote
    ELSE /\ remote.version < MaxVersion
         /\ Applies(op)
         /\ remote' = After(op)

\* Mutant of CallSucceeds: the outcome is shown although the commit may have failed.
ShownBeforeCommit(j) ==
    /\ JobAt(j, "calling")
    /\ UNCHANGED remote \/ TakesEffect(jobs[j].op)
    /\ JobDoes(j, [at |-> "called",
                   result |-> IF jobs[j].op = "refresh" THEN remote ELSE After(jobs[j].op)])
    /\ UNCHANGED <<cacheFile, alive, opened, snapshot, loading, ui, bounds>>

CallSucceeds(j) ==
    /\ JobAt(j, "calling")
    /\ TakesEffect(jobs[j].op)
    /\ JobDoes(j, [at |-> "called", result |-> remote'])
    /\ UNCHANGED <<cacheFile, alive, opened, snapshot, loading, ui, bounds>>

Refreshes(j) == CallSucceeds(j) /\ jobs[j].op = "refresh"

\* Refused, offline, or without an answer.
CallFails(j) ==
    /\ JobAt(j, "calling")
    /\ UNCHANGED remote \/ TakesEffect(jobs[j].op)
    /\ JobDoes(j, Idle)
    /\ UNCHANGED <<cacheFile, alive, opened, snapshot, loading, ui, bounds>>

\* The result is published and the mutex released.
Install(j) ==
    /\ JobAt(j, "called")
    /\ snapshot' = jobs[j].result
    /\ JobDoes(j, [jobs[j] EXCEPT !.at = "installed"])
    /\ UNCHANGED <<disk, alive, opened, loading, ui, bounds>>

\* cacheFile.writeText truncates the file, then writes it.
TruncateCache(j) ==
    /\ JobAt(j, "installed")
    /\ cacheFile' = Torn
    /\ JobDoes(j, [jobs[j] EXCEPT !.at = "writing"])
    /\ UNCHANGED <<remote, alive, opened, snapshot, loading, ui, bounds>>

\* What another coroutine has written in between may stick out behind.
WriteCache(j) ==
    /\ JobAt(j, "writing")
    /\ \/ cacheFile' = jobs[j].result
       \/ cacheFile \notin {Torn, jobs[j].result} /\ cacheFile' = Torn
    /\ JobDoes(j, Idle)
    /\ UNCHANGED <<remote, alive, opened, snapshot, loading, ui, bounds>>

JobNext(j) ==
    \/ OpenSucceeds(j) \/ OpenFails(j) \/ LoadAfterFailure(j) \/ Lock(j)
    \/ CallSucceeds(j) \/ CallFails(j) \/ Install(j)
    \/ TruncateCache(j) \/ WriteCache(j)

----------------------------------------------------------------------------
(* The main thread: the process, the activity and the service.  It does one *)
(* thing at a time, so that nothing else happens while it loads the cache.  *)

MainFree == alive /\ loading.at = "none"

\* The service shows what it is given, or ends, and the watcher's plans with it.
ServiceShows(active) ==
    /\ service' = active
    /\ ending' = (ending /\ active # None)

HasActive == snapshot # None /\ snapshot.active # None

\* CoswApp.onCreate, at the user's wish or to restart the service.
StartProcess ==
    /\ ~alive
    /\ alive' = TRUE
    /\ Open
    /\ UNCHANGED <<disk, opened, snapshot, ui, kills>>

\* Everything but the storage and the file is gone; a service that ran is restarted.
Kill ==
    /\ alive /\ kills < MaxKills
    /\ kills' = kills + 1
    /\ alive' = FALSE /\ opened' = FALSE /\ snapshot' = None
    /\ jobs' = [j \in Jobs |-> Idle]
    /\ loading' = NotLoading
    /\ foreground' = FALSE /\ effect' = Unset /\ ServiceShows(None)
    /\ restore' = (restore \/ service # None)
    /\ UNCHANGED <<disk, opens>>

\* The settings are saved.
Reopen ==
    /\ MainFree /\ foreground
    /\ Open
    /\ UNCHANGED <<disk, alive, opened, snapshot, ui, kills>>

\* A button: the operation runs if the store is there, and nothing happens otherwise.
Tap(op) ==
    /\ MainFree /\ foreground
    /\ RunOp(op)
    /\ UNCHANGED <<disk, alive, opened, snapshot, loading, ui, bounds>>

\* ON_START refreshes and starts the periodic sync; the activity may be a new one.
ToForeground ==
    /\ MainFree /\ ~foreground
    /\ foreground' = TRUE
    /\ effect' \in {effect, Unset}
    /\ IF opened THEN RunOp("refresh") ELSE UNCHANGED jobs
    /\ UNCHANGED <<disk, alive, opened, snapshot, loading,
                   service, ending, restore, bounds>>

ToBackground ==
    /\ MainFree /\ foreground
    /\ foreground' = FALSE
    /\ UNCHANGED <<disk, alive, opened, snapshot, jobs, loading,
                   effect, service, ending, restore, bounds>>

\* Mutant of Poll: the activity does not poll, only the service does.
PollByService ==
    /\ alive /\ service # None
    /\ RunOp("refresh")
    /\ UNCHANGED <<disk, alive, opened, snapshot, loading, ui, bounds>>

\* The interval of syncJob, or of TimerService's pollJob, has passed.
Poll ==
    /\ alive
    /\ foreground \/ service # None
    /\ RunOp("refresh")
    /\ UNCHANGED <<disk, alive, opened, snapshot, loading, ui, bounds>>

\* LaunchedEffect(snapshot?.activeSpanId): the service is started or stopped.
RunEffect ==
    LET active == IF HasActive THEN snapshot.active ELSE None
    IN  /\ MainFree /\ foreground
        /\ effect # active
        /\ effect' = active
        /\ ServiceShows(active)
        /\ UNCHANGED <<disk, alive, opened, snapshot, jobs, loading,
                       foreground, restore, bounds>>

\* Mutant of Watch: the watcher only looks for the end of the timer.
WatchForEnd ==
    /\ alive /\ service # None /\ ~ending
    /\ snapshot # None /\ snapshot.active = None
    /\ ending' = TRUE
    /\ UNCHANGED <<disk, alive, opened, snapshot, jobs, loading,
                   foreground, effect, service, restore, bounds>>

\* watchJob, a coroutine: the notification follows the snapshot, and goes when the timer
\* does.
Watch ==
    /\ alive /\ service # None /\ ~ending
    /\ snapshot # None /\ snapshot.active # service
    /\ IF snapshot.active = None
       THEN ending' = TRUE /\ UNCHANGED service
       ELSE ServiceShows(snapshot.active)
    /\ UNCHANGED <<disk, alive, opened, snapshot, jobs, loading,
                   foreground, effect, restore, bounds>>

\* Its stopSelf, which ends the service whatever has been published and shown since.
StopSelf ==
    /\ ending
    /\ ServiceShows(None)
    /\ UNCHANGED <<disk, alive, opened, snapshot, jobs, loading,
                   foreground, effect, restore, bounds>>

\* ACTION_STOP on the notification: the service goes whatever becomes of the operation.
TapStop ==
    /\ MainFree /\ service # None
    /\ ServiceShows(None)
    /\ IF HasActive /\ opened THEN RunOp("stop") ELSE UNCHANGED jobs
    /\ UNCHANGED <<disk, alive, opened, snapshot, loading,
                   foreground, effect, restore, bounds>>

\* restoreNotification, when the service is restarted without its extras: cachedSnapshot
\* falls back to the file if nothing is on display yet.
Restore ==
    /\ MainFree /\ restore
    /\ restore' = FALSE
    /\ IF snapshot = None /\ Readable
       THEN loading' = [at |-> "restore", result |-> cacheFile] /\ UNCHANGED <<service, ending>>
       ELSE ServiceShows(IF HasActive THEN snapshot.active ELSE None) /\ UNCHANGED loading
    /\ UNCHANGED <<disk, alive, opened, snapshot, jobs,
                   foreground, effect, bounds>>

\* loadCache publishes what it read, whatever is on display by now.
Loaded ==
    /\ loading.at # "none"
    /\ snapshot' = loading.result
    /\ loading' = NotLoading
    /\ ServiceShows(IF loading.at = "restore" THEN loading.result.active ELSE service)
    /\ UNCHANGED <<disk, alive, opened, jobs,
                   foreground, effect, restore, bounds>>

\* Another device commits.
OtherDevice ==
    /\ \E op \in Commands : TakesEffect(op)
    /\ UNCHANGED <<cacheFile, alive, opened, snapshot, jobs, loading,
                   ui, bounds>>

----------------------------------------------------------------------------
MainNext == StartProcess \/ Kill \/ Reopen \/ (\E op \in Commands : Tap(op))
                \/ ToForeground \/ ToBackground \/ RunEffect \/ TapStop \/ Restore \/ Loaded

Next == MainNext \/ Poll \/ Watch \/ StopSelf \/ OtherDevice \/ \E j \in Jobs : JobNext(j)

Spec == Init /\ [][Next]_vars

\* The threads run; the provider answers again and again; the poll loops keep their pace.
Fairness ==
    /\ WF_vars(RunEffect) /\ WF_vars(Watch) /\ WF_vars(StopSelf)
    /\ WF_vars(Loaded) /\ WF_vars(Restore)
    /\ SF_vars(Poll)
    /\ \A j \in Jobs :
           /\ WF_vars(JobNext(j)) /\ SF_vars(Lock(j))
           /\ SF_vars(Refreshes(j))

FairSpec == Spec /\ Fairness

----------------------------------------------------------------------------
(* What the app promises. *)

TypeOK ==
    /\ remote \in Snapshot
    /\ cacheFile \in Snapshot \cup {None, Torn}
    /\ {alive, opened, foreground, ending, restore} \subseteq BOOLEAN
    /\ snapshot \in Snapshot \cup {None}
    /\ jobs \in [Jobs -> Job]
    /\ loading \in {NotLoading} \cup [at : {"open", "restore"}, result : Snapshot]
    /\ effect \in Nat \cup {None, Unset}
    /\ service \in Nat \cup {None}
    /\ kills \in 0..MaxKills /\ opens \in 0..MaxOpens

\* "a refresh whose read started before a mutation's commit must not overwrite the
\* mutation's fresher result" (runOp): of the coroutines, none publishes a snapshot older
\* than the one on display, although they finish their calls at different speeds.
FresherStays ==
    [][snapshot # None /\ (\E j \in Jobs : JobAt(j, "called") /\ jobs'[j].at = "installed") =>
           snapshot.version <= snapshot'.version]_vars

\* Nothing the app shows, is about to show or has kept on disk is ahead of the storage:
\* a commit that failed is never shown as done.
NeverAhead ==
    \A s \in {snapshot, cacheFile} \cup {jobs[j].result : j \in {i \in Jobs :
                 jobs[i].at \in {"called", "installed", "writing", "loading"}}} :
        s \notin {None, Torn} =>
            /\ s.version <= remote.version
            /\ s.version = remote.version => s = remote

\* While the app polls, the display becomes what is stored and stays so, although the
\* cache may have put an older snapshot over a fresher one (loadCache).
DisplayConverges == <>[](alive /\ opened /\ foreground) => <>[](snapshot = remote)

\* "a timer stopped on another device clears the notification even when the app UI is in
\* the background, and a remote switch updates the label" (TimerService).
NotificationFollows ==
    <>[](alive /\ opened /\ service # None) => <>[](service = remote.active)

\* "the last snapshot is cached to disk" (LogbookStore): once no operation is under way,
\* the file holds what is on display.
CacheIsLast ==
    alive /\ snapshot # None /\ loading.at = "none" /\ (\A j \in Jobs : JobAt(j, "idle")) =>
        cacheFile = snapshot
=============================================================================
