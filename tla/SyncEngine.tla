----------------------------- MODULE SyncEngine -----------------------------
(***************************************************************************)
(* SyncEngine (sync.rs): a replica of the canonical logbook, commits that  *)
(* write through (Sync) or are buffered (Buffered), and one worker thread. *)
(* Every critical section on CacheState and every call to the inner        *)
(* provider is a step; callers, worker and other devices interleave.       *)
(*                                                                         *)
(* The inner provider is taken at its contract (Provider implements        *)
(* VersionedStore): a commit lands in one step against the version it      *)
(* expects, its answer may be lost, and a commit that went unanswered may  *)
(* still land later.  The change token is the stored version: each is      *)
(* distinct as long as the token tells writes apart.  A logbook is the set *)
(* of the updates it contains; a client commits what it last read and one  *)
(* update of its own.                                                      *)
(***************************************************************************)
EXTENDS Naturals, Sequences, FiniteSets

CONSTANTS
    Modes,          \* how an engine may have been built: "Sync", "Buffered"
    Callers,        \* threads that use the engine
    Writes,         \* updates they may commit
    ExtWrites,      \* updates other devices may commit to the same store
    WRITE_RETRIES,
    MaxProbes,      \* bound: probes in the queue at a time
    None

ASSUME ModesAssumption == Modes \subseteq {"Sync", "Buffered"}
ASSUME RetriesAssumption == WRITE_RETRIES \in Nat

VARIABLES
    mode,           \* commit_mode
    store,          \* what the inner provider holds
    entry,          \* the replica: a CachedEntry or None
    queue,          \* the tasks sent to the worker
    pending,        \* commits queued or in flight, as counted
    failed,         \* the failed-writes list
    degraded,       \* a probe error is on record
    worker,         \* where the worker thread is
    caller,         \* where each calling thread is
    closed,         \* the engine is being dropped
    late,           \* an unanswered commit that may still land, or None
    accepted,       \* history: the updates whose commit was taken on
    taken,          \* history: the updates handed back as failed
    past            \* history: the snapshots the store has held

vars == <<mode, store, entry, queue, pending, failed, degraded, worker, caller, closed,
          late, accepted, taken, past>>
canonVars == <<mode, store, late, accepted, taken, past>>

Snapshot == [version : Nat, content : SUBSET (Writes \cup ExtWrites)]

\* A queued or direct commit: the update it makes, and what it submits.
Write == [update : Writes, expected : Nat, content : SUBSET (Writes \cup ExtWrites)]

Entry == [token : Nat \cup {None}, version : Nat, content : SUBSET (Writes \cup ExtWrites)]

Task ==
    [do : {"commit"}, write : Write] \cup [do : {"flush"}, caller : Callers]
        \cup [do : {"probe", "shutdown"}]

ASSUME NoneAssumption == None \notin Nat \cup Snapshot \cup Write \cup Entry

WorkerState ==
    [at : {"idle", "commit", "settle", "probe", "compare", "read", "install", "stopped"},
     write : Write \cup {None}, attempts : 0..WRITE_RETRIES,
     result : {"none", "ok", "conflict", "error"},
     token : Nat \cup {None}, read : Snapshot \cup {None}]

CallerState ==
    [at : {"idle", "coldprobe", "coldread", "coldinstall", "answered", "flushing", "flushed"},
     base : Snapshot \cup {None}, token : Nat \cup {None},
     write : Write \cup {None}, ok : BOOLEAN, before : SUBSET Writes]

Waiting == [at |-> "idle", write |-> None, attempts |-> 0, result |-> "none",
            token |-> None, read |-> None]

Idle == [at |-> "idle", base |-> None, token |-> None, write |-> None,
         ok |-> FALSE, before |-> {}]

Init ==
    /\ mode \in Modes
    /\ store = [version |-> 0, content |-> {}]
    /\ entry = None
    /\ queue = <<>>
    /\ pending = 0
    /\ failed = <<>>
    /\ degraded = FALSE
    /\ worker = Waiting
    /\ caller = [c \in Callers |-> Idle]
    /\ closed = FALSE
    /\ late = None
    /\ accepted = {}
    /\ taken = {}
    /\ past = {store}

----------------------------------------------------------------------------
(* The pieces. *)

Labelled(token, snapshot) ==
    [token |-> token, version |-> snapshot.version, content |-> snapshot.content]

SnapshotOf(e) == [version |-> e.version, content |-> e.content]

\* What a write makes of the store, and the version commit_buffered predicts for it.
Outcome(write) == [version |-> write.expected + 1, content |-> write.content]

Tasks(what) == {i \in DOMAIN queue : queue[i].do = what}

\* The writes the worker has not settled: queued or in flight.
Unsettled ==
    {queue[i].write : i \in Tasks("commit")} \cup ({worker.write} \ {None})

Landed == UNION {s.content : s \in past}

\* Mutant of Expected: the store takes whatever it is sent.
ExpectedAlways(write) == TRUE

\* The inner provider's conditional commit.
Expected(write) == store.version = write.expected

Land(write) ==
    /\ Expected(write)
    /\ store' = Outcome(write)
    /\ past' = past \cup {store'}
    /\ late' = None

\* Nobody waits for a commit any more that the store may still receive. Bound: one at a
\* time; one that expects another version will be refused, and is forgotten.
LeaveBehind(write) ==
    late' = IF late = None /\ Expected(write) THEN write ELSE late

At(c, where) == ~closed /\ caller[c].at = where
Goto(c, state) == caller' = [caller EXCEPT ![c] = state]

WorkerAt(where) == worker.at = where

\* The client's next commit: the snapshot it last read and a new update.
Submitted(c, update) ==
    [update |-> update, expected |-> caller[c].base.version,
     content |-> caller[c].base.content \cup {update}]

MayCommit(c, update) ==
    /\ At(c, "idle")
    /\ caller[c].base # None
    /\ update \notin accepted

----------------------------------------------------------------------------
(* snapshot *)

\* Warm: the entry is served; a probe is sent if the interval has passed and no
\* write is pending.
ServeCached(c) ==
    /\ At(c, "idle")
    /\ entry # None
    /\ Goto(c, [Idle EXCEPT !.base = SnapshotOf(entry)])
    /\ \/ UNCHANGED queue
       \/ /\ pending = 0
          /\ Cardinality(Tasks("probe")) < MaxProbes
          /\ queue' = Append(queue, [do |-> "probe"])
    /\ UNCHANGED <<entry, pending, failed, degraded, worker, closed, canonVars>>

Miss(c) ==
    /\ At(c, "idle")
    /\ entry = None
    /\ Goto(c, [Idle EXCEPT !.at = "coldprobe"])
    /\ UNCHANGED <<entry, queue, pending, failed, degraded, worker, closed, canonVars>>

\* A failed probe leaves the entry without a token.
ColdProbe(c) ==
    /\ At(c, "coldprobe")
    /\ \E token \in {store.version, None} :
           Goto(c, [caller[c] EXCEPT !.at = "coldread", !.token = token])
    /\ UNCHANGED <<entry, queue, pending, failed, degraded, worker, closed, canonVars>>

ColdRead(c) ==
    /\ At(c, "coldread")
    /\ Goto(c, [caller[c] EXCEPT !.at = "coldinstall", !.base = store])
    /\ UNCHANGED <<entry, queue, pending, failed, degraded, worker, closed, canonVars>>

ColdReadFails(c) ==
    /\ At(c, "coldread")
    /\ Goto(c, Idle)
    /\ UNCHANGED <<entry, queue, pending, failed, degraded, worker, closed, canonVars>>

\* Mutant of ColdInstall: the token is probed after the read.
ColdInstallLateToken(c) ==
    /\ At(c, "coldinstall")
    /\ entry' = Labelled(store.version, caller[c].base)
    /\ Goto(c, [Idle EXCEPT !.base = caller[c].base])
    /\ UNCHANGED <<queue, pending, failed, degraded, worker, closed, canonVars>>

\* The cold path installs whatever the replica holds by now.
ColdInstall(c) ==
    /\ At(c, "coldinstall")
    /\ entry' = Labelled(caller[c].token, caller[c].base)
    /\ Goto(c, [Idle EXCEPT !.base = caller[c].base])
    /\ UNCHANGED <<queue, pending, failed, degraded, worker, closed, canonVars>>

----------------------------------------------------------------------------
(* commit *)

\* commit_buffered: a conflict with the replica is reported at once, else the write is
\* installed optimistically and queued.
CommitBuffered(c, update) ==
    LET write == Submitted(c, update)
    IN  /\ mode = "Buffered"
        /\ MayCommit(c, update)
        /\ entry # None => entry.version = write.expected
        /\ entry' = Labelled(None, Outcome(write))
        /\ pending' = pending + 1
        /\ queue' = Append(queue, [do |-> "commit", write |-> write])
        /\ accepted' = accepted \cup {update}
        /\ Goto(c, Idle)
        /\ UNCHANGED <<mode, store, failed, degraded, worker, closed, late, taken, past>>

CommitBufferedConflict(c) ==
    /\ mode = "Buffered"
    /\ At(c, "idle")
    /\ caller[c].base # None
    /\ entry # None
    /\ entry.version # caller[c].base.version
    /\ Goto(c, Idle)
    /\ UNCHANGED <<entry, queue, pending, failed, degraded, worker, closed, canonVars>>

\* commit_sync: the inner commit, then the entry; in between others may install theirs.
CommitSync(c, update) ==
    LET write == Submitted(c, update)
    IN  /\ mode = "Sync"
        /\ MayCommit(c, update)
        /\ accepted' = accepted \cup {update}
        /\ \/ /\ Land(write)
              /\ \E heard \in BOOLEAN :
                     Goto(c, [Idle EXCEPT !.at = "answered", !.write = write,
                                          !.ok = heard])
           \/ /\ Goto(c, [Idle EXCEPT !.at = "answered", !.write = write])
              /\ UNCHANGED late \/ LeaveBehind(write)
              /\ UNCHANGED <<store, past>>
        /\ UNCHANGED <<mode, entry, queue, pending, failed, degraded, worker, closed, taken>>

\* Ok installs the write, any error drops the entry.
SettleSync(c) ==
    /\ At(c, "answered")
    /\ entry' = IF caller[c].ok
                THEN Labelled(None, Outcome(caller[c].write))
                ELSE None
    /\ Goto(c, Idle)
    /\ UNCHANGED <<queue, pending, failed, degraded, worker, closed, canonVars>>

----------------------------------------------------------------------------
(* take_failed_write, flush, Drop *)

PopFailed ==
    IF failed = <<>>
    THEN UNCHANGED <<failed, taken>>
    ELSE failed' = Tail(failed) /\ taken' = taken \cup {Head(failed).update}

TakeFailed(c) ==
    /\ At(c, "idle")
    /\ failed # <<>>
    /\ PopFailed
    /\ UNCHANGED <<mode, store, entry, queue, pending, degraded, worker, caller, closed,
                   late, accepted, past>>

\* Mutant of Flush: the barrier overtakes the queue.
FlushFirst(c) ==
    /\ At(c, "idle")
    /\ queue' = <<[do |-> "flush", caller |-> c]>> \o queue
    /\ Goto(c, [Idle EXCEPT !.at = "flushing", !.before = accepted])
    /\ UNCHANGED <<entry, pending, failed, degraded, worker, closed, canonVars>>

Flush(c) ==
    /\ At(c, "idle")
    /\ queue' = Append(queue, [do |-> "flush", caller |-> c])
    /\ Goto(c, [Idle EXCEPT !.at = "flushing", !.before = accepted])
    /\ UNCHANGED <<entry, pending, failed, degraded, worker, closed, canonVars>>

EndFlush(c) ==
    /\ At(c, "flushed")
    /\ PopFailed
    /\ Goto(c, Idle)
    /\ UNCHANGED <<mode, store, entry, queue, pending, degraded, worker, closed, late,
                   accepted, past>>

\* The last owner drops the engine; the worker is joined.
Drop ==
    /\ ~closed
    /\ \A c \in Callers : At(c, "idle")
    /\ closed' = TRUE
    /\ queue' = Append(queue, [do |-> "shutdown"])
    /\ UNCHANGED <<entry, pending, failed, degraded, worker, caller, canonVars>>

----------------------------------------------------------------------------
(* worker_main: the tasks in order *)

WorkerDoes(state) == worker' = state

Take ==
    /\ WorkerAt("idle")
    /\ queue # <<>>
    /\ queue' = Tail(queue)
    /\ LET task == Head(queue)
       IN  \/ /\ task.do = "commit"
              /\ WorkerDoes([Waiting EXCEPT !.at = "commit", !.write = task.write])
              /\ UNCHANGED caller
           \/ /\ task.do = "probe"
              /\ WorkerDoes([Waiting EXCEPT !.at = "probe"])
              /\ UNCHANGED caller
           \/ /\ task.do = "flush"
              /\ caller' = [caller EXCEPT ![task.caller].at = "flushed"]
              /\ UNCHANGED worker
           \/ /\ task.do = "shutdown"
              /\ WorkerDoes([Waiting EXCEPT !.at = "stopped"])
              /\ UNCHANGED caller
    /\ UNCHANGED <<entry, pending, failed, degraded, closed, canonVars>>

\* drain_commit: Unavailable is retried, any other answer is final.
Answered(result) == WorkerDoes([worker EXCEPT !.at = "settle", !.result = result])

\* Mutant of Unavailable: one retry too many.
UnavailableOnceMore ==
    IF worker.attempts <= WRITE_RETRIES
    THEN WorkerDoes([worker EXCEPT !.attempts = worker.attempts + 1])
    ELSE Answered("error")

\* Mutant of Unavailable: the retries start over and never end.
UnavailableForever ==
    WorkerDoes([worker EXCEPT !.attempts = (worker.attempts + 1) % (WRITE_RETRIES + 1)])

Unavailable ==
    IF worker.attempts < WRITE_RETRIES
    THEN WorkerDoes([worker EXCEPT !.attempts = worker.attempts + 1])
    ELSE Answered("error")

\* The write lands; its answer arrives, or is lost and counts as Unavailable.
DrainLands ==
    /\ WorkerAt("commit")
    /\ Land(worker.write)
    /\ Answered("ok") \/ Unavailable
    /\ UNCHANGED <<mode, entry, queue, pending, failed, degraded, caller, closed,
                   accepted, taken>>

\* It does not: a conflict, no answer, or another error (a blob that does not open).
DrainFails ==
    /\ WorkerAt("commit")
    /\ \/ ~Expected(worker.write) /\ Answered("conflict") /\ UNCHANGED late
       \/ Unavailable /\ LeaveBehind(worker.write)
       \/ Answered("error") /\ UNCHANGED late
    /\ UNCHANGED <<mode, store, entry, queue, pending, failed, degraded, caller, closed,
                   accepted, taken, past>>

\* Mutant of CountedOff: a failed write stays counted.
CountedOffIfOk == IF worker.result = "ok" THEN pending - 1 ELSE pending

CountedOff == IF pending > 0 THEN pending - 1 ELSE 0

\* Mutant of WithoutRejected: the optimistic entry outlives its write.
WithRejected == entry

\* The entry is dropped if it shows the predicted version of the rejected write.
WithoutRejected ==
    IF entry # None /\ entry.version = worker.write.expected + 1 THEN None ELSE entry

\* Mutant of KeptForClient: a conflict is reconciled, and its write forgotten.
KeptUnlessConflict ==
    IF worker.result = "conflict" THEN failed ELSE Append(failed, worker.write)

KeptForClient == Append(failed, worker.write)

\* The write is counted off; a rejected one is kept; a conflict also reconciles (refresh).
Settle ==
    /\ WorkerAt("settle")
    /\ pending' = CountedOff
    /\ IF worker.result = "ok"
       THEN UNCHANGED <<entry, failed>>
       ELSE entry' = WithoutRejected /\ failed' = KeptForClient
    /\ WorkerDoes(IF worker.result = "conflict"
                  THEN [Waiting EXCEPT !.at = "probe"]
                  ELSE Waiting)
    /\ UNCHANGED <<queue, degraded, caller, closed, canonVars>>

----------------------------------------------------------------------------
(* refresh *)

Probe ==
    /\ WorkerAt("probe")
    /\ WorkerDoes([Waiting EXCEPT !.at = "compare", !.token = store.version])
    /\ UNCHANGED <<entry, queue, pending, failed, degraded, caller, closed, canonVars>>

\* The probe, or the read after it, fails: only the status changes.
RefreshFails ==
    /\ worker.at \in {"probe", "read"}
    /\ degraded' = TRUE
    /\ WorkerDoes(Waiting)
    /\ UNCHANGED <<entry, queue, pending, failed, caller, closed, canonVars>>

Compare ==
    /\ WorkerAt("compare")
    /\ degraded' = FALSE
    /\ WorkerDoes(IF entry # None /\ entry.token = worker.token
                  THEN Waiting
                  ELSE [worker EXCEPT !.at = "read"])
    /\ UNCHANGED <<entry, queue, pending, failed, caller, closed, canonVars>>

Read ==
    /\ WorkerAt("read")
    /\ WorkerDoes([worker EXCEPT !.at = "install", !.read = store])
    /\ UNCHANGED <<entry, queue, pending, failed, degraded, caller, closed, canonVars>>

\* newer_or_equal: a newer entry, possibly an optimistic one, stays.
Install ==
    /\ WorkerAt("install")
    /\ entry' = IF entry # None /\ worker.read.version < entry.version
                THEN entry
                ELSE Labelled(worker.token, worker.read)
    /\ WorkerDoes(Waiting)
    /\ UNCHANGED <<queue, pending, failed, degraded, caller, closed, canonVars>>

\* Another device commits to the store.
ExtCommit(update) ==
    /\ update \notin Landed
    /\ store' = [version |-> store.version + 1, content |-> store.content \cup {update}]
    /\ past' = past \cup {store'}
    /\ late' = None
    /\ UNCHANGED <<mode, entry, queue, pending, failed, degraded, worker, caller, closed,
                   accepted, taken>>

\* A commit that nobody waits for lands after all.
LandLate ==
    /\ late # None
    /\ Land(late)
    /\ UNCHANGED <<mode, entry, queue, pending, failed, degraded, worker, caller, closed,
                   accepted, taken>>

----------------------------------------------------------------------------
Worker == Take \/ DrainLands \/ DrainFails \/ Settle
             \/ Probe \/ RefreshFails \/ Compare \/ Read \/ Install

Caller(c) ==
    \/ ServeCached(c) \/ Miss(c) \/ ColdProbe(c) \/ ColdRead(c)
    \/ ColdReadFails(c) \/ ColdInstall(c)
    \/ \E update \in Writes : CommitBuffered(c, update) \/ CommitSync(c, update)
    \/ CommitBufferedConflict(c) \/ SettleSync(c)
    \/ TakeFailed(c) \/ Flush(c) \/ EndFlush(c)

Next ==
    \/ Worker
    \/ \E c \in Callers : Caller(c)
    \/ \E update \in ExtWrites : ExtCommit(update)
    \/ LandLate
    \/ Drop

Spec == Init /\ [][Next]_vars

\* The worker thread keeps running and its provider calls do not fail for ever; a
\* caller finishes what it began and calls snapshot again and again, now and then after
\* the refresh interval.
SendsProbe(c) == ServeCached(c) /\ queue' # queue

Returns(c) == ColdProbe(c) \/ ColdInstall(c) \/ ColdReadFails(c) \/ SettleSync(c) \/ EndFlush(c)

Fairness ==
    /\ WF_vars(Worker) /\ SF_vars(Probe) /\ SF_vars(Read)
    /\ \A c \in Callers : /\ WF_vars(Returns(c)) /\ SF_vars(ColdRead(c))
                          /\ SF_vars(Miss(c)) /\ SF_vars(SendsProbe(c))

FairSpec == Spec /\ Fairness

----------------------------------------------------------------------------
(* What the engine promises. *)

TypeOK ==
    /\ mode \in Modes
    /\ store \in Snapshot
    /\ entry \in Entry \cup {None}
    /\ queue \in Seq(Task)
    /\ pending \in Nat
    /\ failed \in Seq(Write)
    /\ degraded \in BOOLEAN
    /\ worker \in WorkerState
    /\ caller \in [Callers -> CallerState]
    /\ closed \in BOOLEAN
    /\ late \in Write \cup {None}
    /\ accepted \subseteq Writes
    /\ taken \subseteq Writes
    /\ past \subseteq Snapshot

\* The counter that suppresses probes and that clients poll counts exactly the commits
\* queued or in flight.
PendingAccurate ==
    pending = Cardinality(Tasks("commit")) + (IF worker.at \in {"commit", "settle"} THEN 1 ELSE 0)

\* A buffered write that was taken on is queued, in flight, stored, or kept for the
\* client (take_failed_write, flush): no failure, retry or refresh makes one vanish.
NoWriteForgotten ==
    mode = "Buffered" =>
        accepted \subseteq {write.update : write \in Unsettled}
                           \cup {failed[i].update : i \in DOMAIN failed}
                           \cup taken \cup Landed

\* While its token is the store's, the entry is the store's snapshot: a probe that finds
\* the token unchanged (refresh) may skip the read. The cold path probes before it reads
\* for this, and commits stamp no token.
TokenSound ==
    entry # None /\ entry.token = store.version => SnapshotOf(entry) = store

\* The replica shows a snapshot the store has held, or the optimistic one of a write that
\* is still queued or in flight: never a write that was rejected.
EntryJustified ==
    entry # None =>
        SnapshotOf(entry) \in past \cup {Outcome(write) : write \in Unsettled}

\* When flush is acknowledged, every write taken on before it has been settled; when the
\* worker has stopped (Drop), every write has.
FlushIsBarrier ==
    /\ \A c \in Callers : caller[c].at = "flushed" =>
           caller[c].before \cap {write.update : write \in Unsettled} = {}
    /\ worker.at = "stopped" => queue = <<>> /\ Unsettled = {}

\* "Correctness is never weakened - the underlying conditional write still rejects stale
\* expected versions" (sync.rs): a write the store takes on keeps every update made before.
NoLostUpdate == [][store.content \subseteq store'.content]_vars

\* It is true until a write is rejected: what a client read may be outdated, optimistic or
\* its answer lost, but as long as no write failed, each that lands contains what the store
\* holds. A commit that writes through (MemoryCachingProvider) is never rejected later on.
UpdatesKeptUntilRejection ==
    [][failed = <<>> /\ taken = {} => store.content \subseteq store'.content]_vars

\* Every buffered write is settled in the end: retries are bounded.
PendingDrains == []<>(pending = 0)

\* flush returns, whatever the provider does.
FlushReturns == \A c \in Callers : caller[c].at = "flushing" ~> caller[c].at = "idle"

\* Once other devices and callers stop writing, the replica becomes the stored logbook and
\* stays so, whatever was lost, rejected or installed out of order on the way.
Converges == <>[](closed \/ (entry # None /\ SnapshotOf(entry) = store))
=============================================================================
