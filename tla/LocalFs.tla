------------------------------ MODULE LocalFs -------------------------------
(***************************************************************************)
(* LocalFsBlobStore (blob.rs) and the bootstrap of LocalFsProvider         *)
(* (storage.rs): processes that share a data file through a lockfile made  *)
(* with create_new, a temporary file and a rename.  Every file-system call *)
(* is a step, and a process may crash between any two.                     *)
(*                                                                         *)
(* A payload stands for the bytes put and for their ETag (a content hash). *)
(* Time is only what it does to the lockfile: it ages into a stale one.    *)
(***************************************************************************)
EXTENDS Naturals

CONSTANTS
    Procs,
    Payloads,       \* what puts may write; each is written by one put
    Empty,          \* the bootstrapped logbook, the same bytes from every process
    Torn,           \* a data file that holds no complete payload
    None,
    SlowHolders,    \* may a live process hold the lock beyond the stale age?
    MaxCrashes      \* bound

ASSUME PayloadAssumption ==
    /\ Empty \notin Payloads /\ None \notin Payloads /\ Torn \notin Payloads
    /\ Empty # None /\ Torn # None /\ Torn # Empty
ASSUME NoneAssumption ==
    None \notin [by : Procs, stale : BOOLEAN] /\ None \notin [payload : Payloads \cup {Empty}, whole : BOOLEAN]
ASSUME SlowAssumption == SlowHolders \in BOOLEAN
ASSUME CrashAssumption == MaxCrashes \in Nat

VARIABLES file, lock, tmp, proc, used, crashes

\* History, which no guard reads: the processes that have found the lockfile that is there
\* stale, and whether a process inside has lost its lockfile to a reclaim (Robs).
VARIABLES judged, robbed

history == <<judged, robbed>>
vars == <<file, lock, tmp, proc, used, crashes, history>>

Bytes == Payloads \cup {Empty}

Lockfile == [by : Procs, stale : BOOLEAN]
TmpFile == [payload : Bytes, whole : BOOLEAN]

\* A process: where it is, the ETag it last saw, and the put it is in.
Closed == [at |-> "closed", seen |-> None, base |-> None, payload |-> None]

Waiting == {"acquire", "reclaim"}
Critical == {"check", "create", "write", "rename", "release", "abort"}

Init ==
    /\ file = None
    /\ lock = None
    /\ tmp = None
    /\ proc = [p \in Procs |-> Closed]
    /\ used = {}
    /\ crashes = 0
    /\ judged = {}
    /\ robbed = FALSE

At(p, where) == proc[p].at = where
Goto(p, where) == proc' = [proc EXCEPT ![p].at = where]

\* The call ends; what the process has seen stays in its cached head.
Return(p, where) ==
    proc' = [proc EXCEPT ![p] = [Closed EXCEPT !.at = where, !.seen = proc[p].seen]]

Holding(p) == proc[p].at \in Critical

\* A bootstrap that fails, unless by Conflict, is an open that fails.
Bootstraps(p) == proc[p].payload = Empty

----------------------------------------------------------------------------
(* LocalFsProvider::with_options, get, and the start of a put. *)

\* An existing file is left alone, a missing one is bootstrapped with IfAbsent.
Open(p) ==
    /\ At(p, "closed")
    /\ proc' = [proc EXCEPT ![p] =
                    IF file = None
                    THEN [Closed EXCEPT !.at = "acquire", !.payload = Empty]
                    ELSE [Closed EXCEPT !.at = "open"]]
    /\ UNCHANGED <<file, lock, tmp, used, crashes, history>>

\* Mutant of Get: the ETag is kept before the bytes are known to parse.
GetUnparsed(p) ==
    /\ At(p, "open")
    /\ proc' = [proc EXCEPT ![p].seen = file]
    /\ UNCHANGED <<file, lock, tmp, used, crashes, history>>

\* A read keeps the ETag of what it could parse (GenericProvider::read); otherwise it is an
\* error and leaves everything as it was.
Get(p) ==
    /\ At(p, "open")
    /\ proc' = [proc EXCEPT ![p].seen = IF file = Torn THEN @ ELSE file]
    /\ UNCHANGED <<file, lock, tmp, used, crashes, history>>

\* put with IfMatch of an ETag seen earlier.
Put(p, payload) ==
    /\ At(p, "open")
    /\ proc[p].seen # None
    /\ payload \notin used
    /\ proc' = [proc EXCEPT ![p] = [at |-> "acquire", seen |-> None,
                                    base |-> proc[p].seen, payload |-> payload]]
    /\ used' = used \cup {payload}
    /\ UNCHANGED <<file, lock, tmp, crashes, history>>

----------------------------------------------------------------------------
(* acquire_lock *)

CreateNew(p) ==
    /\ At(p, "acquire")
    /\ lock = None
    /\ lock' = [by |-> p, stale |-> FALSE]
    /\ Goto(p, "check")
    /\ UNCHANGED <<file, tmp, used, crashes, history>>

\* Mutant of SeesStale: any lockfile in the way is taken for abandoned.
SeesAny(p) ==
    /\ At(p, "acquire")
    /\ lock # None
    /\ Goto(p, "reclaim")
    /\ judged' = judged \cup {p}
    /\ UNCHANGED <<file, lock, tmp, used, crashes, robbed>>

\* create_new failed and the lockfile's age is over the limit ...
SeesStale(p) ==
    /\ At(p, "acquire")
    /\ lock # None
    /\ lock.stale
    /\ Goto(p, "reclaim")
    /\ judged' = judged \cup {p}
    /\ UNCHANGED <<file, lock, tmp, used, crashes, robbed>>

\* The lockfile p removes is that of a process inside: either it is not the one p has
\* looked at, which somebody else has removed since, or it has grown old in use.
Robs(p) ==
    /\ lock # None
    /\ Holding(lock.by)
    /\ p \in judged => lock.stale

\* ... so whatever lockfile is there by now is removed; then create_new again.
Reclaim(p) ==
    /\ At(p, "reclaim")
    /\ lock' = None
    /\ Goto(p, "acquire")
    /\ judged' = {}
    /\ robbed' = (robbed \/ Robs(p))
    /\ UNCHANGED <<file, tmp, used, crashes>>

\* Mutant of GiveUp: the deadline is never looked at.
GiveUpNever(p) == FALSE

\* The deadline passes: Locked. A stale lockfile is removed rather than waited for; the one
\* that was in the way may be gone by now. (create_new failing otherwise ends the call as well.)
GiveUp(p) ==
    /\ At(p, "acquire")
    /\ lock # None => ~lock.stale
    /\ Return(p, IF Bootstraps(p) THEN "closed" ELSE "open")
    /\ UNCHANGED <<file, lock, tmp, used, crashes, history>>

----------------------------------------------------------------------------
(* put, under the lock *)

\* Mutant of Matches: the precondition is not looked at.
MatchesAlways(p) == TRUE

\* The precondition, IfAbsent or IfMatch: base is None for IfAbsent.
Matches(p) == file = proc[p].base

Check(p) ==
    /\ At(p, "check")
    /\ Goto(p, IF Matches(p) THEN "create" ELSE "release")
    /\ UNCHANGED <<file, lock, tmp, used, crashes, history>>

\* Mutant of CreateTmp: the file is renamed without waiting for its bytes.
CreateTmpOnly(p) ==
    /\ At(p, "create")
    /\ tmp' = [payload |-> proc[p].payload, whole |-> FALSE]
    /\ Goto(p, "rename")
    /\ UNCHANGED <<file, lock, used, crashes, history>>

\* File::create truncates what a crashed process may have left.
CreateTmp(p) ==
    /\ At(p, "create")
    /\ tmp' = [payload |-> proc[p].payload, whole |-> FALSE]
    /\ Goto(p, "write")
    /\ UNCHANGED <<file, lock, used, crashes, history>>

\* write_all and sync_all complete the file. Two processes share it only once one of them
\* has been robbed: what goes into a file another has truncated or renamed by then is left out.
WriteTmp(p) ==
    /\ At(p, "write")
    /\ tmp' = IF tmp # None /\ tmp.payload = proc[p].payload
              THEN [tmp EXCEPT !.whole = TRUE]
              ELSE tmp
    /\ Goto(p, "rename")
    /\ UNCHANGED <<file, lock, used, crashes, history>>

\* The new ETag is returned: the caller's next put may build on it. A bootstrap drops it.
Rename(p) ==
    /\ At(p, "rename")
    /\ tmp # None
    /\ file' = IF tmp.whole THEN tmp.payload ELSE Torn
    /\ tmp' = None
    /\ proc' = [proc EXCEPT ![p].at = "release",
                            ![p].seen = IF Bootstraps(p) THEN None ELSE proc[p].payload]
    /\ UNCHANGED <<lock, used, crashes, history>>

\* An I/O error ends the put; the guard is dropped as usual.
PutFails(p) ==
    /\ proc[p].at \in {"check", "create", "write", "rename"}
    /\ Goto(p, IF Bootstraps(p) THEN "abort" ELSE "release")
    /\ UNCHANGED <<file, lock, tmp, used, crashes, history>>

\* LockGuard::drop removes the lockfile at the path, whoever made it.
Release(p) ==
    /\ proc[p].at \in {"release", "abort"}
    /\ lock' = None
    /\ judged' = {}
    /\ Return(p, IF At(p, "abort") THEN "closed" ELSE "open")
    /\ UNCHANGED <<file, tmp, used, crashes, robbed>>

----------------------------------------------------------------------------
(* The environment. *)

\* The process dies where it stands: its lockfile and temporary file stay.
Crash(p) ==
    /\ crashes < MaxCrashes
    /\ ~At(p, "closed")
    /\ proc' = [proc EXCEPT ![p] = Closed]
    /\ crashes' = crashes + 1
    /\ judged' = judged \ {p}
    /\ UNCHANGED <<file, lock, tmp, used, robbed>>

\* The lockfile passes the stale age, 30 s: that of a live holder only where these may be slow.
Age ==
    /\ lock # None
    /\ SlowHolders \/ ~Holding(lock.by)
    /\ lock' = [lock EXCEPT !.stale = TRUE]
    /\ UNCHANGED <<file, tmp, proc, used, crashes, history>>

----------------------------------------------------------------------------
AcquireNext(p) == CreateNew(p) \/ SeesStale(p) \/ Reclaim(p) \/ GiveUp(p)

PutNext(p) ==
    \/ Check(p) \/ CreateTmp(p) \/ WriteTmp(p) \/ Rename(p) \/ PutFails(p) \/ Release(p)

Next ==
    \/ \E p \in Procs :
           \/ Open(p) \/ Get(p) \/ (\E payload \in Payloads : Put(p, payload))
           \/ AcquireNext(p) \/ PutNext(p) \/ Crash(p)
    \/ Age

\* A process in a put keeps running.
Spec == Init /\ [][Next]_vars
FairSpec == Spec /\ \A p \in Procs : WF_vars(AcquireNext(p) \/ PutNext(p))

----------------------------------------------------------------------------
(* What the store promises. *)

\* The types: nobody ever builds on a file it could not parse, and who is said to have found
\* the lockfile stale is about to remove what is there.
TypeOK ==
    /\ file \in Bytes \cup {None, Torn}
    /\ lock \in Lockfile \cup {None}
    /\ tmp \in TmpFile \cup {None}
    /\ proc \in [Procs -> [at : {"closed", "open"} \cup Waiting \cup Critical,
                           seen : Bytes \cup {None}, base : Bytes \cup {None},
                           payload : Bytes \cup {None}]]
    /\ used \subseteq Payloads
    /\ crashes \in 0..MaxCrashes
    /\ judged \subseteq {p \in Procs : At(p, "reclaim")}
    /\ robbed \in BOOLEAN

\* One process at a time is between acquire_lock and the drop of its guard, and while one
\* is, the lockfile is its own, wherever processes die and however many find a lockfile
\* stale: until a reclaim robs one inside, the one way in which the exclusion is lost.
MutualExclusion ==
    ~robbed =>
        \A p \in Procs : Holding(p) =>
            /\ lock # None
            /\ lock.by = p
            /\ \A q \in Procs : Holding(q) => q = p

\* A put changes the file only where its precondition still holds at the rename.
Honoured == file' # file => \E p \in Procs : /\ At(p, "rename")
                                             /\ proc'[p].at = "release"
                                             /\ file = proc[p].base

\* "A stale commit always fails with Conflict" (storage.rs:139-141), said of every behaviour.
StaleCommitFails == [][Honoured]_vars

\* ... and what is true of it: it fails until a process inside has been robbed.
StaleCommitFailsUnlessRobbed == [][~robbed => Honoured]_vars

\* Whatever crashes, the data file holds one complete payload, once it is there: the
\* temporary file replaces it only when it is whole. Two processes share that file only
\* after one has been robbed.
NeverTorn == ~robbed => file # Torn

\* The put of a process until it takes effect: what follows the rename is its answer.
Pending(p) == proc[p].at \in Waiting \cup {"check", "create", "write", "rename"}

Call(p) == IF Pending(p) THEN [base |-> proc[p].base, object |-> proc[p].payload]
                         ELSE [base |-> None, object |-> None]

Calls == [p \in Procs |-> Call(p)]
Seen == [p \in Procs |-> proc[p].seen]

Store == INSTANCE ConditionalStore WITH
    Clients <- Procs, Objects <- Bytes, Absent <- None,
    stored <- file, calls <- Calls, seen <- Seen

\* The lockfile, the temporary file and the rename come to one atomic conditional write
\* (the contract of BlobStore): a put lands at the rename, only on the object it expects,
\* at most once, and not after its caller has its answer or has died; reads are whole; and
\* a caller that is told its new ETag has really written.
\* After a robbery a step need no longer be one of the store's.
ImplementsConditionalStore == Store!Init /\ [][robbed \/ Store!Next]_(Store!vars)

\* A put ends: the lock timeout bounds the wait, also behind a crashed process.
PutEnds == \A p \in Procs : proc[p].at \in Waiting \cup Critical ~> proc[p].at \in {"closed", "open"}
=============================================================================
