-------------------------- MODULE AndroidAppProofs --------------------------
(***************************************************************************)
(* What the app shows is never ahead of the storage, and a refresh never   *)
(* puts an older snapshot over a fresher one: for any number of            *)
(* coroutines, commits, kills and calls of open.                           *)
(***************************************************************************)
EXTENDS AndroidApp, TLAPS

HasResult == {"called", "installed", "writing", "loading"}

\* The snapshots the app holds, on display, on disk or about to be published.
Held ==
    ({snapshot} \ {None}) \cup ({cacheFile} \ {None, Torn})
        \cup (IF loading.at = "none" THEN {} ELSE {loading.result})
        \cup {jobs[j].result : j \in {i \in Jobs : jobs[i].at \in HasResult}}

True(s) == s.version <= remote.version /\ (s.version = remote.version => s = remote)

HeldTrue == \A s \in Held : True(s)

\* One coroutine at a time is between its call and the publication of the result.
MutexSound ==
    \A i, j \in Jobs :
        jobs[i].at \in {"calling", "called"} /\ jobs[j].at \in {"calling", "called"} => i = j

\* The last answer is the freshest: whatever else the app holds was obtained before it.
LatestCalled ==
    \A j \in Jobs : JobAt(j, "called") =>
        \A s \in Held : s.version <= jobs[j].result.version

IInv == TypeOK /\ HeldTrue /\ MutexSound /\ LatestCalled

LEMMA InitSound == Init => IInv
<1> SUFFICES ASSUME Init PROVE IInv
  OBVIOUS
<1>1. TypeOK
  <2>1. remote \in Snapshot /\ loading = NotLoading
    BY DEF Init, Snapshot
  <2>2. jobs \in [Jobs -> Job]
    BY DEF Init, Job
  <2>3. kills \in 0..MaxKills /\ opens \in 0..MaxOpens
    BY BoundAssumption DEF Init
  <2> QED
    BY <2>1, <2>2, <2>3 DEF Init, TypeOK
<1>2. Held = {}
  BY DEF Init, Held, HasResult, Idle, NotLoading
<1> QED
  BY <1>1, <1>2 DEF Init, IInv, HeldTrue, MutexSound, LatestCalled, JobAt, Idle

----------------------------------------------------------------------------
(* Coroutines. *)

LEMMA JobTyped ==
    ASSUME NEW s \in Job
    PROVE  /\ s.at = "queued" => /\ s.op \in {"refresh"} \cup Commands
                                 /\ [s EXCEPT !.at = "calling"] \in Job
                                 /\ [s EXCEPT !.at = "calling"].at = "calling"
           /\ s.at = "calling" => s.op \in {"refresh"} \cup Commands
           /\ s.at \in HasResult =>
                  /\ s.result \in Snapshot
                  /\ \A where \in {"installed", "writing"} :
                         /\ [s EXCEPT !.at = where] \in Job
                         /\ [s EXCEPT !.at = where].at = where
                         /\ [s EXCEPT !.at = where].result = s.result
<1>1. CASE s \in {Idle} \cup [at : {"opening"}]
  BY <1>1 DEF Idle, HasResult
<1>2. CASE s \in [at : {"queued", "calling"}, op : {"refresh"} \cup Commands]
  BY <1>2 DEF Job, HasResult
<1>3. CASE s \in [at : {"called", "installed", "writing", "loading"}, result : Snapshot]
  BY <1>3 DEF Job, HasResult
<1> QED
  BY <1>1, <1>2, <1>3 DEF Job

LEMMA JobGoes ==
    ASSUME TypeOK, NEW j \in Jobs, NEW s \in Job, jobs' = [jobs EXCEPT ![j] = s]
    PROVE  /\ jobs' \in [Jobs -> Job] /\ jobs'[j] = s
           /\ \A i \in Jobs \ {j} : jobs'[i] = jobs[i]
BY DEF TypeOK

\* A coroutine that is launched, and the main thread's choice not to launch one.
Launches == jobs' = jobs \/ \E j \in Jobs, s \in Job :
                /\ JobAt(j, "idle") /\ s.at \in {"queued", "opening"}
                /\ jobs' = [jobs EXCEPT ![j] = s]

LEMMA RunOpLaunches ==
    ASSUME NEW op \in {"refresh"} \cup Commands, RunOp(op)
    PROVE  Launches
<1> DEFINE s == [at |-> "queued", op |-> op]
<1>1. s \in Job /\ s.at = "queued"
  BY DEF Job
<1>2. PICK j \in Jobs : JobAt(j, "idle") /\ jobs' = [jobs EXCEPT ![j] = s]
  BY DEF RunOp, JobDoes
<1> HIDE DEF s
<1> QED
  BY <1>1, <1>2 DEF Launches

LEMMA LaunchTyped ==
    ASSUME TypeOK, Launches
    PROVE  /\ jobs' \in [Jobs -> Job]
           /\ \A i \in Jobs : jobs'[i] = jobs[i] \/ jobs'[i].at \in {"queued", "opening"}
<1>1. CASE jobs' = jobs
  BY <1>1 DEF TypeOK
<1>2. ASSUME NEW j \in Jobs, NEW s \in Job, s.at \in {"queued", "opening"},
             jobs' = [jobs EXCEPT ![j] = s]
      PROVE  /\ jobs' \in [Jobs -> Job]
             /\ \A i \in Jobs : jobs'[i] = jobs[i] \/ jobs'[i].at \in {"queued", "opening"}
  BY <1>2, JobGoes
<1> QED
  BY <1>1, <1>2 DEF Launches

\* open() launches a coroutine, or shows the cache.
LEMMA OpenTyped ==
    ASSUME TypeOK, Open
    PROVE  /\ Launches /\ opens' \in 0..MaxOpens
           /\ loading' \in {NotLoading} \cup [at : {"open", "restore"}, result : Snapshot]
           /\ loading' = loading \/ loading' = NotLoading
                \/ (Readable /\ loading'.result = cacheFile)
<1>1. opens' \in 0..MaxOpens
  BY BoundAssumption DEF Open, TypeOK
<1>2. Launches
  <2> DEFINE s == [at |-> "opening"]
  <2>1. s \in Job /\ s.at = "opening"
    BY DEF Job
  <2>2. jobs' = jobs \/ \E j \in Jobs : JobAt(j, "idle") /\ jobs' = [jobs EXCEPT ![j] = s]
    BY DEF Open, JobDoes
  <2> HIDE DEF s
  <2> QED
    BY <2>1, <2>2 DEF Launches
<1>3. loading' = loading \/ loading' = NotLoading
          \/ (Readable /\ loading' = [at |-> "open", result |-> cacheFile])
  BY DEF Open
<1>4. Readable => cacheFile \in Snapshot
  BY DEF Readable, TypeOK
<1> QED
  BY <1>1, <1>2, <1>3, <1>4 DEF TypeOK

----------------------------------------------------------------------------
(* Every step but an answer only moves about what the app holds already. *)

RemoteMoves == remote' = remote
                   \/ (remote' \in Snapshot /\ remote'.version = remote.version + 1)

LEMMA HeldTyped == TypeOK => Held \subseteq Snapshot
<1> SUFFICES ASSUME TypeOK PROVE Held \subseteq Snapshot
  OBVIOUS
<1>1. \A j \in Jobs : jobs[j].at \in HasResult => jobs[j].result \in Snapshot
  BY JobTyped DEF TypeOK
<1>2. loading.at = "none" \/ loading.result \in Snapshot
  BY DEF TypeOK, NotLoading
<1> QED
  BY <1>1, <1>2 DEF Held, TypeOK

LEMMA NothingNew ==
    ASSUME IInv, RemoteMoves, Held' \subseteq Held,
           \A j \in Jobs : jobs'[j].at = "called" => jobs'[j] = jobs[j]
    PROVE  HeldTrue' /\ LatestCalled'
<1>1. Held \subseteq Snapshot /\ remote \in Snapshot
  BY HeldTyped DEF IInv, TypeOK
<1>2. \A s \in Snapshot : s.version \in Nat
  BY DEF Snapshot
<1>3. \A s \in Held : s.version <= remote'.version /\ (s.version = remote'.version => s = remote')
  BY <1>1, <1>2 DEF IInv, HeldTrue, True, RemoteMoves
<1>4. HeldTrue'
  BY <1>3 DEF HeldTrue, True
<1>5. LatestCalled'
  BY DEF IInv, LatestCalled, JobAt
<1> QED
  BY <1>4, <1>5

\* What a coroutine holds, for the others to be the same.
LEMMA HeldShrinks ==
    ASSUME snapshot' \in Held \cup {None}, cacheFile' \in Held \cup {None, Torn},
           loading'.at = "none" \/ loading'.result \in Held,
           \A j \in Jobs : jobs'[j].at \in HasResult => jobs'[j].result \in Held
    PROVE  Held' \subseteq Held
<1>1. Held' = ({snapshot'} \ {None}) \cup ({cacheFile'} \ {None, Torn})
                \cup (IF loading'.at = "none" THEN {} ELSE {loading'.result})
                \cup {jobs'[j].result : j \in {i \in Jobs : jobs'[i].at \in HasResult}}
  BY DEF Held
<1> QED
  BY <1>1

LEMMA HeldHas ==
    /\ snapshot \in Held \cup {None} /\ cacheFile \in Held \cup {None, Torn}
    /\ Readable => cacheFile \in Held
    /\ loading.at = "none" \/ loading.result \in Held
    /\ \A j \in Jobs : jobs[j].at \in HasResult => jobs[j].result \in Held
BY DEF Held, Readable

\* A step that launches a coroutine at most.
LEMMA LaunchStep ==
    ASSUME IInv, Launches, RemoteMoves, snapshot' \in {snapshot, None} \cup Held,
           cacheFile' = cacheFile, loading'.at = "none" \/ loading'.result \in Held
    PROVE  HeldTrue' /\ MutexSound' /\ LatestCalled'
<1>1. \A i \in Jobs : jobs'[i] = jobs[i] \/ jobs'[i].at \in {"queued", "opening"}
  BY LaunchTyped DEF IInv
<1>2. Held' \subseteq Held
  <2>1. \A j \in Jobs : jobs'[j].at \in HasResult => jobs'[j].result \in Held
    BY <1>1, HeldHas DEF HasResult
  <2> QED
    BY <2>1, HeldHas, HeldShrinks
<1>3. \A j \in Jobs : jobs'[j].at = "called" => jobs'[j] = jobs[j]
  BY <1>1
<1>4. MutexSound'
  <2>1. \A i \in Jobs : jobs'[i].at \in {"calling", "called"} => jobs'[i] = jobs[i]
    BY <1>1
  <2> QED
    BY <2>1 DEF IInv, MutexSound
<1> QED
  BY <1>2, <1>3, <1>4, NothingNew

\* A step of a coroutine that does not enter the mutex and gets no answer.
LEMMA JobStep ==
    ASSUME IInv, NEW j \in Jobs, NEW s \in Job, jobs' = [jobs EXCEPT ![j] = s], RemoteMoves,
           s.at \notin {"calling", "called"}, s.at \in HasResult => s.result \in Held,
           snapshot' \in Held \cup {None}, cacheFile' \in Held \cup {None, Torn},
           loading' = loading
    PROVE  HeldTrue' /\ MutexSound' /\ LatestCalled'
<1>1. jobs'[j] = s /\ \A i \in Jobs \ {j} : jobs'[i] = jobs[i]
  BY JobGoes DEF IInv
<1>2. Held' \subseteq Held
  <2>1. \A i \in Jobs : jobs'[i].at \in HasResult => jobs'[i].result \in Held
    BY <1>1, HeldHas
  <2> QED
    BY <2>1, HeldHas, HeldShrinks
<1>3. \A i \in Jobs : jobs'[i].at = "called" => jobs'[i] = jobs[i]
  BY <1>1
<1>4. MutexSound'
  <2>1. \A i \in Jobs : jobs'[i].at \in {"calling", "called"} => jobs'[i] = jobs[i]
    BY <1>1
  <2> QED
    BY <2>1 DEF IInv, MutexSound
<1> QED
  BY <1>2, <1>3, <1>4, NothingNew

----------------------------------------------------------------------------
(* The steps of the coroutines. *)

LEMMA TakesEffectMoves ==
    ASSUME TypeOK, NEW op \in {"refresh"} \cup Commands, TakesEffect(op)
    PROVE  RemoteMoves /\ remote' \in Snapshot /\ remote.version <= remote'.version
<1>1. remote \in Snapshot /\ remote.version \in Nat
  BY DEF TypeOK, Snapshot
<1>2. CASE op = "refresh"
  BY <1>1, <1>2 DEF TakesEffect, RemoteMoves
<1>3. CASE op # "refresh"
  <2>1. remote' = After(op)
    BY <1>3 DEF TakesEffect
  <2>2. After(op).active \in Nat \cup {None} /\ After(op).version = remote.version + 1
    BY <1>1 DEF After, Snapshot
  <2>3. After(op) \in Snapshot
    BY <1>1, <2>2 DEF After, Snapshot
  <2> QED
    BY <1>1, <2>1, <2>2, <2>3 DEF RemoteMoves
<1> QED
  BY <1>2, <1>3

\* The answer is the stored logbook: nothing the app holds is fresher.
LEMMA CallSucceedsKeepsSound ==
    ASSUME IInv, NEW j \in Jobs, CallSucceeds(j)
    PROVE  IInv'
<1>1. /\ jobs[j] \in Job /\ jobs[j].at = "calling" /\ TakesEffect(jobs[j].op)
      /\ jobs' = [jobs EXCEPT ![j] = [at |-> "called", result |-> remote']]
      /\ UNCHANGED <<cacheFile, alive, opened, snapshot, loading, ui, bounds>>
  BY DEF CallSucceeds, JobAt, JobDoes, IInv, TypeOK
<1>2. RemoteMoves /\ remote' \in Snapshot /\ remote.version <= remote'.version
  BY <1>1, JobTyped, TakesEffectMoves DEF IInv
<1>3. PICK s \in Job : s.at = "called" /\ s.result = remote' /\ jobs' = [jobs EXCEPT ![j] = s]
  BY <1>1, <1>2 DEF Job
<1>4. /\ jobs' \in [Jobs -> Job] /\ jobs'[j] = s
      /\ \A i \in Jobs \ {j} : jobs'[i] = jobs[i]
  BY <1>3, JobGoes DEF IInv
<1>5. TypeOK'
  BY <1>1, <1>2, <1>4 DEF IInv, TypeOK, ui, bounds
<1>6. Held' \subseteq Held \cup {remote'}
  <2>1. Held' = ({snapshot'} \ {None}) \cup ({cacheFile'} \ {None, Torn})
                    \cup (IF loading'.at = "none" THEN {} ELSE {loading'.result})
                    \cup {jobs'[i].result : i \in {k \in Jobs : jobs'[k].at \in HasResult}}
    BY DEF Held
  <2>2. \A i \in Jobs : jobs'[i].at \in HasResult => jobs'[i].result \in Held \cup {remote'}
    BY <1>3, <1>4, HeldHas
  <2> QED
    BY <1>1, <2>1, <2>2, HeldHas
<1>7. \A s1 \in Held' : s1.version <= remote'.version
                           /\ (s1.version = remote'.version => s1 = remote')
  <2>1. Held \subseteq Snapshot /\ remote \in Snapshot /\ \A s1 \in Snapshot : s1.version \in Nat
    BY HeldTyped DEF IInv, TypeOK, Snapshot
  <2>2. \A s1 \in Held : s1.version <= remote'.version
                           /\ (s1.version = remote'.version => s1 = remote')
    BY <1>2, <2>1 DEF RemoteMoves, IInv, HeldTrue, True
  <2> QED
    BY <1>2, <1>6, <2>1, <2>2
<1>8. HeldTrue'
  BY <1>7 DEF HeldTrue, True
<1>9. \A i \in Jobs : jobs[i].at \in {"calling", "called"} => i = j
  BY <1>1 DEF IInv, MutexSound
<1>10. MutexSound'
  BY <1>4, <1>9 DEF MutexSound
<1>11. LatestCalled'
  BY <1>3, <1>4, <1>7, <1>9 DEF LatestCalled, JobAt
<1> QED
  BY <1>5, <1>8, <1>10, <1>11 DEF IInv

LEMMA LockKeepsSound ==
    ASSUME IInv, NEW j \in Jobs, Lock(j)
    PROVE  IInv'
<1>1. /\ jobs[j] \in Job /\ jobs[j].at = "queued" /\ MutexFree
      /\ jobs' = [jobs EXCEPT ![j] = [jobs[j] EXCEPT !.at = "calling"]]
      /\ UNCHANGED <<disk, alive, opened, snapshot, loading, ui, bounds>>
  BY DEF Lock, JobAt, JobDoes, IInv, TypeOK
<1>2. PICK s \in Job : s.at = "calling" /\ jobs' = [jobs EXCEPT ![j] = s]
  BY <1>1, JobTyped
<1>3. /\ jobs' \in [Jobs -> Job] /\ jobs'[j] = s
      /\ \A i \in Jobs \ {j} : jobs'[i] = jobs[i]
  BY <1>2, JobGoes DEF IInv
<1>4. TypeOK'
  BY <1>1, <1>3 DEF IInv, TypeOK, disk, ui, bounds
<1>5. Held' \subseteq Held
  <2>1. \A i \in Jobs : jobs'[i].at \in HasResult => jobs'[i].result \in Held
    BY <1>2, <1>3, HeldHas DEF HasResult
  <2> QED
    BY <1>1, <2>1, HeldHas, HeldShrinks DEF disk
<1>6. \A i \in Jobs : jobs'[i].at = "called" => jobs'[i] = jobs[i]
  BY <1>2, <1>3
<1>7. HeldTrue' /\ LatestCalled'
  BY <1>1, <1>5, <1>6, NothingNew DEF RemoteMoves, disk
<1>8. MutexSound'
  BY <1>1, <1>3 DEF MutexSound, MutexFree
<1> QED
  BY <1>4, <1>7, <1>8 DEF IInv

LEMMA JobNextKeepsSound ==
    ASSUME IInv, NEW j \in Jobs, JobNext(j)
    PROVE  IInv'
<1> USE DEF disk, ui, bounds
<1>2. jobs[j] \in Job /\ Idle \in Job /\ Idle.at = "idle"
  BY DEF IInv, TypeOK, Job, Idle
<1>3. jobs[j].at \in HasResult => jobs[j].result \in Held /\ jobs[j].result \in Snapshot
  BY <1>2, HeldHas, JobTyped
<1>4. CASE CallSucceeds(j)
  BY <1>4, CallSucceedsKeepsSound
<1>5. CASE Lock(j)
  BY <1>5, LockKeepsSound
<1>6. CASE OpenSucceeds(j)
  <2>1. PICK s \in Job : s.at = "queued" /\ jobs' = [jobs EXCEPT ![j] = s]
    BY <1>6 DEF OpenSucceeds, JobDoes, Job
  <2>2. TypeOK'
    BY <1>6, <2>1, JobGoes DEF OpenSucceeds, IInv, TypeOK
  <2> QED
    BY <1>6, <2>1, <2>2, HeldHas, JobStep DEF OpenSucceeds, RemoteMoves, HasResult, IInv
<1>7. CASE OpenFails(j)
  <2>1. PICK s \in Job : /\ s.at \in {"idle", "loading"} /\ jobs' = [jobs EXCEPT ![j] = s]
                         /\ s.at = "loading" => s.result \in Held
    <3>1. CASE Readable
      <4> DEFINE s == [at |-> "loading", result |-> cacheFile]
      <4>1. cacheFile \in Snapshot /\ cacheFile \in Held
        BY <3>1, HeldHas DEF IInv, TypeOK, Readable
      <4>2. s \in Job /\ s.at = "loading" /\ s.result = cacheFile
        BY <4>1 DEF Job
      <4>3. jobs' = [jobs EXCEPT ![j] = s]
        BY <1>7, <3>1 DEF OpenFails, JobDoes
      <4> HIDE DEF s
      <4> QED
        BY <4>1, <4>2, <4>3
    <3>2. CASE ~Readable
      BY <1>2, <1>7, <3>2 DEF OpenFails, JobDoes
    <3> QED
      BY <3>1, <3>2
  <2>2. TypeOK'
    BY <1>7, <2>1, JobGoes DEF OpenFails, IInv, TypeOK
  <2> QED
    BY <1>7, <2>1, <2>2, HeldHas, JobStep DEF OpenFails, RemoteMoves, HasResult, IInv
<1>8. CASE LoadAfterFailure(j)
  <2>1. jobs' = [jobs EXCEPT ![j] = Idle] /\ snapshot' = jobs[j].result /\ jobs[j].at \in HasResult
    BY <1>8 DEF LoadAfterFailure, JobDoes, JobAt, HasResult
  <2>2. TypeOK'
    BY <1>2, <1>3, <1>8, <2>1, JobGoes DEF LoadAfterFailure, IInv, TypeOK
  <2> QED
    BY <1>2, <1>3, <1>8, <2>1, <2>2, HeldHas, JobStep
       DEF LoadAfterFailure, RemoteMoves, HasResult, IInv
<1>9. CASE CallFails(j)
  <2>1. jobs' = [jobs EXCEPT ![j] = Idle] /\ jobs[j].at = "calling"
    BY <1>9 DEF CallFails, JobDoes, JobAt
  <2>2. RemoteMoves /\ remote' \in Snapshot
    <3>1. remote \in Snapshot
      BY DEF IInv, TypeOK
    <3> QED
      BY <1>2, <1>9, <2>1, <3>1, JobTyped, TakesEffectMoves DEF CallFails, RemoteMoves, IInv
  <2>3. TypeOK'
    BY <1>2, <1>9, <2>1, <2>2, JobGoes DEF CallFails, IInv, TypeOK
  <2> QED
    BY <1>2, <1>9, <2>1, <2>2, <2>3, HeldHas, JobStep DEF CallFails, HasResult, IInv
<1>10. CASE Install(j)
  <2>1. /\ snapshot' = jobs[j].result /\ jobs[j].at \in HasResult
        /\ jobs' = [jobs EXCEPT ![j] = [jobs[j] EXCEPT !.at = "installed"]]
    BY <1>10 DEF Install, JobDoes, JobAt, HasResult
  <2>2. PICK s \in Job : /\ s.at = "installed" /\ s.result = jobs[j].result
                         /\ jobs' = [jobs EXCEPT ![j] = s]
    BY <1>2, <2>1, JobTyped
  <2>3. TypeOK'
    BY <1>3, <1>10, <2>1, <2>2, JobGoes DEF Install, IInv, TypeOK
  <2> QED
    BY <1>3, <1>10, <2>1, <2>2, <2>3, HeldHas, JobStep DEF Install, RemoteMoves, HasResult, IInv
<1>11. CASE TruncateCache(j)
  <2>1. /\ cacheFile' = Torn /\ jobs[j].at \in HasResult
        /\ jobs' = [jobs EXCEPT ![j] = [jobs[j] EXCEPT !.at = "writing"]]
    BY <1>11 DEF TruncateCache, JobDoes, JobAt, HasResult
  <2>2. PICK s \in Job : /\ s.at = "writing" /\ s.result = jobs[j].result
                         /\ jobs' = [jobs EXCEPT ![j] = s]
    BY <1>2, <2>1, JobTyped
  <2>3. TypeOK'
    BY <1>11, <2>1, <2>2, JobGoes DEF TruncateCache, IInv, TypeOK
  <2> QED
    BY <1>3, <1>11, <2>1, <2>2, <2>3, HeldHas, JobStep
       DEF TruncateCache, RemoteMoves, HasResult, IInv
<1>12. CASE WriteCache(j)
  <2>1. /\ jobs' = [jobs EXCEPT ![j] = Idle] /\ jobs[j].at \in HasResult
        /\ cacheFile' \in {jobs[j].result, Torn}
    BY <1>12 DEF WriteCache, JobDoes, JobAt, HasResult
  <2>2. TypeOK'
    BY <1>2, <1>3, <1>12, <2>1, JobGoes DEF WriteCache, IInv, TypeOK
  <2> QED
    BY <1>2, <1>3, <1>12, <2>1, <2>2, HeldHas, JobStep
       DEF WriteCache, RemoteMoves, HasResult, IInv
<1> QED
  BY <1>4, <1>5, <1>6, <1>7, <1>8, <1>9, <1>10, <1>11, <1>12 DEF JobNext

----------------------------------------------------------------------------
(* The steps of the main thread, of the services and of other devices. *)

LEMMA KillKeepsSound ==
    ASSUME IInv, Kill
    PROVE  IInv'
<1> USE DEF disk
<1>1. Idle \in Job /\ Idle.at = "idle" /\ \A i \in Jobs : jobs'[i] = Idle
  BY DEF Kill, Job, Idle
<1>2. TypeOK'
  <2>1. kills' \in 0..MaxKills
    BY BoundAssumption DEF Kill, IInv, TypeOK
  <2>2. {alive, opened, foreground, ending, restore}' \subseteq BOOLEAN
    BY DEF Kill, ServiceShows, IInv, TypeOK
  <2>3. jobs' \in [Jobs -> Job]
    BY <1>1 DEF Kill
  <2> QED
    BY <2>1, <2>2, <2>3 DEF Kill, ServiceShows, IInv, TypeOK
<1>3. Held' \subseteq Held
  <2>1. \A i \in Jobs : jobs'[i].at \notin HasResult
    BY <1>1 DEF HasResult
  <2> QED
    BY <2>1, HeldHas, HeldShrinks DEF Kill, NotLoading
<1>4. HeldTrue' /\ LatestCalled'
  BY <1>1, <1>3, NothingNew DEF Kill, RemoteMoves
<1>5. MutexSound'
  BY <1>1 DEF MutexSound
<1> QED
  BY <1>2, <1>4, <1>5 DEF IInv

LEMMA MainNextKeepsSound ==
    ASSUME IInv, MainNext
    PROVE  IInv'
<1> USE DEF disk, ui, bounds
<1> "refresh" \in {"refresh"} \cup Commands
  OBVIOUS
<1>1. snapshot # None => snapshot.active \in Nat \cup {None}
  BY DEF IInv, TypeOK, Snapshot
<1>2. Readable => cacheFile \in Snapshot
  BY DEF IInv, TypeOK, Readable
<1>3. CASE StartProcess
  <2>1. TypeOK'
    BY <1>3, OpenTyped, LaunchTyped DEF StartProcess, IInv, TypeOK
  <2>2. loading'.at = "none" \/ loading'.result \in Held
    BY <1>3, OpenTyped, HeldHas DEF StartProcess, NotLoading, IInv
  <2> QED
    BY <1>3, <2>1, <2>2, OpenTyped, LaunchStep DEF StartProcess, RemoteMoves, IInv
<1>4. CASE Kill
  BY <1>4, KillKeepsSound
<1>5. CASE Reopen
  <2>1. TypeOK'
    BY <1>5, OpenTyped, LaunchTyped DEF Reopen, IInv, TypeOK
  <2>2. loading'.at = "none" \/ loading'.result \in Held
    BY <1>5, OpenTyped, HeldHas DEF Reopen, NotLoading, IInv
  <2> QED
    BY <1>5, <2>1, <2>2, OpenTyped, LaunchStep DEF Reopen, RemoteMoves, IInv
<1>6. ASSUME NEW op \in Commands, Tap(op)
      PROVE  IInv'
  <2>1. Launches
    BY <1>6, RunOpLaunches DEF Tap
  <2>2. TypeOK'
    BY <1>6, <2>1, LaunchTyped DEF Tap, IInv, TypeOK
  <2> QED
    BY <1>6, <2>1, <2>2, HeldHas, LaunchStep DEF Tap, RemoteMoves, IInv
<1>7. CASE ToForeground
  <2>1. Launches
    BY <1>7, RunOpLaunches DEF ToForeground, Launches
  <2>2. TypeOK'
    BY <1>7, <2>1, LaunchTyped DEF ToForeground, IInv, TypeOK
  <2> QED
    BY <1>7, <2>1, <2>2, HeldHas, LaunchStep DEF ToForeground, RemoteMoves, IInv
<1>8. CASE ToBackground
  <2>1. TypeOK'
    BY <1>8 DEF ToBackground, IInv, TypeOK
  <2> QED
    BY <1>8, <2>1, HeldHas, LaunchStep DEF ToBackground, Launches, RemoteMoves, IInv
<1>9. CASE RunEffect
  <2>1. TypeOK'
    BY <1>1, <1>9 DEF RunEffect, ServiceShows, HasActive, IInv, TypeOK
  <2> QED
    BY <1>9, <2>1, HeldHas, LaunchStep DEF RunEffect, Launches, RemoteMoves, IInv
<1>10. CASE TapStop
  <2>1. Launches
    <3>1. RunOp("stop") => Launches
      BY CommandAssumption, RunOpLaunches
    <3> QED
      BY <1>10, <3>1 DEF TapStop, Launches
  <2>2. TypeOK'
    BY <1>10, <2>1, LaunchTyped DEF TapStop, ServiceShows, IInv, TypeOK
  <2> QED
    BY <1>10, <2>1, <2>2, HeldHas, LaunchStep DEF TapStop, RemoteMoves, IInv
<1>11. CASE Restore
  <2>1. loading'.at = "none" \/ loading'.result \in Held
    BY <1>11, HeldHas DEF Restore
  <2>2. loading' \in {NotLoading} \cup [at : {"open", "restore"}, result : Snapshot]
    BY <1>2, <1>11 DEF Restore, IInv, TypeOK
  <2>3. service' \in Nat \cup {None}
    BY <1>1, <1>11 DEF Restore, ServiceShows, HasActive, IInv, TypeOK
  <2>4. TypeOK'
    BY <1>11, <2>2, <2>3 DEF Restore, ServiceShows, IInv, TypeOK
  <2> QED
    BY <1>11, <2>1, <2>4, HeldHas, LaunchStep DEF Restore, Launches, RemoteMoves, IInv
<1>12. CASE Loaded
  <2>1. loading.result \in Snapshot /\ loading.result \in Held
    BY <1>12, HeldHas DEF Loaded, NotLoading, IInv, TypeOK
  <2>2. service' \in Nat \cup {None}
    BY <1>12, <2>1 DEF Loaded, ServiceShows, Snapshot, IInv, TypeOK
  <2>3. TypeOK'
    BY <1>12, <2>1, <2>2 DEF Loaded, ServiceShows, IInv, TypeOK
  <2> QED
    BY <1>12, <2>1, <2>3, LaunchStep DEF Loaded, NotLoading, Launches, RemoteMoves, IInv
<1> QED
  BY <1>3, <1>4, <1>5, <1>6, <1>7, <1>8, <1>9, <1>10, <1>11, <1>12 DEF MainNext

LEMMA NextKeepsSound == IInv /\ [Next]_vars => IInv'
<1> USE DEF disk, ui, bounds
<1> SUFFICES ASSUME IInv, [Next]_vars PROVE IInv'
  OBVIOUS
<1>1. CASE Poll
  <2>1. Launches
    <3>1. RunOp("refresh")
      BY <1>1 DEF Poll
    <3> QED
      BY <3>1, RunOpLaunches
  <2>2. TypeOK'
    BY <1>1, <2>1, LaunchTyped DEF Poll, IInv, TypeOK
  <2> QED
    BY <1>1, <2>1, <2>2, HeldHas, LaunchStep DEF Poll, RemoteMoves, IInv
<1>2. CASE Watch
  <2>1. TypeOK'
    BY <1>2 DEF Watch, ServiceShows, IInv, TypeOK, Snapshot
  <2> QED
    BY <1>2, <2>1, HeldHas, LaunchStep DEF Watch, Launches, RemoteMoves, IInv
<1>3. CASE OtherDevice
  <2>1. RemoteMoves /\ remote' \in Snapshot
    BY <1>3, TakesEffectMoves DEF OtherDevice, IInv
  <2>2. TypeOK'
    BY <1>3, <2>1 DEF OtherDevice, IInv, TypeOK
  <2> QED
    BY <1>3, <2>1, <2>2, HeldHas, LaunchStep DEF OtherDevice, Launches, IInv
<1>4. CASE UNCHANGED vars
  <2>1. TypeOK'
    BY <1>4 DEF vars, IInv, TypeOK
  <2> QED
    BY <1>4, <2>1, HeldHas, LaunchStep DEF vars, Launches, RemoteMoves, IInv
<1>5. CASE StopSelf
  <2>1. TypeOK'
    BY <1>5 DEF StopSelf, ServiceShows, IInv, TypeOK
  <2> QED
    BY <1>5, <2>1, HeldHas, LaunchStep DEF StopSelf, Launches, RemoteMoves, IInv
<1> QED
  BY <1>1, <1>2, <1>3, <1>4, <1>5, MainNextKeepsSound, JobNextKeepsSound DEF Next

\* Only a coroutine's own step publishes its answer.
LEMMA OnlyInstalls ==
    ASSUME IInv, Next, NEW j \in Jobs, JobAt(j, "called"), jobs'[j].at = "installed"
    PROVE  Install(j)
<1>1. ~ Launches
  <2> SUFFICES ASSUME Launches PROVE FALSE
    OBVIOUS
  <2> QED
    BY LaunchTyped DEF IInv, JobAt
<1>2. "refresh" \in {"refresh"} \cup Commands /\ "stop" \in {"refresh"} \cup Commands
  BY CommandAssumption
<1>3. ~ RunOp("refresh") /\ ~ RunOp("stop") /\ \A op \in Commands : ~ RunOp(op)
  BY <1>1, <1>2, RunOpLaunches
<1>4. ~ Open
  BY <1>1, OpenTyped DEF IInv
<1>5. ~ UNCHANGED jobs
  BY <1>1 DEF Launches
<1>6. ~ Kill
  BY DEF Kill, Idle
<1>7. ~ MainNext
  BY <1>3, <1>4, <1>5, <1>6
     DEF MainNext, StartProcess, Reopen, Tap, ToForeground, ToBackground, RunEffect, TapStop,
         Restore, Loaded
<1>8. PICK i \in Jobs : JobNext(i)
  BY <1>3, <1>5, <1>7 DEF Next, Poll, Watch, StopSelf, OtherDevice
<1>9. i = j
  <2>1. i # j => jobs'[j] = jobs[j]
    BY <1>8 DEF JobNext, OpenSucceeds, OpenFails, LoadAfterFailure, Lock, CallSucceeds,
                CallFails, Install, TruncateCache, WriteCache, JobDoes, IInv, TypeOK
  <2> QED
    BY <2>1 DEF JobAt
<1> QED
  BY <1>8, <1>9
     DEF JobNext, OpenSucceeds, OpenFails, LoadAfterFailure, Lock, CallSucceeds,
         CallFails, TruncateCache, WriteCache, JobAt

----------------------------------------------------------------------------
(* The theorems. *)

\* The invariant holds in every state: what the app holds was obtained from the storage,
\* and before the answer that is waiting to be published (LogbookStore.runOp).
THEOREM Soundness == Spec => []IInv
<1>1. Init => IInv
  BY InitSound
<1>2. IInv /\ [Next]_vars => IInv'
  BY NextKeepsSound
<1> QED
  BY <1>1, <1>2, PTL DEF Spec

\* Every variable of the app keeps its type.
THEOREM TypeCorrectness == Spec => []TypeOK
<1>1. IInv => TypeOK
  BY DEF IInv
<1> QED
  BY <1>1, Soundness, PTL

\* Whatever the coroutines, kills and other devices do, the app never shows, nor keeps for
\* later, what the storage does not hold (LogbookStore.runOp, loadCache).
THEOREM NeverAheadOfStorage == Spec => []NeverAhead
<1>1. IInv => NeverAhead
  <2> SUFFICES ASSUME IInv,
                      NEW s \in {snapshot, cacheFile} \cup {jobs[j].result : j \in {i \in Jobs :
                                   jobs[i].at \in {"called", "installed", "writing", "loading"}}},
                      s \notin {None, Torn}
               PROVE  s.version <= remote.version /\ (s.version = remote.version => s = remote)
    BY DEF NeverAhead
  <2>1. s \in Held
    BY HeldHas DEF HasResult
  <2> QED
    BY <2>1 DEF IInv, HeldTrue, True
<1> QED
  BY <1>1, Soundness, PTL

\* Of the coroutines, none puts an older snapshot over a fresher one, however their calls
\* overlap: opMutex orders call and publication (LogbookStore.runOp).
THEOREM RefreshKeepsFresher == Spec => FresherStays
<1> DEFINE Fresher == snapshot # None
                          /\ (\E j \in Jobs : JobAt(j, "called") /\ jobs'[j].at = "installed") =>
                              snapshot.version <= snapshot'.version
<1>1. IInv /\ [Next]_vars => [Fresher]_vars
  <2> SUFFICES ASSUME IInv, Next, snapshot # None,
                      NEW j \in Jobs, JobAt(j, "called"), jobs'[j].at = "installed"
               PROVE  snapshot.version <= snapshot'.version
    OBVIOUS
  <2>1. Install(j)
    BY OnlyInstalls
  <2>2. snapshot' = jobs[j].result
    BY <2>1 DEF Install
  <2>3. snapshot \in Held
    BY HeldHas
  <2> QED
    BY <2>2, <2>3 DEF IInv, LatestCalled
<1> QED
  BY <1>1, Soundness, PTL DEF Spec, FresherStays

=============================================================================
