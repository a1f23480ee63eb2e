--------------------------- MODULE LocalFsProofs ----------------------------
(***************************************************************************)
(* The lockfile protocol keeps its promises for any number of processes,   *)
(* payloads, crashes and reclaimers, slow holders or not, until a reclaim  *)
(* takes the lockfile of a process inside away: one that it has not looked *)
(* at, or one that has grown old in use (Robs).  So these two are the only *)
(* holes in it; the run localfs_race falls into the first.  Until then it  *)
(* implements ConditionalStore.                                            *)
(***************************************************************************)
EXTENDS LocalFs, TLAPS

\* A process in a put has bytes to put, and one that is not carries nothing of a put.
CallSound(state) ==
    IF state.at \in {"closed", "open"} THEN state.base = None /\ state.payload = None
                                       ELSE state.payload \in Bytes

CallsSound == \A p \in Procs : CallSound(proc[p])

\* Whoever is inside has made the lockfile that is there.
LockSound == \A p \in Procs : Holding(p) => lock # None /\ lock.by = p

\* A lockfile that has been found stale stays so until it is removed.
JudgedSound == judged # {} => lock # None /\ lock.stale

\* Between the precondition and the rename nobody else touches the data file or the
\* temporary file.
Undisturbed(p) ==
    /\ proc[p].at \in {"create", "write", "rename"} => file = proc[p].base
    /\ proc[p].at \in {"write", "rename"} => tmp # None /\ tmp.payload = proc[p].payload
    /\ At(p, "rename") => tmp.whole

PutSound == \A p \in Procs : Undisturbed(p)

Exclusive == LockSound /\ JudgedSound /\ PutSound /\ file # Torn

IInv == TypeOK /\ CallsSound /\ (~robbed => Exclusive)

LEMMA InitSound == Init => IInv
<1> SUFFICES ASSUME Init
             PROVE  IInv
  OBVIOUS
<1>1. TypeOK
  <2>1. proc \in [Procs -> [at : {"closed", "open"} \cup Waiting \cup Critical,
                           seen : Bytes \cup {None}, base : Bytes \cup {None},
                           payload : Bytes \cup {None}]]
    BY DEF Init, Closed
  <2>2. crashes \in 0..MaxCrashes
    BY CrashAssumption DEF Init
  <2> QED
    BY <2>1, <2>2 DEF Init, TypeOK
<1>2. \A p \in Procs : proc[p].at = "closed" /\ proc[p].base = None /\ proc[p].payload = None
  BY DEF Init, Closed
<1>3. CallsSound
  BY <1>2 DEF CallsSound, CallSound
<1>4. Exclusive
  BY <1>2, PayloadAssumption
     DEF Init, Exclusive, LockSound, JudgedSound, PutSound, Undisturbed, Holding, At, Critical
<1> QED
  BY <1>1, <1>3, <1>4 DEF IInv

\* The lockfile excludes: at most one process is inside.
LEMMA LockExcludes ==
    ASSUME LockSound, NEW p \in Procs, Holding(p), NEW q \in Procs, Holding(q)
    PROVE  q = p
BY DEF LockSound

\* Once a process has been robbed, this is not forgotten.
LEMMA RobbedStays ==
    ASSUME TypeOK, [Next]_vars, robbed
    PROVE  robbed'
BY DEF TypeOK, vars, history, Next, AcquireNext, PutNext, Open, Get, Put, CreateNew, SeesStale,
       Reclaim, GiveUp, Check, CreateTmp, WriteTmp, Rename, PutFails, Release, Crash, Age

\* A step of a process that is not inside afterwards, and leaves the lockfile alone.
LEMMA OutsideStep ==
    ASSUME LockSound, NEW p \in Procs, UNCHANGED lock,
           \A q \in Procs \ {p} : proc'[q] = proc[q],
           proc'[p].at \notin Critical
    PROVE  LockSound'
<1> SUFFICES ASSUME NEW q \in Procs, Holding(q)'
             PROVE  (lock # None /\ lock.by = q)'
  BY DEF LockSound
<1>1. q # p /\ proc'[q] = proc[q]
  BY DEF Holding
<1> QED
  BY <1>1 DEF LockSound, Holding

\* The lock and those who would remove it, step by step.
LEMMA LockStep ==
    ASSUME TypeOK, LockSound, JudgedSound, [Next]_vars, ~robbed'
    PROVE  LockSound' /\ JudgedSound'
<1> USE DEF TypeOK, Holding, At, Goto, Return, Closed, Waiting, Critical, Lockfile, history
<1>1. CASE UNCHANGED vars
  BY <1>1 DEF vars, LockSound, JudgedSound
<1>2. ASSUME NEW p \in Procs, Open(p) \/ Get(p) \/ GiveUp(p) \/ Crash(p)
      PROVE  LockSound' /\ JudgedSound'
  <2>1. UNCHANGED lock /\ judged' \subseteq judged
    BY <1>2 DEF Open, Get, GiveUp, Crash
  <2>2. \A q \in Procs \ {p} : proc'[q] = proc[q]
    BY <1>2 DEF Open, Get, GiveUp, Crash
  <2>3. proc'[p].at \in {"closed", "open", "acquire"}
    <3>1. CASE Open(p)
      BY <3>1 DEF Open
    <3>2. CASE Get(p)
      BY <3>2 DEF Get
    <3>3. CASE GiveUp(p)
      BY <3>3 DEF GiveUp
    <3>4. CASE Crash(p)
      BY <3>4 DEF Crash
    <3> QED
      BY <1>2, <3>1, <3>2, <3>3, <3>4
  <2>4. LockSound'
    BY <2>1, <2>2, <2>3, OutsideStep
  <2>5. JudgedSound'
    BY <2>1 DEF JudgedSound
  <2> QED
    BY <2>4, <2>5
<1>3. ASSUME NEW p \in Procs, NEW payload \in Payloads, Put(p, payload)
      PROVE  LockSound' /\ JudgedSound'
  <2>1. UNCHANGED <<lock, judged>> /\ proc'[p].at = "acquire"
    BY <1>3 DEF Put
  <2>2. \A q \in Procs \ {p} : proc'[q] = proc[q]
    BY <1>3 DEF Put
  <2> QED
    BY <2>1, <2>2, OutsideStep DEF JudgedSound
<1>4. ASSUME NEW p \in Procs, CreateNew(p)
      PROVE  LockSound' /\ JudgedSound'
  <2>1. lock = None /\ judged' = judged /\ lock' = [by |-> p, stale |-> FALSE]
    BY <1>4 DEF CreateNew
  <2>2. \A q \in Procs : ~Holding(q)
    BY <2>1 DEF LockSound
  <2>3. judged' = {}
    BY <2>1 DEF JudgedSound
  <2>4. lock' # None /\ lock'.by = p
    <3>1. lock' \in [by : Procs, stale : BOOLEAN]
      BY <2>1
    <3> QED
      BY <2>1, <3>1, NoneAssumption
  <2>5. \A q \in Procs \ {p} : proc'[q] = proc[q]
    BY <1>4 DEF CreateNew
  <2>6. \A q \in Procs : Holding(q)' => q = p
    BY <2>2, <2>5
  <2> QED
    BY <2>3, <2>4, <2>6 DEF LockSound, JudgedSound
<1>5. ASSUME NEW p \in Procs, SeesStale(p)
      PROVE  LockSound' /\ JudgedSound'
  <2>1. UNCHANGED lock /\ proc'[p].at = "reclaim" /\ lock # None /\ lock.stale
    BY <1>5 DEF SeesStale
  <2>2. \A q \in Procs \ {p} : proc'[q] = proc[q]
    BY <1>5 DEF SeesStale
  <2> QED
    BY <2>1, <2>2, OutsideStep DEF JudgedSound
<1>6. ASSUME NEW p \in Procs, Reclaim(p)
      PROVE  LockSound' /\ JudgedSound'
  <2>1. judged' = {} /\ ~Robs(p)
    BY <1>6 DEF Reclaim
  <2>2. \A q \in Procs : ~Holding(q)
    <3> SUFFICES ASSUME NEW q \in Procs, Holding(q)
                 PROVE  FALSE
      OBVIOUS
    <3>1. lock # None /\ Holding(lock.by)
      BY DEF LockSound
    <3>2. p \in judged => lock.stale
      BY DEF JudgedSound
    <3> QED
      BY <2>1, <3>1, <3>2 DEF Robs
  <2>3. \A q \in Procs : ~Holding(q)'
    BY <1>6, <2>2 DEF Reclaim
  <2> QED
    BY <2>1, <2>3 DEF LockSound, JudgedSound
<1>7. ASSUME NEW p \in Procs, Check(p) \/ CreateTmp(p) \/ WriteTmp(p) \/ Rename(p) \/ PutFails(p)
      PROVE  LockSound' /\ JudgedSound'
  <2>1. Holding(p) /\ UNCHANGED <<lock, judged>> /\ proc'[p].at \in Critical
    BY <1>7 DEF Check, CreateTmp, WriteTmp, Rename, PutFails
  <2>2. \A q \in Procs \ {p} : proc'[q] = proc[q]
    BY <1>7 DEF Check, CreateTmp, WriteTmp, Rename, PutFails
  <2> QED
    BY <2>1, <2>2 DEF LockSound, JudgedSound
<1>8. ASSUME NEW p \in Procs, Release(p)
      PROVE  LockSound' /\ JudgedSound'
  <2>1. \A q \in Procs \ {p} : ~Holding(q)
    BY <1>8, LockExcludes DEF Release
  <2>2. judged' = {} /\ \A q \in Procs \ {p} : proc'[q] = proc[q]
    BY <1>8 DEF Release
  <2>3. proc'[p].at \in {"closed", "open"}
    BY <1>8 DEF Release
  <2>4. \A q \in Procs : ~Holding(q)'
    BY <2>1, <2>2, <2>3
  <2> HIDE DEF TypeOK, Holding, At
  <2> QED
    BY <2>2, <2>4 DEF LockSound, JudgedSound
<1>9. CASE Age
  <2>1. /\ lock \in [by : Procs, stale : BOOLEAN]
        /\ lock' = [lock EXCEPT !.stale = TRUE]
        /\ UNCHANGED <<proc, judged>>
    BY <1>9 DEF Age
  <2>2. lock' \in [by : Procs, stale : BOOLEAN] /\ lock'.stale /\ lock'.by = lock.by
    BY <2>1
  <2>3. lock' # None
    BY <2>2, NoneAssumption
  <2> QED
    BY <2>1, <2>2, <2>3 DEF LockSound, JudgedSound
<1> QED
  BY <1>1, <1>2, <1>3, <1>4, <1>5, <1>6, <1>7, <1>8, <1>9
     DEF Next, AcquireNext, PutNext

----------------------------------------------------------------------------
\* The steps that leave the file and the temporary file alone, and enter nothing.
LEMMA OutsideMoves ==
    ASSUME TypeOK, NEW p \in Procs,
           \/ Open(p) \/ Get(p) \/ CreateNew(p) \/ SeesStale(p) \/ Reclaim(p) \/ GiveUp(p)
           \/ Release(p) \/ Crash(p) \/ PutFails(p)
           \/ \E payload \in Payloads : Put(p, payload)
    PROVE  /\ UNCHANGED <<file, tmp>>
           /\ \A q \in Procs \ {p} : proc'[q] = proc[q]
           /\ proc'[p].at \notin {"create", "write", "rename"}
<1> USE DEF TypeOK, At, Goto, Return, Closed, Waiting, Critical
<1>1. CASE Open(p)
  BY <1>1 DEF Open
<1>2. CASE Get(p)
  BY <1>2 DEF Get
<1>3. CASE CreateNew(p)
  BY <1>3 DEF CreateNew
<1>4. CASE SeesStale(p)
  BY <1>4 DEF SeesStale
<1>5. CASE Reclaim(p)
  BY <1>5 DEF Reclaim
<1>6. CASE GiveUp(p)
  BY <1>6 DEF GiveUp
<1>7. CASE Release(p)
  BY <1>7 DEF Release
<1>8. CASE Crash(p)
  BY <1>8 DEF Crash
<1>9. CASE PutFails(p)
  BY <1>9 DEF PutFails
<1>10. ASSUME NEW payload \in Payloads, Put(p, payload)
       PROVE  /\ UNCHANGED <<file, tmp>>
              /\ \A q \in Procs \ {p} : proc'[q] = proc[q]
              /\ proc'[p].at \notin {"create", "write", "rename"}
  BY <1>10 DEF Put
<1> QED
  BY <1>1, <1>2, <1>3, <1>4, <1>5, <1>6, <1>7, <1>8, <1>9, <1>10

\* The steps of a put: what they do to their own process, and that they are inside.
LEMMA PutMoves ==
    ASSUME TypeOK, CallsSound, PutSound, NEW p \in Procs,
           Check(p) \/ CreateTmp(p) \/ WriteTmp(p) \/ Rename(p)
    PROVE  /\ Holding(p)
           /\ \A q \in Procs \ {p} : proc'[q] = proc[q]
           /\ proc[p].payload \in Bytes
           /\ file' \in {file, proc[p].payload}
           /\ Undisturbed(p)'
<1> USE DEF TypeOK, CallsSound, CallSound, PutSound, Undisturbed, At, Goto, Holding, Critical,
            TmpFile
<1>1. CASE Check(p)
  BY <1>1 DEF Check, Matches
<1>2. CASE CreateTmp(p)
  <2> DEFINE fresh == [payload |-> proc[p].payload, whole |-> FALSE]
  <2>1. proc[p].payload \in Bytes /\ At(p, "create")
    BY <1>2 DEF CreateTmp
  <2>2. fresh \in [payload : Bytes, whole : BOOLEAN] /\ fresh.payload = proc[p].payload
    BY <2>1
  <2>3. fresh # None
    BY <2>2, NoneAssumption DEF Bytes
  <2>4. tmp' = fresh /\ proc' = [proc EXCEPT ![p].at = "write"] /\ UNCHANGED file
    BY <1>2 DEF CreateTmp
  <2> HIDE DEF fresh
  <2> QED
    BY <2>1, <2>2, <2>3, <2>4
<1>3. CASE WriteTmp(p)
  <2>1. At(p, "write") /\ tmp \in [payload : Bytes, whole : BOOLEAN] /\ tmp.payload = proc[p].payload
    BY <1>3 DEF WriteTmp
  <2>2. tmp' = [tmp EXCEPT !.whole = TRUE]
    BY <1>3, <2>1 DEF WriteTmp
  <2>3. tmp' \in [payload : Bytes, whole : BOOLEAN] /\ tmp'.whole /\ tmp'.payload = proc[p].payload
    BY <2>1, <2>2
  <2>4. tmp' # None
    BY <2>3, NoneAssumption DEF Bytes
  <2>5. proc' = [proc EXCEPT ![p].at = "rename"] /\ UNCHANGED file
    BY <1>3 DEF WriteTmp
  <2> QED
    BY <2>1, <2>3, <2>4, <2>5
<1>4. CASE Rename(p)
  <2>1. At(p, "rename") /\ file' = proc[p].payload
    BY <1>4 DEF Rename
  <2>2. proc'[p].at = "release" /\ proc'[p].payload = proc[p].payload
            /\ \A q \in Procs \ {p} : proc'[q] = proc[q]
    BY <1>4 DEF Rename
  <2> QED
    BY <2>1, <2>2
<1> QED
  BY <1>1, <1>2, <1>3, <1>4

\* The put of one process leaves the file and the temporary file of another alone: it
\* touches them only inside, where nobody else is.
LEMMA PutStep ==
    ASSUME TypeOK, CallsSound, Exclusive, [Next]_vars
    PROVE  PutSound' /\ (file # Torn)'
<1> USE DEF Exclusive
<1>1. CASE UNCHANGED vars \/ Age
  BY <1>1 DEF vars, Age, PutSound, Undisturbed, At
<1>2. ASSUME NEW p \in Procs,
             Open(p) \/ Get(p) \/ CreateNew(p) \/ SeesStale(p) \/ Reclaim(p) \/ GiveUp(p)
                 \/ Release(p) \/ Crash(p) \/ PutFails(p)
                 \/ \E payload \in Payloads : Put(p, payload)
      PROVE  PutSound' /\ (file # Torn)'
  <2>1. /\ UNCHANGED <<file, tmp>>
        /\ \A q \in Procs \ {p} : proc'[q] = proc[q]
        /\ proc'[p].at \notin {"create", "write", "rename"}
    BY <1>2, OutsideMoves
  <2> QED
    BY <2>1 DEF PutSound, Undisturbed, At
<1>3. ASSUME NEW p \in Procs, Check(p) \/ CreateTmp(p) \/ WriteTmp(p) \/ Rename(p)
      PROVE  PutSound' /\ (file # Torn)'
  <2>1. /\ Holding(p)
        /\ \A q \in Procs \ {p} : proc'[q] = proc[q]
        /\ proc[p].payload \in Bytes
        /\ file' \in {file, proc[p].payload}
        /\ Undisturbed(p)'
    BY <1>3, PutMoves
  <2>2. (file # Torn)'
    BY <2>1, PayloadAssumption DEF Bytes
  <2>3. ASSUME NEW q \in Procs \ {p}
        PROVE  Undisturbed(q)'
    <3>1. ~Holding(q) /\ proc'[q] = proc[q]
      BY <2>1, LockExcludes
    <3> QED
      BY <3>1 DEF PutSound, Undisturbed, Holding, At, Critical
  <2> QED
    BY <2>1, <2>2, <2>3 DEF PutSound
<1> QED
  BY <1>1, <1>2, <1>3 DEF Next, AcquireNext, PutNext

----------------------------------------------------------------------------
(* The types. *)

Process == [at : {"closed", "open"} \cup Waiting \cup Critical,
            seen : Bytes \cup {None}, base : Bytes \cup {None},
            payload : Bytes \cup {None}]

\* What every step of a process does to it.
LEMMA ProcessStep ==
    ASSUME TypeOK, CallsSound, NEW p \in Procs, NEW state \in Process, CallSound(state),
           proc' = [proc EXCEPT ![p] = state]
    PROVE  /\ proc' \in [Procs -> Process]
           /\ \A q \in Procs : CallSound(proc'[q])
BY DEF TypeOK, Process, CallsSound, CallSound

LEMMA ProcTyped ==
    ASSUME TypeOK, CallsSound, [Next]_vars
    PROVE  proc' \in [Procs -> Process] /\ \A q \in Procs : CallSound(proc'[q])
<1> DEFINE Good == proc' \in [Procs -> Process] /\ \A q \in Procs : CallSound(proc'[q])
<1>a. proc \in [Procs -> Process] /\ \A q \in Procs : CallSound(proc[q])
  BY DEF TypeOK, Process, CallsSound
<1>1. CASE UNCHANGED proc
  BY <1>a, <1>1
<1>2. ASSUME NEW p \in Procs, NEW where \in Waiting \cup Critical, Goto(p, where),
             proc[p].at \notin {"closed", "open"}
      PROVE  Good
  <2>1. proc' = [proc EXCEPT ![p] = [proc[p] EXCEPT !.at = where]]
    BY <1>2 DEF Goto
  <2>2. [proc[p] EXCEPT !.at = where] \in Process
    BY <1>a, <1>2 DEF Process
  <2>3. CallSound([proc[p] EXCEPT !.at = where])
    BY <1>a, <1>2 DEF Process, CallSound, Waiting, Critical
  <2> QED
    BY <2>1, <2>2, <2>3, ProcessStep
<1>3. ASSUME NEW p \in Procs, NEW where \in {"closed", "open"}, Return(p, where)
      PROVE  Good
  <2> DEFINE state == [Closed EXCEPT !.at = where, !.seen = proc[p].seen]
  <2>1. proc[p].seen \in Bytes \cup {None}
    BY <1>a DEF Process
  <2>2. state \in Process /\ CallSound(state)
    BY <2>1 DEF Closed, Process, CallSound
  <2>3. proc' = [proc EXCEPT ![p] = state]
    BY <1>3 DEF Return
  <2> HIDE DEF state
  <2> QED
    BY <2>2, <2>3, ProcessStep
<1>4. ASSUME NEW p \in Procs, Open(p)
      PROVE  Good
  <2> DEFINE bootstrap == [Closed EXCEPT !.at = "acquire", !.payload = Empty]
             opened == [Closed EXCEPT !.at = "open"]
  <2>1. bootstrap \in Process /\ CallSound(bootstrap)
    BY DEF Closed, Process, CallSound, Bytes, Waiting
  <2>2. opened \in Process /\ CallSound(opened)
    BY DEF Closed, Process, CallSound
  <2>3. \/ proc' = [proc EXCEPT ![p] = bootstrap]
        \/ proc' = [proc EXCEPT ![p] = opened]
    BY <1>4 DEF Open
  <2> HIDE DEF bootstrap, opened
  <2> QED
    BY <2>1, <2>2, <2>3, ProcessStep
<1>5. ASSUME NEW p \in Procs, Get(p)
      PROVE  Good
  <2> DEFINE known == IF file = Torn THEN proc[p].seen ELSE file
             state == [proc[p] EXCEPT !.seen = known]
  <2>1. known \in Bytes \cup {None}
    BY <1>a DEF TypeOK, Process
  <2>3. proc' = [proc EXCEPT ![p] = state]
    BY <1>5 DEF Get
  <2>2. state \in Process /\ CallSound(state)
    <3> HIDE DEF known
    <3> QED
      BY <1>a, <2>1 DEF Process, CallSound
  <2> HIDE DEF state
  <2> QED
    BY <2>2, <2>3, ProcessStep
<1>6. ASSUME NEW p \in Procs, NEW payload \in Payloads, Put(p, payload)
      PROVE  Good
  <2> DEFINE state == [at |-> "acquire", seen |-> None, base |-> proc[p].seen, payload |-> payload]
  <2>1. proc' = [proc EXCEPT ![p] = state]
    BY <1>6 DEF Put
  <2>2. state \in Process /\ CallSound(state)
    BY <1>a DEF Process, CallSound, Bytes, Waiting
  <2> HIDE DEF state
  <2> QED
    BY <2>1, <2>2, ProcessStep
<1>7. ASSUME NEW p \in Procs, Rename(p)
      PROVE  Good
  <2> DEFINE state == [proc[p] EXCEPT !.at = "release",
                                      !.seen = IF Bootstraps(p) THEN None ELSE proc[p].payload]
  <2>1. proc' = [proc EXCEPT ![p] = state]
    BY <1>7 DEF Rename
  <2>2. proc[p].payload \in Bytes
    BY <1>a, <1>7 DEF Rename, CallSound, At
  <2>3. state \in Process /\ CallSound(state)
    BY <1>a, <2>2 DEF Process, CallSound, Critical
  <2> HIDE DEF state
  <2> QED
    BY <2>1, <2>3, ProcessStep
<1>8. ASSUME NEW p \in Procs, Crash(p)
      PROVE  Good
  <2>1. Closed \in Process /\ CallSound(Closed)
    BY DEF Closed, Process, CallSound
  <2> QED
    BY <1>8, <2>1, ProcessStep DEF Crash
<1>9. ASSUME NEW p \in Procs,
             \/ CreateNew(p) \/ SeesStale(p) \/ Reclaim(p)
             \/ Check(p) \/ CreateTmp(p) \/ WriteTmp(p) \/ PutFails(p)
      PROVE  Good
  <2>1. /\ \E where \in Waiting \cup Critical : Goto(p, where)
        /\ proc[p].at \notin {"closed", "open"}
    BY <1>9 DEF CreateNew, SeesStale, Reclaim, Check, CreateTmp, WriteTmp, PutFails, Waiting,
                Critical, At
  <2> QED
    BY <1>2, <2>1
<1>10. ASSUME NEW p \in Procs, GiveUp(p) \/ Release(p)
       PROVE  Good
  <2>1. \E where \in {"closed", "open"} : Return(p, where)
    BY <1>10 DEF GiveUp, Release
  <2> QED
    BY <1>3, <2>1
<1>11. UNCHANGED vars \/ Age => UNCHANGED proc
  BY DEF vars, Age
<1> QED
  BY <1>1, <1>4, <1>5, <1>6, <1>7, <1>8, <1>9, <1>10, <1>11 DEF Next, AcquireNext, PutNext

LEMMA TypeStep ==
    ASSUME TypeOK, CallsSound, [Next]_vars
    PROVE  TypeOK'
<1>1. file' \in Bytes \cup {None, Torn}
  BY DEF TypeOK, CallsSound, CallSound, At, Critical, TmpFile, Next, vars, history, AcquireNext, PutNext,
         Open, Get, Put, CreateNew, SeesStale, Reclaim, GiveUp, Check, CreateTmp, WriteTmp,
         Rename, PutFails, Release, Crash, Age
<1>2. lock' \in Lockfile \cup {None}
  <2>1. CASE Age
    <3>1. lock \in Lockfile /\ lock' = [lock EXCEPT !.stale = TRUE]
      BY <2>1 DEF Age, TypeOK
    <3> QED
      BY <3>1 DEF Lockfile
  <2>2. CASE ~Age
    <3>1. \/ lock' \in {lock, None}
          \/ \E p \in Procs : lock' = [by |-> p, stale |-> FALSE]
      BY <2>2 DEF Next, vars, history, AcquireNext, PutNext,
           Open, Get, Put, CreateNew, SeesStale, Reclaim, GiveUp, Check, CreateTmp, WriteTmp,
           Rename, PutFails, Release, Crash, Age
    <3>2. \A p \in Procs : [by |-> p, stale |-> FALSE] \in Lockfile
      BY DEF Lockfile
    <3>3. {lock, None} \subseteq Lockfile \cup {None}
      BY DEF TypeOK
    <3> HIDE DEF Lockfile
    <3> QED
      BY <3>1, <3>2, <3>3, Zenon
  <2> QED
    BY <2>1, <2>2
<1>3. tmp' \in TmpFile \cup {None}
  <2>1. CASE \E p \in Procs : CreateTmp(p)
    <3>1. PICK p \in Procs : At(p, "create") /\ tmp' = [payload |-> proc[p].payload, whole |-> FALSE]
      BY <2>1 DEF CreateTmp
    <3>2. proc[p].payload \in Bytes
      BY <3>1 DEF CallsSound, CallSound, At, Critical
    <3> QED
      BY <3>1, <3>2 DEF TmpFile
  <2>2. CASE \E p \in Procs : WriteTmp(p)
    <3>1. \/ tmp' = tmp
          \/ tmp # None /\ tmp' = [tmp EXCEPT !.whole = TRUE]
      BY <2>2 DEF WriteTmp
    <3> QED
      BY <3>1 DEF TypeOK, TmpFile
  <2>3. CASE \A p \in Procs : ~CreateTmp(p) /\ ~WriteTmp(p)
    <3>1. tmp' \in {tmp, None}
      BY <2>3 DEF Next, vars, history, AcquireNext, PutNext,
           Open, Get, Put, CreateNew, SeesStale, Reclaim, GiveUp, Check,
           Rename, PutFails, Release, Crash, Age
    <3> QED
      BY <3>1 DEF TypeOK
  <2> QED
    BY <2>1, <2>2, <2>3
<1>4. used' \subseteq Payloads
  BY DEF TypeOK, Next, vars, history, AcquireNext, PutNext,
         Open, Get, Put, CreateNew, SeesStale, Reclaim, GiveUp, Check, CreateTmp, WriteTmp,
         Rename, PutFails, Release, Crash, Age
<1>5. crashes' \in 0..MaxCrashes
  <2>1. \/ crashes' = crashes
        \/ crashes < MaxCrashes /\ crashes' = crashes + 1
    BY DEF Next, vars, history, AcquireNext, PutNext,
           Open, Get, Put, CreateNew, SeesStale, Reclaim, GiveUp, Check, CreateTmp, WriteTmp,
           Rename, PutFails, Release, Crash, Age
  <2> QED
    BY <2>1, CrashAssumption DEF TypeOK
<1>6. judged' \subseteq {p \in Procs : At(p, "reclaim")'}
  <2>1. CASE UNCHANGED vars \/ Age
    BY <2>1 DEF TypeOK, vars, history, Age, At
  <2>2. ASSUME NEW p \in Procs, SeesStale(p)
        PROVE  judged' \subseteq {q \in Procs : At(q, "reclaim")'}
    <3>1. judged' = judged \cup {p} /\ proc' = [proc EXCEPT ![p].at = "reclaim"]
      BY <2>2 DEF SeesStale, Goto
    <3>2. \A q \in Procs : proc'[q].at = IF q = p THEN "reclaim" ELSE proc[q].at
      BY <3>1 DEF TypeOK
    <3> QED
      BY <3>1, <3>2 DEF TypeOK, At
  <2>3. ASSUME NEW p \in Procs, Reclaim(p) \/ Release(p)
        PROVE  judged' \subseteq {q \in Procs : At(q, "reclaim")'}
    BY <2>3 DEF Reclaim, Release
  <2>4. ASSUME NEW p \in Procs,
               \/ Open(p) \/ Get(p) \/ CreateNew(p) \/ GiveUp(p) \/ Check(p) \/ CreateTmp(p)
               \/ WriteTmp(p) \/ Rename(p) \/ PutFails(p) \/ Crash(p)
               \/ \E payload \in Payloads : Put(p, payload)
        PROVE  judged' \subseteq {q \in Procs : At(q, "reclaim")'}
    <3>1. judged' \in {judged, judged \ {p}} /\ (At(p, "reclaim") => judged' = judged \ {p})
      BY <2>4 DEF history, At, Open, Get, CreateNew, GiveUp, Check, CreateTmp, WriteTmp, Rename,
                  PutFails, Crash, Put
    <3>2. p \notin judged'
      BY <3>1 DEF TypeOK
    <3>3. \A q \in Procs \ {p} : proc'[q] = proc[q]
      BY <2>4 DEF TypeOK, Goto, Return, Open, Get, CreateNew, GiveUp, Check, CreateTmp, WriteTmp,
                  Rename, PutFails, Crash, Put
    <3> QED
      BY <3>1, <3>2, <3>3 DEF TypeOK, At
  <2> QED
    BY <2>1, <2>2, <2>3, <2>4 DEF Next, AcquireNext, PutNext
<1>7. robbed' \in BOOLEAN
  BY DEF TypeOK, Next, vars, history, AcquireNext, PutNext, Robs,
         Open, Get, Put, CreateNew, SeesStale, Reclaim, GiveUp, Check, CreateTmp, WriteTmp,
         Rename, PutFails, Release, Crash, Age
<1> QED
  BY <1>1, <1>2, <1>3, <1>4, <1>5, <1>6, <1>7, ProcTyped DEF TypeOK, Process

----------------------------------------------------------------------------
\* The inductive invariant, and what it gives for every number of processes.
THEOREM Soundness == Spec => []IInv
<1>1. IInv /\ [Next]_vars => IInv'
  <2> SUFFICES ASSUME IInv, [Next]_vars
               PROVE  IInv'
    OBVIOUS
  <2>1. TypeOK' /\ CallsSound'
    BY TypeStep, ProcTyped DEF IInv, CallsSound
  <2>2. ASSUME ~robbed'
        PROVE  Exclusive'
    <3>1. ~robbed
      BY <2>2, RobbedStays DEF IInv
    <3> QED
      BY <2>2, <3>1, LockStep, PutStep DEF IInv, Exclusive
  <2> QED
    BY <2>1, <2>2 DEF IInv
<1> QED
  BY <1>1, InitSound, PTL DEF Spec

\* The types, for any bounds, robbed or not: nobody builds on bytes that do not parse.
THEOREM TypeCorrectness == Spec => []TypeOK
<1>1. IInv => TypeOK
  BY DEF IInv
<1> QED
  BY <1>1, Soundness, PTL

\* acquire_lock and LockGuard: one process at a time is between them, although crashed
\* processes leave their lockfiles behind and any number of others take those away, until
\* a reclaim takes the lockfile of a process inside.
THEOREM OneInside == Spec => []MutualExclusion
<1>1. IInv => MutualExclusion
  BY DEF IInv, Exclusive, LockSound, MutualExclusion
<1> QED
  BY <1>1, Soundness, PTL

\* The data file is a complete payload wherever processes die, until one inside is robbed.
THEOREM NoTornFile == Spec => []NeverTorn
<1>1. IInv => NeverTorn
  BY DEF IInv, Exclusive, NeverTorn
<1> QED
  BY <1>1, Soundness, PTL

\* put: what was checked under the lock still holds at the rename, unless somebody's
\* lockfile has been taken away.
THEOREM StaleCommitsFail == Spec => StaleCommitFailsUnlessRobbed
<1>1. IInv /\ [Next]_vars => [~robbed => Honoured]_vars
  <2> SUFFICES ASSUME IInv, Next, ~robbed, file' # file
               PROVE  Honoured
    BY DEF vars, Honoured
  <2>1. PICK p \in Procs : Rename(p)
    BY DEF Next, AcquireNext, PutNext,
           Open, Get, Put, CreateNew, SeesStale, Reclaim, GiveUp, Check, CreateTmp, WriteTmp,
           PutFails, Release, Crash, Age
  <2>2. At(p, "rename") /\ file = proc[p].base
    BY <2>1 DEF Rename, IInv, Exclusive, PutSound, Undisturbed, At
  <2>3. proc'[p].at = "release"
    BY <2>1 DEF Rename, IInv, TypeOK
  <2> QED
    BY <2>2, <2>3 DEF Honoured
<1> QED
  BY <1>1, Soundness, PTL DEF StaleCommitFailsUnlessRobbed, Spec

----------------------------------------------------------------------------
(* The refinement of ConditionalStore. *)

\* Who has not opened the store, or is about to bootstrap it, has seen nothing of it.
Uninformed(p) ==
    /\ At(p, "closed") \/ Bootstraps(p) => proc[p].seen = None
    /\ At(p, "abort") => Bootstraps(p)

KnowsSound == \A p \in Procs : Uninformed(p)

\* The processes that end a put or open the store know what they should.
LEMMA KnowsStep ==
    ASSUME TypeOK, CallsSound, KnowsSound, [Next]_vars
    PROVE  KnowsSound'
<1> USE PayloadAssumption
<1> USE DEF TypeOK, At, Bootstraps, Goto, Return, Closed
<1>1. CASE UNCHANGED vars \/ Age
  BY <1>1 DEF vars, Age, KnowsSound, Uninformed
<1>2. ASSUME NEW p \in Procs, \A q \in Procs \ {p} : proc'[q] = proc[q], Uninformed(p)'
      PROVE  KnowsSound'
  BY <1>2 DEF KnowsSound, Uninformed
<1>3. ASSUME NEW p \in Procs, NEW payload \in Payloads, Put(p, payload)
      PROVE  KnowsSound'
  BY <1>2, <1>3 DEF Put, Uninformed
<1>4. ASSUME NEW p \in Procs,
             \/ Open(p) \/ Get(p) \/ CreateNew(p) \/ SeesStale(p) \/ Reclaim(p) \/ GiveUp(p)
             \/ Check(p) \/ CreateTmp(p) \/ WriteTmp(p) \/ Rename(p) \/ PutFails(p)
             \/ Release(p) \/ Crash(p)
      PROVE  KnowsSound'
  <2>1. \A q \in Procs \ {p} : proc'[q] = proc[q]
    BY <1>4 DEF Open, Get, CreateNew, SeesStale, Reclaim, GiveUp, Check, CreateTmp, WriteTmp,
                Rename, PutFails, Release, Crash
  <2>2. Uninformed(p)
    BY DEF KnowsSound
  <2> USE DEF Uninformed
  <2>3. CASE Open(p)
    <3>1. proc'[p].seen = None /\ proc'[p].at \in {"acquire", "open"}
      BY <2>3 DEF Open
    <3> QED
      BY <1>2, <2>1, <3>1
  <2>11. CASE Get(p)
    <3>1. proc'[p].at = "open" /\ proc'[p].payload = proc[p].payload
      BY <2>11 DEF Get
    <3>2. proc[p].payload = None
      BY <2>11 DEF Get, CallsSound, CallSound
    <3> QED
      BY <1>2, <2>1, <3>1, <3>2
  <2>4. CASE CreateNew(p) \/ SeesStale(p) \/ Reclaim(p)
    BY <1>2, <2>1, <2>2, <2>4 DEF CreateNew, SeesStale, Reclaim
  <2>5. CASE GiveUp(p)
    BY <1>2, <2>1, <2>2, <2>5 DEF GiveUp
  <2>6. CASE Check(p) \/ CreateTmp(p) \/ WriteTmp(p)
    BY <1>2, <2>1, <2>2, <2>6 DEF Check, CreateTmp, WriteTmp
  <2>7. CASE Rename(p)
    BY <1>2, <2>1, <2>2, <2>7 DEF Rename
  <2>8. CASE PutFails(p)
    BY <1>2, <2>1, <2>2, <2>8 DEF PutFails
  <2>9. CASE Release(p)
    BY <1>2, <2>1, <2>2, <2>9 DEF Release
  <2>10. CASE Crash(p)
    BY <1>2, <2>1, <2>2, <2>10 DEF Crash
  <2> QED
    BY <1>4, <2>3, <2>4, <2>5, <2>6, <2>7, <2>8, <2>9, <2>10, <2>11
<1> QED
  BY <1>1, <1>3, <1>4 DEF Next, AcquireNext, PutNext

\* A step of one process leaves the calls of the others, and what they have seen, alone.
LEMMA OthersKept ==
    ASSUME TypeOK, NEW p \in Procs, \A q \in Procs \ {p} : proc'[q] = proc[q]
    PROVE  /\ Calls' = [Calls EXCEPT ![p] = Call(p)']
           /\ Seen' = [Seen EXCEPT ![p] = proc'[p].seen]
           /\ Calls[p] = Call(p) /\ Seen[p] = proc[p].seen
<1>1. \A q \in Procs \ {p} : Call(q)' = Call(q)
  BY DEF Call, Pending
<1> HIDE DEF Call
<1> QED
  BY <1>1 DEF Calls, Seen

\* A process in a put has a call, and one that is not has none.
LEMMA CallOf ==
    ASSUME CallsSound, NEW p \in Procs
    PROVE  /\ Pending(p) =>
                  /\ Call(p) = [base |-> proc[p].base, object |-> proc[p].payload]
                  /\ proc[p].payload \in Bytes
                  /\ Call(p) # Store!NoCall
           /\ ~Pending(p) => Call(p) = Store!NoCall
<1>1. Pending(p) => proc[p].payload \in Bytes
  BY DEF CallsSound, CallSound, Pending, Waiting
<1>2. None \notin Bytes
  BY PayloadAssumption DEF Bytes
<1> QED
  BY <1>1, <1>2 DEF Call, Store!NoCall

\* The steps that the store's clients do not see.
LEMMA SilentStep ==
    ASSUME TypeOK, KnowsSound, NEW p \in Procs,
           \/ CreateNew(p) \/ SeesStale(p) \/ Reclaim(p) \/ CreateTmp(p) \/ WriteTmp(p)
           \/ Release(p) \/ (Check(p) /\ Matches(p)) \/ (Open(p) /\ file # None)
    PROVE  UNCHANGED Store!vars
<1> USE DEF TypeOK, At, Goto, Return, Closed, Pending, Waiting
<1>1. CASE CreateNew(p) \/ SeesStale(p) \/ Reclaim(p)
  <2>1. /\ UNCHANGED file /\ \A q \in Procs \ {p} : proc'[q] = proc[q]
        /\ Call(p)' = Call(p) /\ proc'[p].seen = proc[p].seen
    BY <1>1 DEF CreateNew, SeesStale, Reclaim, Call
  <2> QED
    BY <2>1, OthersKept DEF Store!vars, Calls, Seen
<1>2. CASE CreateTmp(p) \/ WriteTmp(p) \/ (Check(p) /\ Matches(p))
  <2>1. /\ UNCHANGED file /\ \A q \in Procs \ {p} : proc'[q] = proc[q]
        /\ Call(p)' = Call(p) /\ proc'[p].seen = proc[p].seen
    BY <1>2 DEF CreateTmp, WriteTmp, Check, Call
  <2> QED
    BY <2>1, OthersKept DEF Store!vars, Calls, Seen
<1>3. CASE Release(p)
  <2>1. /\ UNCHANGED file /\ \A q \in Procs \ {p} : proc'[q] = proc[q]
        /\ Call(p)' = Call(p) /\ proc'[p].seen = proc[p].seen
    BY <1>3 DEF Release, Call
  <2> QED
    BY <2>1, OthersKept DEF Store!vars, Calls, Seen
<1>4. CASE Open(p) /\ file # None
  <2>1. /\ UNCHANGED file /\ \A q \in Procs \ {p} : proc'[q] = proc[q]
        /\ Call(p)' = Call(p) /\ proc'[p].seen = proc[p].seen
    BY <1>4 DEF Open, Call, KnowsSound, Uninformed
  <2> QED
    BY <2>1, OthersKept DEF Store!vars, Calls, Seen
<1> QED
  BY <1>1, <1>2, <1>3, <1>4

\* A put begins: one of a process that has the store open, or a bootstrap.
LEMMA BeginStep ==
    ASSUME TypeOK, CallsSound, NEW p \in Procs,
           \/ Open(p) /\ file = None
           \/ \E payload \in Payloads : Put(p, payload)
    PROVE  Store!Next
<1> USE DEF TypeOK, At, Closed, Pending, Waiting
<1>1. ASSUME NEW base \in {proc[p].seen, None}, NEW object \in Bytes, ~Pending(p),
             \A q \in Procs \ {p} : proc'[q] = proc[q],
             proc'[p].at = "acquire", proc'[p].seen = None,
             proc'[p].base = base, proc'[p].payload = object, UNCHANGED file
      PROVE  Store!Next
  <2>1. Call(p)' = [base |-> base, object |-> object]
    BY <1>1 DEF Call
  <2>2. Call(p) = Store!NoCall
    BY <1>1, CallOf
  <2>3. Store!Begin(p, base, object)
    BY <1>1, <2>1, <2>2, OthersKept DEF Store!Begin
  <2>4. base \in {Seen[p], None}
    BY <1>1 DEF Seen
  <2> QED
    BY <2>3, <2>4 DEF Store!Next
<1>2. CASE Open(p) /\ file = None
  BY <1>1, <1>2 DEF Open, Bytes
<1>3. ASSUME NEW payload \in Payloads, Put(p, payload)
      PROVE  Store!Next
  BY <1>1, <1>3 DEF Put, Bytes
<1> QED
  BY <1>2, <1>3

\* A put takes effect at the rename, and only there.
LEMMA LandStep ==
    ASSUME TypeOK, CallsSound, Exclusive, NEW p \in Procs, Rename(p)
    PROVE  Store!Next
<1> USE DEF Exclusive
<1>1. At(p, "rename") /\ Pending(p)
  BY DEF Rename, At, Pending
<1>2. file = proc[p].base /\ file' = proc[p].payload
  BY <1>1 DEF PutSound, Undisturbed, Rename, At
<1>3. /\ \A q \in Procs \ {p} : proc'[q] = proc[q]
      /\ proc'[p].at = "release"
      /\ proc'[p].seen \in {proc[p].payload, None}
  BY DEF TypeOK, Rename
<1>4. Call(p)' = Store!NoCall
  BY <1>3 DEF Call, Pending, Waiting, Store!NoCall
<1>5. Store!Land(p)
  BY <1>1, <1>2, <1>3, <1>4, OthersKept, CallOf DEF Store!Land, Store!Ends
<1> QED
  BY <1>5 DEF Store!Next

\* A put that ends in any other way had no effect.
LEMMA FailStep ==
    ASSUME TypeOK, CallsSound, NEW p \in Procs,
           GiveUp(p) \/ (Check(p) /\ ~Matches(p)) \/ PutFails(p)
    PROVE  Store!Next
<1> USE DEF TypeOK, At, Goto, Return, Closed, Waiting
<1>1. /\ UNCHANGED file /\ \A q \in Procs \ {p} : proc'[q] = proc[q]
      /\ Pending(p) /\ ~Pending(p)' /\ proc'[p].seen = proc[p].seen
  <2>1. CASE GiveUp(p)
    BY <2>1 DEF GiveUp, Pending
  <2>2. CASE Check(p) /\ ~Matches(p)
    BY <2>2 DEF Check, Pending
  <2>3. CASE PutFails(p)
    BY <2>3 DEF PutFails, Pending
  <2> QED
    BY <2>1, <2>2, <2>3
<1>2. Call(p)' = Store!NoCall
  BY <1>1 DEF Call, Pending, Store!NoCall
<1>3. Seen' = Seen
  BY <1>1 DEF Seen
<1>4. Store!Fail(p)
  BY <1>1, <1>2, <1>3, OthersKept, CallOf DEF Store!Fail, Store!Ends
<1> QED
  BY <1>4 DEF Store!Next

\* A process that dies takes its call and its knowledge with it.
LEMMA CrashStep ==
    ASSUME TypeOK, NEW p \in Procs, Crash(p)
    PROVE  Store!Next
<1>1. /\ UNCHANGED file /\ \A q \in Procs \ {p} : proc'[q] = proc[q]
      /\ proc'[p].at = "closed" /\ proc'[p].seen = None
  BY DEF TypeOK, Crash, Closed
<1>2. Call(p)' = Store!NoCall
  BY <1>1 DEF Call, Pending, Waiting, Store!NoCall
<1>3. Store!Crash(p)
  BY <1>1, <1>2, OthersKept DEF Store!Crash, Store!Ends
<1> QED
  BY <1>3 DEF Store!Next

\* A read that parses sees the whole of one object.
LEMMA ReadStep ==
    ASSUME TypeOK, CallsSound, file # Torn, NEW p \in Procs, Get(p)
    PROVE  Store!Next
<1>1. /\ UNCHANGED file /\ \A q \in Procs \ {p} : proc'[q] = proc[q]
      /\ At(p, "open") /\ proc'[p].at = "open" /\ proc'[p].seen = file
      /\ proc'[p].base = proc[p].base /\ proc'[p].payload = proc[p].payload
  BY DEF TypeOK, Get, At
<1>2. ~Pending(p) /\ Call(p)' = Call(p)
  BY <1>1 DEF Call, Pending, Waiting, At
<1>3. Call(p) = Store!NoCall
  BY <1>2, CallOf
<1>4. Calls' = Calls
  BY <1>1, <1>2, OthersKept DEF Calls
<1>5. Store!Read(p)
  BY <1>1, <1>3, <1>4, OthersKept DEF Store!Read
<1> QED
  BY <1>5 DEF Store!Next

\* The local store is an atomic conditional write, for any number of processes, payloads,
\* crashes and reclaimers, until a process inside is robbed: what Provider takes for
\* granted of a blob store.
THEOREM Implementation == Spec => ImplementsConditionalStore
<1>1. Init => Store!Init
  BY PayloadAssumption
     DEF Init, Store!Init, Store!NoCall, Calls, Seen, Call, Pending, Waiting, Closed
<1>2. Init => KnowsSound
  <2>1. Closed.at = "closed" /\ Closed.seen = None
    BY DEF Closed
  <2> QED
    BY <2>1 DEF Init, KnowsSound, Uninformed, At
<1>3. IInv /\ KnowsSound /\ [Next]_vars => KnowsSound'
  BY KnowsStep DEF IInv
<1>4. IInv /\ KnowsSound /\ [Next]_vars => [robbed \/ Store!Next]_(Store!vars)
  <2> SUFFICES ASSUME IInv, KnowsSound, [Next]_vars, ~robbed
               PROVE  Store!Next \/ UNCHANGED Store!vars
    OBVIOUS
  <2> USE DEF IInv
  <2>1. CASE UNCHANGED vars \/ Age
    <3>1. UNCHANGED <<file, proc>>
      BY <2>1 DEF vars, Age
    <3> QED
      BY <3>1 DEF Store!vars, Calls, Seen, Call, Pending
  <2>2. ASSUME NEW p \in Procs, AcquireNext(p)
        PROVE  Store!Next \/ UNCHANGED Store!vars
    BY <2>2, SilentStep, FailStep DEF AcquireNext
  <2>3. ASSUME NEW p \in Procs, PutNext(p)
        PROVE  Store!Next \/ UNCHANGED Store!vars
    BY <2>3, SilentStep, LandStep, FailStep DEF PutNext
  <2>4. ASSUME NEW p \in Procs, Open(p) \/ Get(p) \/ Crash(p)
                                    \/ \E payload \in Payloads : Put(p, payload)
        PROVE  Store!Next \/ UNCHANGED Store!vars
    BY <2>4, SilentStep, BeginStep, ReadStep, CrashStep DEF Exclusive
  <2> QED
    BY <2>1, <2>2, <2>3, <2>4 DEF Next
<1> QED
  BY <1>1, <1>2, <1>3, <1>4, Soundness, PTL DEF Spec, ImplementsConditionalStore, Store!Spec
=============================================================================
