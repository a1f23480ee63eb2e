-------------------------- MODULE SyncEngineProofs --------------------------
(***************************************************************************)
(* The sync engine keeps its safety properties for any number of callers,  *)
(* updates, other devices and retries, in both commit modes.               *)
(***************************************************************************)
EXTENDS SyncEngine, FiniteSetTheorems, SequenceTheorems, TLAPS

----------------------------------------------------------------------------
(* The commits in a queue of tasks. *)

CommitsIn(q) == {i \in DOMAIN q : q[i].do = "commit"}

WritesIn(q) == {q[i].write : i \in CommitsIn(q)}

LEMMA CommitsFinite ==
    ASSUME NEW q \in Seq(Task)
    PROVE  IsFiniteSet(CommitsIn(q)) /\ Cardinality(CommitsIn(q)) \in Nat
<1>1. Len(q) \in Nat /\ DOMAIN q = 1..Len(q)
  BY LenProperties
<1>2. IsFiniteSet(1..Len(q))
  BY <1>1, FS_Interval
<1>3. CommitsIn(q) \in SUBSET (1..Len(q))
  BY <1>1 DEF CommitsIn
<1>4. IsFiniteSet(CommitsIn(q))
  BY <1>2, <1>3, FS_Subset
<1> QED
  BY <1>4, FS_CardinalityType

\* A task sent to the worker goes behind all the others.
LEMMA AppendTask ==
    ASSUME NEW q \in Seq(Task), NEW e \in Task
    PROVE  /\ Append(q, e) \in Seq(Task)
           /\ DOMAIN Append(q, e) = (DOMAIN q) \cup {Len(q) + 1}
           /\ DOMAIN q = 1..Len(q) /\ Len(q) \in Nat
           /\ Len(Append(q, e)) = Len(q) + 1
           /\ Append(q, e)[Len(q) + 1] = e
           /\ \A i \in DOMAIN q : Append(q, e)[i] = q[i]
<1>1. Len(q) \in Nat /\ DOMAIN q = 1..Len(q)
  BY LenProperties
<1>2. Append(q, e) \in Seq(Task) /\ Len(Append(q, e)) = Len(q) + 1
  BY AppendProperties
<1>3. DOMAIN Append(q, e) = 1..(Len(q) + 1)
  BY <1>2, LenProperties
<1>4. Append(q, e)[Len(q) + 1] = e /\ \A i \in 1..Len(q) : Append(q, e)[i] = q[i]
  BY <1>1, AppendProperties
<1> QED
  BY <1>1, <1>2, <1>3, <1>4

LEMMA AppendCommits ==
    ASSUME NEW q \in Seq(Task), NEW e \in Task
    PROVE  IF e.do = "commit"
           THEN /\ WritesIn(Append(q, e)) = WritesIn(q) \cup {e.write}
                /\ Cardinality(CommitsIn(Append(q, e))) = Cardinality(CommitsIn(q)) + 1
           ELSE /\ WritesIn(Append(q, e)) = WritesIn(q)
                /\ CommitsIn(Append(q, e)) = CommitsIn(q)
<1> DEFINE r == Append(q, e)
           n == Len(q) + 1
<1>1. /\ DOMAIN r = (DOMAIN q) \cup {n} /\ r[n] = e /\ n \notin DOMAIN q
      /\ \A i \in DOMAIN q : r[i] = q[i]
  BY AppendTask
<1> HIDE DEF r, n
<1>2. CASE e.do = "commit"
  <2>1. CommitsIn(r) = CommitsIn(q) \cup {n} /\ n \notin CommitsIn(q)
    BY <1>1, <1>2 DEF CommitsIn
  <2>2. Cardinality(CommitsIn(r)) = Cardinality(CommitsIn(q)) + 1
    BY <2>1, CommitsFinite, FS_AddElement
  <2>3. \A i \in CommitsIn(q) : r[i].write = q[i].write
    BY <1>1 DEF CommitsIn
  <2>4. WritesIn(r) = WritesIn(q) \cup {e.write}
    BY <1>1, <2>1, <2>3 DEF WritesIn
  <2> QED
    BY <1>2, <2>2, <2>4 DEF r
<1>3. CASE e.do # "commit"
  <2>1. CommitsIn(r) = CommitsIn(q)
    BY <1>1, <1>3 DEF CommitsIn
  <2>2. \A i \in CommitsIn(q) : r[i].write = q[i].write
    BY <1>1 DEF CommitsIn
  <2>3. WritesIn(r) = WritesIn(q)
    BY <2>1, <2>2 DEF WritesIn
  <2> QED
    BY <1>3, <2>1, <2>3 DEF r
<1> QED
  BY <1>2, <1>3

\* The worker takes the first task.
LEMMA TailTask ==
    ASSUME NEW q \in Seq(Task), q # <<>>
    PROVE  /\ Tail(q) \in Seq(Task) /\ Head(q) \in Task
           /\ DOMAIN q = 1..Len(q) /\ Len(q) \in Nat \ {0}
           /\ Len(Tail(q)) = Len(q) - 1
           /\ DOMAIN Tail(q) = 1..(Len(q) - 1)
           /\ Head(q) = q[1]
           /\ \A i \in 1..(Len(q) - 1) : Tail(q)[i] = q[i + 1]
<1>1. Len(q) \in Nat \ {0} /\ DOMAIN q = 1..Len(q)
  BY LenProperties, EmptySeq
<1>2. /\ Tail(q) \in Seq(Task) /\ Head(q) \in Task /\ Len(Tail(q)) = Len(q) - 1
      /\ \A i \in 1..Len(Tail(q)) : Tail(q)[i] = q[i + 1]
  BY HeadTailProperties
<1>3. DOMAIN Tail(q) = 1..(Len(q) - 1)
  BY <1>2, LenProperties
<1>4. Head(q) = q[1]
  BY <1>1
<1> QED
  BY <1>1, <1>2, <1>3, <1>4

LEMMA TailCommits ==
    ASSUME NEW q \in Seq(Task), q # <<>>
    PROVE  IF Head(q).do = "commit"
           THEN /\ WritesIn(q) = WritesIn(Tail(q)) \cup {Head(q).write}
                /\ Cardinality(CommitsIn(q)) = Cardinality(CommitsIn(Tail(q))) + 1
           ELSE /\ WritesIn(q) = WritesIn(Tail(q))
                /\ Cardinality(CommitsIn(q)) = Cardinality(CommitsIn(Tail(q)))
<1> DEFINE r == Tail(q)
           S == CommitsIn(r)
           T == CommitsIn(q) \ {1}
           f == [i \in S |-> i + 1]
<1>1. /\ DOMAIN q = 1..Len(q) /\ Len(q) \in Nat \ {0} /\ DOMAIN r = 1..(Len(q) - 1)
      /\ Head(q) = q[1] /\ \A i \in 1..(Len(q) - 1) : r[i] = q[i + 1]
  BY TailTask
<1>2. \A i \in S : i \in 1..(Len(q) - 1) /\ i + 1 \in T /\ r[i] = q[i + 1]
  BY <1>1 DEF CommitsIn
<1>3. \A j \in T : j - 1 \in S /\ (j - 1) + 1 = j
  BY <1>1 DEF CommitsIn
<1>4. f \in Bijection(S, T)
  <2>1. f \in [S -> T]
    BY <1>2
  <2>2. \A i, j \in S : f[i] = f[j] => i = j
    BY <1>2
  <2>3. \A j \in T : \E i \in S : f[i] = j
    BY <1>3
  <2> QED
    BY <2>1, <2>2, <2>3 DEF Bijection, Injection, Surjection, IsInjective
<1>5. IsFiniteSet(S) /\ Cardinality(S) \in Nat
  BY TailTask, CommitsFinite
<1>6. Cardinality(T) = Cardinality(S)
  BY <1>4, <1>5, FS_Bijection DEF ExistsBijection
<1>7. IsFiniteSet(CommitsIn(q)) /\ Cardinality(CommitsIn(q)) \in Nat
  BY CommitsFinite
<1>8. {r[i].write : i \in S} = {q[j].write : j \in T}
  BY <1>2, <1>3
<1>9. 1 \in CommitsIn(q) <=> Head(q).do = "commit"
  BY <1>1 DEF CommitsIn
<1>10. CASE Head(q).do = "commit"
  <2>1. Cardinality(T) = Cardinality(CommitsIn(q)) - 1
    BY <1>7, <1>9, <1>10, FS_RemoveElement
  <2>2. CommitsIn(q) = T \cup {1}
    BY <1>9, <1>10
  <2>3. WritesIn(q) = {q[j].write : j \in T} \cup {q[1].write}
    BY <2>2 DEF WritesIn
  <2>4. WritesIn(q) = WritesIn(r) \cup {Head(q).write}
    BY <1>1, <1>8, <2>3 DEF WritesIn
  <2>5. Cardinality(CommitsIn(q)) = Cardinality(S) + 1
    BY <1>5, <1>6, <1>7, <2>1
  <2> QED
    BY <1>10, <2>4, <2>5
<1>11. CASE Head(q).do # "commit"
  <2>1. CommitsIn(q) = T
    BY <1>9, <1>11
  <2> QED
    BY <1>6, <1>8, <1>11, <2>1 DEF WritesIn
<1> QED
  BY <1>10, <1>11

----------------------------------------------------------------------------
(* The inductive invariant. *)

\* The snapshots the store has held are told apart by their versions, the last one at least.
PastSound ==
    /\ store \in past
    /\ \A s \in past : s.version <= store.version /\ (s.version = store.version => s = store)

\* A token is never newer than the snapshot it labels.
Labels(token, snapshot) == token # None => snapshot \in past /\ token <= snapshot.version

EntrySound == entry # None => Labels(entry.token, SnapshotOf(entry))

\* What a caller in the middle of a call has seen of the store, and, if commits write
\* through, that it starts from what the store has held.
CallerSound(c) ==
    /\ caller[c].token # None => caller[c].token <= store.version
    /\ caller[c].at = "coldinstall" =>
           caller[c].base \in past /\ Labels(caller[c].token, caller[c].base)
    /\ caller[c].at = "answered" =>
           caller[c].write \in Write /\ (caller[c].ok => Outcome(caller[c].write) \in past)
    /\ caller[c].before \subseteq accepted
    /\ mode = "Sync" => caller[c].base \in past \cup {None}

WorkerSound ==
    /\ worker.at \in {"commit", "settle"} <=> worker.write # None
    /\ worker.write # None => worker.write.update \in worker.write.content
    /\ worker.at = "settle" /\ worker.result = "ok" => Outcome(worker.write) \in past
    /\ worker.at \in {"compare", "read"} => worker.token \in Nat /\ worker.token <= store.version
    /\ worker.at = "install" => worker.read \in past /\ Labels(worker.token, worker.read)
    /\ worker.at = "stopped" => closed /\ queue = <<>>

\* A flush waits for the one barrier it has sent, and nothing comes after a shutdown.
QueueSound ==
    /\ \A i \in CommitsIn(queue) : queue[i].write.update \in queue[i].write.content
    /\ \A i \in DOMAIN queue : queue[i].do = "flush" => caller[queue[i].caller].at = "flushing"
    /\ \A i, j \in DOMAIN queue :
           queue[i].do = "flush" /\ queue[j].do = "flush" /\ queue[i].caller = queue[j].caller
               => i = j
    /\ \A i \in DOMAIN queue : queue[i].do = "shutdown" => closed /\ i = Len(queue)

\* What is queued behind a barrier was not taken on before it.
BarrierSound ==
    \A i, j \in DOMAIN queue :
        queue[i].do = "flush" /\ i < j /\ queue[j].do = "commit" =>
            queue[j].write.update \notin caller[queue[i].caller].before

UnsettledUpdates == {write.update : write \in Unsettled}

FlushedSound ==
    \A c \in Callers : caller[c].at = "flushed" => caller[c].before \cap UnsettledUpdates = {}

\* Commits that write through never reach the worker, and the one that may still land
\* extends what the store held at the version it expects.
ThroughSound ==
    mode = "Sync" =>
        /\ CommitsIn(queue) = {} /\ worker.write = None
        /\ late # None => \E s \in past : /\ s.version = late.expected
                                          /\ s.content \subseteq late.content

IInv ==
    /\ TypeOK /\ PastSound
    /\ EntrySound /\ EntryJustified
    /\ (\A c \in Callers : CallerSound(c))
    /\ WorkerSound /\ QueueSound /\ BarrierSound /\ FlushedSound
    /\ PendingAccurate /\ NoWriteForgotten /\ ThroughSound

LEMMA InitSound == Init => IInv
<1> SUFFICES ASSUME Init PROVE IInv
  OBVIOUS
<1> USE NoneAssumption, RetriesAssumption, ModesAssumption
<1>1. queue \in Seq(Task) /\ failed \in Seq(Write) /\ DOMAIN queue = {}
  BY EmptySeq DEF Init
<1>2. store \in Snapshot
  BY DEF Init, Snapshot
<1>3. worker \in WorkerState
  BY DEF Init, WorkerState, Waiting
<1>4. Idle \in CallerState
  BY DEF CallerState, Idle
<1>5. TypeOK
  BY <1>1, <1>2, <1>3, <1>4 DEF Init, TypeOK
<1>6. CommitsIn(queue) = {} /\ Tasks("commit") = {} /\ Unsettled = {}
  BY <1>1 DEF CommitsIn, Tasks, Unsettled, Init, Waiting
<1>7. PendingAccurate
  <2>1. Cardinality(Tasks("commit")) = 0
    BY <1>6, FS_EmptySet
  <2>2. pending = 0 /\ worker.at = "idle"
    BY DEF Init, Waiting
  <2> QED
    BY <2>1, <2>2 DEF PendingAccurate
<1>8. PastSound
  BY <1>2 DEF PastSound, Init, Snapshot
<1>9. \A c \in Callers : CallerSound(c)
  BY DEF CallerSound, Init, Idle
<1>10. WorkerSound
  BY DEF WorkerSound, Init, Waiting
<1>11. QueueSound /\ BarrierSound /\ FlushedSound
  BY <1>1, <1>6 DEF QueueSound, BarrierSound, FlushedSound, Init, Idle
<1>12. ThroughSound
  BY <1>6 DEF ThroughSound, Init, Waiting
<1> QED
  BY <1>5, <1>7, <1>8, <1>9, <1>10, <1>11, <1>12
     DEF IInv, EntrySound, EntryJustified, NoWriteForgotten, Init

----------------------------------------------------------------------------
(* What a step leaves sound because it does not touch it. *)

\* The store stands still, or takes one commit.
StoreMoves ==
    \/ UNCHANGED <<store, past>>
    \/ store' \in Snapshot /\ store'.version = store.version + 1 /\ past' = past \cup {store'}

Grows ==
    /\ store.version \in Nat /\ store'.version \in Nat /\ store.version <= store'.version
    /\ past \subseteq past' /\ past' \subseteq Snapshot
    /\ accepted \subseteq accepted'
    /\ mode' = mode

LEMMA StoreStep ==
    ASSUME TypeOK, PastSound, StoreMoves, accepted \subseteq accepted', mode' = mode
    PROVE  PastSound' /\ Grows /\ store' \in Snapshot
<1>1. /\ store \in Snapshot /\ past \subseteq Snapshot
      /\ \A s \in Snapshot : s.version \in Nat
  BY DEF TypeOK, Snapshot
<1>2. CASE UNCHANGED <<store, past>>
  BY <1>1, <1>2 DEF PastSound, Grows
<1>3. CASE /\ store' \in Snapshot /\ store'.version = store.version + 1
           /\ past' = past \cup {store'}
  <2>1. PastSound'
    BY <1>1, <1>3 DEF PastSound
  <2> QED
    BY <1>1, <1>3, <2>1 DEF Grows
<1> QED
  BY <1>2, <1>3 DEF StoreMoves

LEMMA CallerFrame ==
    ASSUME TypeOK, Grows, NEW c \in Callers, caller'[c] = caller[c], CallerSound(c)
    PROVE  CallerSound(c)'
<1>1. caller[c].token \in Nat \cup {None}
  BY DEF TypeOK, CallerState
<1> QED
  BY <1>1 DEF CallerSound, Grows, Labels

LEMMA EntryFrame ==
    ASSUME EntrySound, EntryJustified, UNCHANGED entry, past \subseteq past',
           Unsettled \subseteq Unsettled'
    PROVE  EntrySound' /\ EntryJustified'
BY DEF EntrySound, EntryJustified, Labels, SnapshotOf

LEMMA WorkerFrame ==
    ASSUME TypeOK, Grows, WorkerSound, UNCHANGED worker,
           worker.at = "stopped" => closed' /\ queue' = <<>>
    PROVE  WorkerSound'
<1>1. worker.token \in Nat \cup {None}
  BY DEF TypeOK, WorkerState
<1> QED
  BY <1>1 DEF WorkerSound, Grows, Labels

\* The callers that wait for a barrier go on waiting.
Waits ==
    \A c \in Callers : caller[c].at = "flushing" =>
        caller'[c].at = "flushing" /\ caller'[c].before = caller[c].before

LEMMA FlushTask ==
    ASSUME TypeOK, NEW i \in DOMAIN queue
    PROVE  /\ queue[i] \in Task
           /\ queue[i].do = "flush" => queue[i].caller \in Callers
           /\ queue[i].do = "commit" => queue[i].write \in Write
<1>1. DOMAIN queue = 1..Len(queue) /\ queue \in Seq(Task)
  BY LenProperties DEF TypeOK
<1>2. queue[i] \in Task
  BY <1>1, ElementOfSeq
<1> QED
  BY <1>2 DEF Task

LEMMA QueueFrame ==
    ASSUME TypeOK, QueueSound, BarrierSound, UNCHANGED <<queue, closed>>, Waits
    PROVE  QueueSound' /\ BarrierSound'
<1>1. QueueSound'
  BY FlushTask DEF QueueSound, CommitsIn, Waits
<1>2. BarrierSound'
  BY FlushTask DEF QueueSound, BarrierSound, Waits
<1> QED
  BY <1>1, <1>2

\* Nobody is newly told that the queue is drained, and no write turns up unsettled that
\* was taken on before.
LEMMA FlushedFrame ==
    ASSUME FlushedSound, \A c \in Callers : caller[c].before \subseteq accepted,
           \A c \in Callers : caller'[c].at = "flushed" => caller'[c] = caller[c],
           UnsettledUpdates' \cap accepted \subseteq UnsettledUpdates
    PROVE  FlushedSound'
BY DEF FlushedSound

LEMMA UnsettledIs ==
    Unsettled = WritesIn(queue) \cup ({worker.write} \ {None}) /\ Tasks("commit") = CommitsIn(queue)
BY DEF Unsettled, WritesIn, CommitsIn, Tasks

LEMMA UnsettledWrites ==
    ASSUME TypeOK PROVE Unsettled \subseteq Write
<1>1. WritesIn(queue) \subseteq Write
  BY FlushTask DEF WritesIn, CommitsIn
<1>2. worker.write \in Write \cup {None}
  BY DEF TypeOK, WorkerState
<1> QED
  BY <1>1, <1>2, UnsettledIs

\* The same queue and the same write with the worker.
LEMMA SameUnsettled ==
    ASSUME UNCHANGED queue, worker'.write = worker.write
    PROVE  Unsettled' = Unsettled /\ UnsettledUpdates' = UnsettledUpdates
BY DEF Unsettled, Tasks, UnsettledUpdates

LEMMA PendingFrame ==
    ASSUME PendingAccurate, UNCHANGED <<queue, pending>>,
           worker.at \in {"commit", "settle"} <=> worker'.at \in {"commit", "settle"}
    PROVE  PendingAccurate'
BY DEF PendingAccurate, Tasks

LEMMA ForgottenFrame ==
    ASSUME NoWriteForgotten, UNCHANGED <<mode, accepted, failed, taken>>, past \subseteq past',
           Unsettled \subseteq Unsettled'
    PROVE  NoWriteForgotten'
BY DEF NoWriteForgotten, Landed

LEMMA ThroughFrame ==
    ASSUME ThroughSound, mode' = mode, past \subseteq past', late' = late \/ late' = None,
           mode = "Sync" => CommitsIn(queue)' = CommitsIn(queue) /\ worker'.write = worker.write
    PROVE  ThroughSound'
BY DEF ThroughSound

----------------------------------------------------------------------------
(* snapshot, and the ends of calls *)

\* A step of one caller, not in a flush before or after, that at most replaces the entry.
LEMMA CallerStep ==
    ASSUME IInv, NEW c \in Callers,
           caller' \in [Callers -> CallerState],
           \A d \in Callers \ {c} : caller'[d] = caller[d],
           caller[c].at # "flushing", caller'[c].at \notin {"flushing", "flushed"},
           CallerSound(c)',
           UNCHANGED <<queue, pending, failed, degraded, worker, closed, canonVars>>,
           entry' \in Entry \cup {None}, EntrySound', EntryJustified'
    PROVE  IInv'
<1> USE DEF canonVars
<1>1. TypeOK'
  BY DEF IInv, TypeOK
<1>2. PastSound' /\ Grows
  BY StoreStep DEF StoreMoves, IInv
<1>3. \A d \in Callers : CallerSound(d)'
  <2> SUFFICES ASSUME NEW d \in Callers \ {c} PROVE CallerSound(d)'
    OBVIOUS
  <2> QED
    BY <1>2, CallerFrame DEF IInv
<1>4. WorkerSound'
  BY <1>2, WorkerFrame DEF IInv, WorkerSound
<1>5. Waits
  BY DEF Waits
<1>6. QueueSound' /\ BarrierSound'
  BY <1>5, QueueFrame DEF IInv
<1>7. Unsettled' = Unsettled /\ UnsettledUpdates' = UnsettledUpdates
  BY SameUnsettled
<1>8. FlushedSound'
  <2>1. \A d \in Callers : caller[d].before \subseteq accepted
    BY DEF IInv, CallerSound
  <2>2. \A d \in Callers : caller'[d].at = "flushed" => caller'[d] = caller[d]
    OBVIOUS
  <2> QED
    BY <1>7, <2>1, <2>2, FlushedFrame DEF IInv
<1>9. PendingAccurate' /\ NoWriteForgotten'
  BY <1>7, PendingFrame, ForgottenFrame DEF IInv
<1>10. ThroughSound'
  BY ThroughFrame DEF IInv, CommitsIn
<1> QED
  BY <1>1, <1>2, <1>3, <1>4, <1>6, <1>8, <1>9, <1>10 DEF IInv

LEMMA IdleTyped == Idle \in CallerState /\ Waiting \in WorkerState
BY RetriesAssumption DEF Idle, CallerState, Waiting, WorkerState

\* Where a caller goes.
LEMMA GoesTyped ==
    ASSUME TypeOK, NEW c \in Callers, NEW s \in CallerState, caller' = [caller EXCEPT ![c] = s]
    PROVE  /\ caller' \in [Callers -> CallerState] /\ caller'[c] = s
           /\ \A d \in Callers \ {c} : caller'[d] = caller[d]
BY DEF TypeOK

LEMMA SnapshotsTyped ==
    ASSUME NEW token \in Nat \cup {None}, NEW s \in Snapshot
    PROVE  /\ Labelled(token, s) \in Entry /\ SnapshotOf(Labelled(token, s)) = s
           /\ Labelled(token, s).token = token
<1>1. /\ s.version \in Nat /\ s.content \in SUBSET (Writes \cup ExtWrites)
      /\ s = [version |-> s.version, content |-> s.content]
  BY DEF Snapshot
<1> QED
  BY <1>1 DEF Labelled, SnapshotOf, Entry

LEMMA OutcomeTyped ==
    ASSUME NEW w \in Write
    PROVE  Outcome(w) \in Snapshot /\ w.expected \in Nat /\ w.update \in Writes
           /\ Outcome(w).version = w.expected + 1 /\ Outcome(w).content = w.content
BY DEF Write, Snapshot, Outcome

\* What a caller is served; with commits that write through, the store has held it.
LEMMA EntryServed ==
    ASSUME IInv, entry # None
    PROVE  /\ SnapshotOf(entry) \in Snapshot /\ entry \in Entry
           /\ mode = "Sync" => SnapshotOf(entry) \in past
<1>1. SnapshotOf(entry) \in Snapshot /\ entry \in Entry
  BY DEF IInv, TypeOK, Entry, SnapshotOf, Snapshot
<1>2. ASSUME mode = "Sync" PROVE SnapshotOf(entry) \in past
  <2>1. Unsettled = {}
    BY <1>2, UnsettledIs DEF IInv, ThroughSound, WritesIn
  <2> QED
    BY <2>1 DEF IInv, EntryJustified
<1> QED
  BY <1>1, <1>2

LEMMA ServedKeepsSound ==
    ASSUME IInv, NEW c \in Callers, At(c, "idle"), entry # None,
           Goto(c, [Idle EXCEPT !.base = SnapshotOf(entry)]),
           UNCHANGED <<entry, queue, pending, failed, degraded, worker, closed, canonVars>>
    PROVE  IInv'
<1> DEFINE s == [Idle EXCEPT !.base = SnapshotOf(entry)]
<1>1. SnapshotOf(entry) \in Snapshot /\ entry \in Entry
  BY EntryServed
<1>2. s \in CallerState
  BY <1>1 DEF CallerState, Idle
<1>3. /\ s.at = "idle" /\ s.base = SnapshotOf(entry) /\ s.token = None /\ s.before = {}
      /\ s.write = None /\ s.ok = FALSE
  BY DEF Idle
<1>4. mode = "Sync" => SnapshotOf(entry) \in past
  BY EntryServed
<1> HIDE DEF s
<1>5. caller' = [caller EXCEPT ![c] = s]
  BY DEF Goto, s
<1>6. /\ caller' \in [Callers -> CallerState] /\ caller'[c] = s
      /\ \A d \in Callers \ {c} : caller'[d] = caller[d]
  BY <1>2, <1>5, GoesTyped DEF IInv
<1>7. CallerSound(c)'
  BY <1>3, <1>4, <1>6 DEF CallerSound, canonVars
<1>8. EntrySound' /\ EntryJustified'
  BY EntryFrame, SameUnsettled DEF IInv, canonVars
<1> QED
  BY <1>1, <1>3, <1>6, <1>7, <1>8, CallerStep DEF At

LEMMA MissKeepsSound ==
    ASSUME IInv, NEW c \in Callers, Miss(c) \/ ColdReadFails(c) \/ CommitBufferedConflict(c)
    PROVE  IInv'
<1> DEFINE t == [Idle EXCEPT !.at = "coldprobe"]
<1>1. PICK s \in {Idle, t} : caller' = [caller EXCEPT ![c] = s]
  BY DEF Miss, ColdReadFails, CommitBufferedConflict, Goto
<1>2. s \in CallerState
  <2>1. t \in CallerState
    BY IdleTyped DEF CallerState
  <2> HIDE DEF t
  <2> QED
    BY <1>1, <2>1, IdleTyped
<1>3. s.at \in {"idle", "coldprobe"} /\ s.base = None /\ s.token = None /\ s.before = {}
  BY <1>1 DEF Idle
<1> HIDE DEF t
<1>4. /\ caller' \in [Callers -> CallerState] /\ caller'[c] = s
      /\ \A d \in Callers \ {c} : caller'[d] = caller[d]
  BY <1>1, <1>2, GoesTyped DEF IInv
<1>5. /\ UNCHANGED <<entry, queue, pending, failed, degraded, worker, closed, canonVars>>
      /\ caller[c].at # "flushing"
  BY DEF Miss, ColdReadFails, CommitBufferedConflict, At
<1>6. CallerSound(c)'
  BY <1>3, <1>4 DEF CallerSound
<1>7. EntrySound' /\ EntryJustified'
  BY <1>5, EntryFrame, SameUnsettled DEF IInv, canonVars
<1>8. entry' \in Entry \cup {None}
  BY <1>5 DEF IInv, TypeOK
<1> QED
  BY <1>3, <1>4, <1>5, <1>6, <1>7, <1>8, CallerStep

LEMMA ColdProbeKeepsSound ==
    ASSUME IInv, NEW c \in Callers, ColdProbe(c)
    PROVE  IInv'
<1>1. /\ UNCHANGED <<entry, queue, pending, failed, degraded, worker, closed, canonVars>>
      /\ caller[c].at = "coldprobe"
  BY DEF ColdProbe, At
<1>2. PICK token \in {store.version, None} :
          caller' = [caller EXCEPT ![c] = [caller[c] EXCEPT !.at = "coldread", !.token = token]]
  BY DEF ColdProbe, Goto
<1>3. store.version \in Nat
  BY DEF IInv, TypeOK, Snapshot
<1> DEFINE s == [caller[c] EXCEPT !.at = "coldread", !.token = token]
<1>4. caller[c] \in CallerState /\ CallerSound(c)
  BY DEF IInv, TypeOK
<1>5. s \in CallerState /\ s.at = "coldread" /\ s.token = token /\ s.before = caller[c].before
      /\ s.base = caller[c].base
  BY <1>2, <1>3, <1>4 DEF CallerState
<1> HIDE DEF s
<1>6. /\ caller' \in [Callers -> CallerState] /\ caller'[c] = s
      /\ \A d \in Callers \ {c} : caller'[d] = caller[d]
  <2>1. caller' = [caller EXCEPT ![c] = s]
    BY <1>2 DEF s
  <2> QED
    BY <1>5, <2>1, GoesTyped DEF IInv
<1>7. CallerSound(c)'
  BY <1>1, <1>2, <1>3, <1>4, <1>5, <1>6 DEF CallerSound, canonVars
<1>8. EntrySound' /\ EntryJustified'
  BY <1>1, EntryFrame, SameUnsettled DEF IInv, canonVars
<1>9. entry' \in Entry \cup {None}
  BY <1>1 DEF IInv, TypeOK
<1> QED
  BY <1>1, <1>5, <1>6, <1>7, <1>8, <1>9, CallerStep

LEMMA ColdReadKeepsSound ==
    ASSUME IInv, NEW c \in Callers, ColdRead(c)
    PROVE  IInv'
<1>1. /\ UNCHANGED <<entry, queue, pending, failed, degraded, worker, closed, canonVars>>
      /\ caller[c].at = "coldread"
      /\ caller' = [caller EXCEPT ![c] = [caller[c] EXCEPT !.at = "coldinstall", !.base = store]]
  BY DEF ColdRead, At, Goto
<1> DEFINE s == [caller[c] EXCEPT !.at = "coldinstall", !.base = store]
<1>2. caller[c] \in CallerState /\ CallerSound(c) /\ store \in Snapshot /\ store \in past
  BY DEF IInv, TypeOK, PastSound
<1>3. /\ s \in CallerState /\ s.at = "coldinstall" /\ s.token = caller[c].token
      /\ s.before = caller[c].before /\ s.base = store
  BY <1>2 DEF CallerState
<1> HIDE DEF s
<1>4. /\ caller' \in [Callers -> CallerState] /\ caller'[c] = s
      /\ \A d \in Callers \ {c} : caller'[d] = caller[d]
  <2>1. caller' = [caller EXCEPT ![c] = s]
    BY <1>1 DEF s
  <2> QED
    BY <1>3, <2>1, GoesTyped DEF IInv
<1>5. CallerSound(c)'
  BY <1>1, <1>2, <1>3, <1>4 DEF CallerSound, canonVars, Labels
<1>6. EntrySound' /\ EntryJustified'
  BY <1>1, EntryFrame, SameUnsettled DEF IInv, canonVars
<1>7. entry' \in Entry \cup {None}
  BY <1>1 DEF IInv, TypeOK
<1> QED
  BY <1>1, <1>3, <1>4, <1>5, <1>6, <1>7, CallerStep

LEMMA ColdInstallKeepsSound ==
    ASSUME IInv, NEW c \in Callers, ColdInstall(c)
    PROVE  IInv'
<1>1. /\ UNCHANGED <<queue, pending, failed, degraded, worker, closed, canonVars>>
      /\ caller[c].at = "coldinstall"
      /\ entry' = Labelled(caller[c].token, caller[c].base)
      /\ caller' = [caller EXCEPT ![c] = [Idle EXCEPT !.base = caller[c].base]]
  BY DEF ColdInstall, At, Goto
<1> DEFINE s == [Idle EXCEPT !.base = caller[c].base]
<1>2. /\ caller[c] \in CallerState /\ CallerSound(c) /\ caller[c].base \in past
      /\ caller[c].token \in Nat \cup {None} /\ Labels(caller[c].token, caller[c].base)
  BY <1>1 DEF IInv, TypeOK, CallerSound, CallerState
<1>3. caller[c].base \in Snapshot
  BY <1>2 DEF IInv, TypeOK
<1>4. /\ s \in CallerState /\ s.at = "idle" /\ s.token = None
      /\ s.before = {} /\ s.base = caller[c].base
  BY <1>3 DEF CallerState, Idle
<1> HIDE DEF s
<1>5. /\ caller' \in [Callers -> CallerState] /\ caller'[c] = s
      /\ \A d \in Callers \ {c} : caller'[d] = caller[d]
  <2>1. caller' = [caller EXCEPT ![c] = s]
    BY <1>1 DEF s
  <2> QED
    BY <1>4, <2>1, GoesTyped DEF IInv
<1>6. CallerSound(c)'
  BY <1>1, <1>2, <1>4, <1>5 DEF CallerSound, canonVars
<1>7. /\ entry' \in Entry /\ SnapshotOf(entry') = caller[c].base
      /\ entry'.token = caller[c].token
  BY <1>1, <1>2, <1>3, SnapshotsTyped
<1>8. EntrySound' /\ EntryJustified'
  <2>1. past' = past
    BY <1>1 DEF canonVars
  <2>2. entry'.version = caller[c].base.version
    BY <1>1 DEF Labelled
  <2> QED
    BY <1>2, <1>7, <2>1 DEF EntrySound, EntryJustified, Labels
<1> QED
  BY <1>1, <1>4, <1>5, <1>6, <1>7, <1>8, CallerStep

LEMMA SettleSyncKeepsSound ==
    ASSUME IInv, NEW c \in Callers, SettleSync(c)
    PROVE  IInv'
<1>1. /\ UNCHANGED <<queue, pending, failed, degraded, worker, closed, canonVars>>
      /\ caller[c].at = "answered" /\ caller' = [caller EXCEPT ![c] = Idle]
      /\ entry' = IF caller[c].ok THEN Labelled(None, Outcome(caller[c].write)) ELSE None
  BY DEF SettleSync, At, Goto
<1>2. /\ caller' \in [Callers -> CallerState] /\ caller'[c] = Idle
      /\ \A d \in Callers \ {c} : caller'[d] = caller[d]
  BY <1>1, IdleTyped, GoesTyped DEF IInv
<1>3. CallerSound(c)'
  BY <1>2 DEF CallerSound, Idle
<1>4. entry' \in Entry \cup {None} /\ EntrySound' /\ EntryJustified'
  <2>1. CASE ~caller[c].ok
    BY <1>1, <2>1 DEF EntrySound, EntryJustified
  <2>2. CASE caller[c].ok
    <3>1. caller[c].write \in Write /\ Outcome(caller[c].write) \in past
      BY <1>1, <2>2 DEF IInv, CallerSound
    <3>2. /\ entry' \in Entry /\ SnapshotOf(entry') = Outcome(caller[c].write)
          /\ entry'.token = None
      BY <1>1, <2>2, <3>1, OutcomeTyped, SnapshotsTyped
    <3>3. past' = past
      BY <1>1 DEF canonVars
    <3> QED
      BY <3>1, <3>2, <3>3 DEF EntrySound, EntryJustified, Labels
  <2> QED
    BY <2>1, <2>2
<1>5. caller'[c].at = "idle"
  BY <1>2 DEF Idle
<1> QED
  BY <1>1, <1>2, <1>3, <1>4, <1>5, CallerStep

----------------------------------------------------------------------------
(* The store moves under everybody's feet. *)

LEMMA StoreOnly ==
    ASSUME IInv, StoreMoves, late' \in {late, None},
           UNCHANGED <<mode, entry, queue, pending, failed, degraded, worker, caller, closed,
                       accepted, taken>>
    PROVE  IInv'
<1>1. PastSound' /\ Grows /\ store' \in Snapshot
  BY StoreStep DEF IInv
<1>2. TypeOK'
  BY <1>1 DEF IInv, TypeOK, Grows
<1>3. \A c \in Callers : CallerSound(c)'
  BY <1>1, CallerFrame DEF IInv
<1>4. WorkerSound'
  BY <1>1, WorkerFrame DEF IInv, WorkerSound
<1>5. QueueSound' /\ BarrierSound'
  BY QueueFrame DEF IInv, Waits
<1>6. Unsettled' = Unsettled /\ UnsettledUpdates' = UnsettledUpdates
  BY SameUnsettled
<1>7. EntrySound' /\ EntryJustified'
  BY <1>1, <1>6, EntryFrame DEF IInv, Grows
<1>8. FlushedSound' /\ PendingAccurate'
  BY <1>6, PendingFrame DEF IInv, FlushedSound
<1>9. NoWriteForgotten'
  BY <1>1, <1>6, ForgottenFrame DEF IInv, Grows
<1>10. ThroughSound'
  BY <1>1, ThroughFrame DEF IInv, CommitsIn, Grows
<1> QED
  BY <1>1, <1>2, <1>3, <1>4, <1>5, <1>7, <1>8, <1>9, <1>10 DEF IInv

LEMMA OthersKeepSound ==
    ASSUME IInv, LandLate \/ \E update \in ExtWrites : ExtCommit(update)
    PROVE  IInv'
<1>1. /\ UNCHANGED <<mode, entry, queue, pending, failed, degraded, worker, caller, closed,
                     accepted, taken>>
      /\ late' = None /\ past' = past \cup {store'}
  BY DEF LandLate, ExtCommit, Land
<1>2. store' \in Snapshot /\ store'.version = store.version + 1
  <2>1. CASE LandLate
    <3>1. late \in Write /\ store.version = late.expected /\ store' = Outcome(late)
      BY <2>1 DEF LandLate, Land, Expected, IInv, TypeOK
    <3> QED
      BY <3>1, OutcomeTyped
  <2>2. CASE \E update \in ExtWrites : ExtCommit(update)
    BY <2>2 DEF ExtCommit, IInv, TypeOK, Snapshot
  <2> QED
    BY <2>1, <2>2
<1> QED
  BY <1>1, <1>2, StoreOnly DEF StoreMoves

----------------------------------------------------------------------------
(* refresh *)

\* A step of the worker between the commits, that at most replaces the entry.
LEMMA RefreshStep ==
    ASSUME IInv, worker' \in WorkerState, degraded' \in BOOLEAN, WorkerSound',
           worker.write = None, worker'.write = None,
           UNCHANGED <<queue, pending, failed, caller, closed, canonVars>>,
           entry' \in Entry \cup {None}, EntrySound', EntryJustified'
    PROVE  IInv'
<1> USE DEF canonVars
<1>1. TypeOK'
  BY DEF IInv, TypeOK
<1>2. PastSound' /\ Grows
  BY StoreStep DEF StoreMoves, IInv
<1>3. \A c \in Callers : CallerSound(c)'
  BY <1>2, CallerFrame DEF IInv
<1>4. QueueSound' /\ BarrierSound'
  BY QueueFrame DEF IInv, Waits
<1>5. Unsettled' = Unsettled /\ UnsettledUpdates' = UnsettledUpdates
  BY SameUnsettled
<1>6. FlushedSound' /\ NoWriteForgotten'
  BY <1>5, ForgottenFrame DEF IInv, FlushedSound
<1>7. PendingAccurate'
  <2>1. worker.at \notin {"commit", "settle"} /\ worker'.at \notin {"commit", "settle"}
    BY DEF IInv, WorkerSound
  <2> QED
    BY <2>1, PendingFrame DEF IInv
<1>8. ThroughSound'
  BY ThroughFrame DEF IInv, CommitsIn
<1> QED
  BY <1>1, <1>2, <1>3, <1>4, <1>6, <1>7, <1>8 DEF IInv

LEMMA ProbeKeepsSound ==
    ASSUME IInv, Probe \/ RefreshFails \/ Compare \/ Read
    PROVE  IInv'
<1>1. /\ UNCHANGED <<entry, queue, pending, failed, caller, closed, canonVars>>
      /\ degraded' \in BOOLEAN /\ worker.at \in {"probe", "compare", "read"}
  BY DEF Probe, RefreshFails, Compare, Read, WorkerAt, IInv, TypeOK
<1>2. /\ worker \in WorkerState /\ worker.write = None /\ WorkerSound
      /\ store \in Snapshot /\ store \in past
  BY <1>1 DEF IInv, TypeOK, WorkerSound, PastSound
<1>3. worker' \in WorkerState /\ worker'.write = None /\ WorkerSound'
  <2>1. CASE worker' = Waiting
    BY <2>1, IdleTyped DEF Waiting, WorkerSound
  <2>2. CASE Probe
    <3>1. worker' = [Waiting EXCEPT !.at = "compare", !.token = store.version]
      BY <2>2 DEF Probe, WorkerDoes
    <3>2. store.version \in Nat
      BY <1>2 DEF Snapshot
    <3>3. worker' \in WorkerState
      BY <3>1, <3>2, IdleTyped DEF WorkerState
    <3>4. worker'.at = "compare" /\ worker'.write = None /\ worker'.token = store.version
      BY <3>1 DEF Waiting
    <3> QED
      BY <1>1, <3>2, <3>3, <3>4 DEF WorkerSound, canonVars
  <2>3. CASE Compare /\ worker' # Waiting
    <3>1. worker' = [worker EXCEPT !.at = "read"] /\ worker.at = "compare"
      BY <2>3 DEF Compare, WorkerDoes, WorkerAt
    <3>2. worker' \in WorkerState
      BY <1>2, <3>1 DEF WorkerState
    <3>3. worker'.at = "read" /\ worker'.write = None /\ worker'.token = worker.token
      BY <1>2, <3>1 DEF WorkerState
    <3> QED
      BY <1>1, <1>2, <3>1, <3>2, <3>3 DEF WorkerSound, canonVars
  <2>4. CASE Read
    <3>1. /\ worker' = [worker EXCEPT !.at = "install", !.read = store]
          /\ worker.at = "read"
      BY <2>4 DEF Read, WorkerDoes, WorkerAt
    <3>2. worker' \in WorkerState
      BY <1>2, <3>1 DEF WorkerState
    <3>3. /\ worker'.at = "install" /\ worker'.write = None
          /\ worker'.token = worker.token /\ worker'.read = store
      BY <1>2, <3>1 DEF WorkerState
    <3> QED
      BY <1>1, <1>2, <3>1, <3>2, <3>3 DEF WorkerSound, canonVars, Labels
  <2>5. RefreshFails => worker' = Waiting
    BY DEF RefreshFails, WorkerDoes
  <2> QED
    BY <2>1, <2>2, <2>3, <2>4, <2>5
<1>4. EntrySound' /\ EntryJustified' /\ entry' \in Entry \cup {None}
  <2>1. entry' \in Entry \cup {None}
    BY <1>1 DEF IInv, TypeOK
  <2> QED
    BY <1>1, <1>2, <1>3, <2>1, EntryFrame, SameUnsettled DEF IInv, canonVars
<1> QED
  BY <1>1, <1>2, <1>3, <1>4, RefreshStep

LEMMA InstallKeepsSound ==
    ASSUME IInv, Install
    PROVE  IInv'
<1>1. /\ UNCHANGED <<queue, pending, failed, degraded, caller, closed, canonVars>>
      /\ worker.at = "install" /\ worker' = Waiting
      /\ entry' = entry \/ entry' = Labelled(worker.token, worker.read)
  BY DEF Install, WorkerAt, WorkerDoes
<1>2. /\ worker \in WorkerState /\ worker.write = None
      /\ worker.read \in past /\ Labels(worker.token, worker.read)
  BY <1>1 DEF IInv, TypeOK, WorkerSound
<1>3. worker.token \in Nat \cup {None} /\ worker.read \in Snapshot
  BY <1>2 DEF WorkerState, IInv, TypeOK
<1>4. worker' \in WorkerState /\ worker'.write = None /\ worker'.at = "idle"
  BY <1>1, IdleTyped DEF Waiting
<1>5. WorkerSound'
  BY <1>4 DEF WorkerSound
<1>6. entry' \in Entry \cup {None} /\ EntrySound' /\ EntryJustified'
  <2>1. CASE entry' = entry
    BY <1>1, <1>2, <1>4, <2>1, EntryFrame, SameUnsettled DEF IInv, TypeOK, canonVars
  <2>2. CASE entry' = Labelled(worker.token, worker.read)
    <3>1. /\ entry' \in Entry /\ SnapshotOf(entry') = worker.read
          /\ entry'.token = worker.token
      BY <1>3, <2>2, SnapshotsTyped
    <3>2. past' = past
      BY <1>1 DEF canonVars
    <3>3. entry'.version = worker.read.version
      BY <2>2 DEF Labelled
    <3> QED
      BY <1>2, <3>1, <3>2, <3>3 DEF EntrySound, EntryJustified, Labels
  <2> QED
    BY <1>1, <2>1, <2>2
<1>7. degraded' \in BOOLEAN
  BY <1>1 DEF IInv, TypeOK
<1> QED
  BY <1>1, <1>2, <1>4, <1>5, <1>6, <1>7, RefreshStep

----------------------------------------------------------------------------
(* Tasks are sent. *)

\* The new task goes behind the others: a commit is behind every barrier that was set
\* before it was taken on.
LEMMA AppendKeepsOrder ==
    ASSUME TypeOK, QueueSound, BarrierSound, \A c \in Callers : caller[c].before \subseteq accepted,
           ~closed, Waits, NEW e \in Task, queue' = Append(queue, e),
           e.do = "commit" => e.write.update \in e.write.content /\ e.write.update \notin accepted,
           e.do = "flush" => caller[e.caller].at # "flushing" /\ caller'[e.caller].at = "flushing",
           e.do = "shutdown" => closed'
    PROVE  queue' \in Seq(Task) /\ QueueSound' /\ BarrierSound'
<1> DEFINE n == Len(queue) + 1
<1>1. /\ queue' \in Seq(Task) /\ DOMAIN queue' = (DOMAIN queue) \cup {n}
      /\ DOMAIN queue = 1..Len(queue) /\ Len(queue) \in Nat /\ Len(queue') = n
      /\ queue'[n] = e /\ \A i \in DOMAIN queue : queue'[i] = queue[i]
  BY AppendTask DEF TypeOK
<1>2. \A i \in DOMAIN queue : i < n /\ ~(n < i) /\ i # n
  BY <1>1
<1> HIDE DEF n
<1>3. \A i \in DOMAIN queue : queue[i].do # "shutdown"
  BY DEF QueueSound
<1>4. \A i \in DOMAIN queue : queue[i].do = "flush" =>
          /\ queue[i].caller \in Callers /\ caller[queue[i].caller].at = "flushing"
          /\ caller'[queue[i].caller].at = "flushing"
          /\ caller'[queue[i].caller].before = caller[queue[i].caller].before
  BY FlushTask DEF QueueSound, Waits
<1>5. QueueSound'
  <2>1. \A i \in CommitsIn(queue') : queue'[i].write.update \in queue'[i].write.content
    BY <1>1 DEF QueueSound, CommitsIn
  <2>2. \A i \in DOMAIN queue' :
            queue'[i].do = "flush" => caller'[queue'[i].caller].at = "flushing"
    BY <1>1, <1>4
  <2>3. \A i, j \in DOMAIN queue' :
            queue'[i].do = "flush" /\ queue'[j].do = "flush"
              /\ queue'[i].caller = queue'[j].caller => i = j
    BY <1>1, <1>4 DEF QueueSound
  <2>4. \A i \in DOMAIN queue' : queue'[i].do = "shutdown" => closed' /\ i = Len(queue')
    BY <1>1, <1>3
  <2> QED
    BY <2>1, <2>2, <2>3, <2>4 DEF QueueSound
<1>6. BarrierSound'
  <2> SUFFICES ASSUME NEW i \in DOMAIN queue', NEW j \in DOMAIN queue',
                      queue'[i].do = "flush", i < j, queue'[j].do = "commit"
               PROVE  queue'[j].write.update \notin caller'[queue'[i].caller].before
    BY DEF BarrierSound
  <2>1. i \in DOMAIN queue /\ queue'[i] = queue[i]
    BY <1>1, <1>2
  <2>2. CASE j = n
    BY <1>1, <1>4, <2>1, <2>2
  <2>3. CASE j \in DOMAIN queue
    BY <1>1, <1>4, <2>1, <2>3 DEF BarrierSound
  <2> QED
    BY <1>1, <2>2, <2>3
<1> QED
  BY <1>1, <1>5, <1>6

\* A probe, a barrier or the shutdown is sent.
LEMMA SendStep ==
    ASSUME IInv, ~closed, closed' \in BOOLEAN, NEW e \in Task, e.do # "commit",
           queue' = Append(queue, e),
           caller' \in [Callers -> CallerState], Waits, \A c \in Callers : CallerSound(c)',
           \A c \in Callers : caller'[c].at = "flushed" => caller'[c] = caller[c],
           e.do = "flush" => caller[e.caller].at # "flushing" /\ caller'[e.caller].at = "flushing",
           e.do = "shutdown" => closed',
           UNCHANGED <<entry, pending, failed, degraded, worker, canonVars>>
    PROVE  IInv'
<1> USE DEF canonVars
<1>1. \A c \in Callers : caller[c].before \subseteq accepted
  BY DEF IInv, CallerSound
<1>2. queue' \in Seq(Task) /\ QueueSound' /\ BarrierSound'
  BY <1>1, AppendKeepsOrder DEF IInv
<1>3. TypeOK'
  BY <1>2 DEF IInv, TypeOK
<1>4. PastSound' /\ Grows
  BY StoreStep DEF StoreMoves, IInv
<1>5. worker.at # "stopped"
  BY DEF IInv, WorkerSound
<1>6. WorkerSound'
  BY <1>4, <1>5, WorkerFrame DEF IInv
<1>7. CommitsIn(queue') = CommitsIn(queue) /\ WritesIn(queue') = WritesIn(queue)
  BY AppendCommits DEF IInv, TypeOK
<1>8. Unsettled' = Unsettled /\ Tasks("commit")' = Tasks("commit")
  <2>1. Unsettled' = WritesIn(queue') \cup ({worker'.write} \ {None})
    BY DEF Unsettled, WritesIn, CommitsIn, Tasks
  <2> QED
    BY <1>7, <2>1, UnsettledIs DEF CommitsIn, Tasks
<1>9. UnsettledUpdates' = UnsettledUpdates
  BY <1>8 DEF UnsettledUpdates
<1>10. EntrySound' /\ EntryJustified' /\ NoWriteForgotten'
  BY <1>8, EntryFrame, ForgottenFrame DEF IInv
<1>11. FlushedSound'
  BY <1>1, <1>9, FlushedFrame DEF IInv
<1>12. PendingAccurate'
  BY <1>8 DEF IInv, PendingAccurate
<1>13. ThroughSound'
  BY <1>7, ThroughFrame DEF IInv, CommitsIn
<1> QED
  BY <1>2, <1>3, <1>4, <1>6, <1>10, <1>11, <1>12, <1>13 DEF IInv

\* A cached snapshot is served while a probe is sent.
LEMMA ServeProbeKeepsSound ==
    ASSUME IInv, NEW c \in Callers, At(c, "idle"), entry # None,
           Goto(c, [Idle EXCEPT !.base = SnapshotOf(entry)]),
           queue' = Append(queue, [do |-> "probe"]),
           UNCHANGED <<entry, pending, failed, degraded, worker, closed, canonVars>>
    PROVE  IInv'
<1> DEFINE s == [Idle EXCEPT !.base = SnapshotOf(entry)]
<1>1. SnapshotOf(entry) \in Snapshot
  BY EntryServed
<1>2. s \in CallerState
  BY <1>1 DEF CallerState, Idle
<1>3. /\ s.at = "idle" /\ s.base = SnapshotOf(entry) /\ s.token = None /\ s.before = {}
      /\ s.write = None /\ s.ok = FALSE
  BY DEF Idle
<1>4. mode = "Sync" => SnapshotOf(entry) \in past
  BY EntryServed
<1> HIDE DEF s
<1>5. /\ caller' \in [Callers -> CallerState] /\ caller'[c] = s
      /\ \A d \in Callers \ {c} : caller'[d] = caller[d]
  <2>1. caller' = [caller EXCEPT ![c] = s]
    BY DEF Goto, s
  <2> QED
    BY <1>2, <2>1, GoesTyped DEF IInv
<1>6. PastSound' /\ Grows
  BY StoreStep DEF StoreMoves, IInv, canonVars
<1>7. \A d \in Callers : CallerSound(d)'
  <2>1. CallerSound(c)'
    BY <1>3, <1>4, <1>5 DEF CallerSound, canonVars
  <2>2. \A d \in Callers \ {c} : CallerSound(d)'
    <3> SUFFICES ASSUME NEW d \in Callers \ {c} PROVE CallerSound(d)'
      OBVIOUS
    <3> QED
      BY <1>5, <1>6, CallerFrame DEF IInv
  <2> QED
    BY <2>1, <2>2
<1>8. Waits /\ ~closed /\ closed' \in BOOLEAN
  BY <1>5 DEF Waits, At, IInv, TypeOK
<1>9. \A d \in Callers : caller'[d].at = "flushed" => caller'[d] = caller[d]
  BY <1>3, <1>5
<1>10. PICK e \in Task : e.do = "probe" /\ queue' = Append(queue, e)
  BY DEF Task
<1> QED
  BY <1>5, <1>7, <1>8, <1>9, <1>10, SendStep

LEMMA FlushKeepsSound ==
    ASSUME IInv, NEW c \in Callers, Flush(c)
    PROVE  IInv'
<1>1. /\ UNCHANGED <<entry, pending, failed, degraded, worker, closed, canonVars>>
      /\ caller[c].at = "idle" /\ ~closed
      /\ queue' = Append(queue, [do |-> "flush", caller |-> c])
      /\ caller' = [caller EXCEPT ![c] = [Idle EXCEPT !.at = "flushing", !.before = accepted]]
  BY DEF Flush, At, Goto
<1> DEFINE s == [Idle EXCEPT !.at = "flushing", !.before = accepted]
<1>2. s \in CallerState
  <2>1. accepted \subseteq Writes
    BY DEF IInv, TypeOK
  <2> QED
    BY <2>1 DEF CallerState, Idle
<1>3. s.at = "flushing" /\ s.base = None /\ s.token = None /\ s.before = accepted
  BY DEF Idle
<1> HIDE DEF s
<1>4. /\ caller' \in [Callers -> CallerState] /\ caller'[c] = s
      /\ \A d \in Callers \ {c} : caller'[d] = caller[d]
  <2>1. caller' = [caller EXCEPT ![c] = s]
    BY <1>1 DEF s
  <2> QED
    BY <1>2, <2>1, GoesTyped DEF IInv
<1>5. PastSound' /\ Grows
  BY <1>1, StoreStep DEF StoreMoves, IInv, canonVars
<1>6. \A d \in Callers : CallerSound(d)'
  <2>1. CallerSound(c)'
    BY <1>1, <1>3, <1>4 DEF CallerSound, canonVars
  <2>2. \A d \in Callers \ {c} : CallerSound(d)'
    <3> SUFFICES ASSUME NEW d \in Callers \ {c} PROVE CallerSound(d)'
      OBVIOUS
    <3> QED
      BY <1>4, <1>5, CallerFrame DEF IInv
  <2> QED
    BY <2>1, <2>2
<1>7. Waits /\ closed' \in BOOLEAN
  BY <1>1, <1>4 DEF Waits, IInv, TypeOK
<1>8. \A d \in Callers : caller'[d].at = "flushed" => caller'[d] = caller[d]
  BY <1>3, <1>4
<1>9. PICK e \in Task : e.do = "flush" /\ e.caller = c /\ queue' = Append(queue, e)
  BY <1>1 DEF Task
<1> QED
  BY <1>1, <1>3, <1>4, <1>6, <1>7, <1>8, <1>9, SendStep

LEMMA DropKeepsSound ==
    ASSUME IInv, Drop
    PROVE  IInv'
<1>1. /\ UNCHANGED <<entry, pending, failed, degraded, worker, caller, canonVars>>
      /\ ~closed /\ closed' = TRUE /\ queue' = Append(queue, [do |-> "shutdown"])
  BY DEF Drop
<1>2. caller' \in [Callers -> CallerState] /\ Waits
  BY <1>1 DEF IInv, TypeOK, Waits
<1>3. PastSound' /\ Grows
  BY <1>1, StoreStep DEF StoreMoves, IInv, canonVars
<1>4. \A c \in Callers : CallerSound(c)'
  BY <1>1, <1>3, CallerFrame DEF IInv
<1>5. PICK e \in Task : e.do = "shutdown" /\ queue' = Append(queue, e)
  BY <1>1 DEF Task
<1> QED
  BY <1>1, <1>2, <1>4, <1>5, SendStep

----------------------------------------------------------------------------
(* take_failed_write, and the end of flush *)

\* A failed write changes hands; the caller that asked may have been in a flush.
LEMMA PopKeepsSound ==
    ASSUME IInv, NEW c \in Callers, TakeFailed(c) \/ EndFlush(c)
    PROVE  IInv'
<1>1. /\ UNCHANGED <<mode, store, entry, queue, pending, degraded, worker, closed, late,
                     accepted, past>>
      /\ PopFailed /\ caller[c].at # "flushing"
      /\ caller' = caller \/ caller' = [caller EXCEPT ![c] = Idle]
  BY DEF TakeFailed, EndFlush, At, Goto
<1>2. /\ caller' \in [Callers -> CallerState] /\ caller'[c] \in {caller[c], Idle}
      /\ \A d \in Callers \ {c} : caller'[d] = caller[d]
  BY <1>1, IdleTyped, GoesTyped DEF IInv, TypeOK
<1>3. /\ failed' \in Seq(Write) /\ taken' \subseteq Writes
      /\ {failed[i].update : i \in DOMAIN failed} \cup taken
             \subseteq {failed'[i].update : i \in DOMAIN failed'} \cup taken'
  <2>1. failed \in Seq(Write) /\ taken \subseteq Writes
    BY DEF IInv, TypeOK
  <2>2. CASE failed = <<>>
    BY <1>1, <2>1, <2>2 DEF PopFailed
  <2>3. CASE failed # <<>>
    <3>1. failed' = Tail(failed) /\ taken' = taken \cup {Head(failed).update}
      BY <1>1, <2>3 DEF PopFailed
    <3>2. /\ Tail(failed) \in Seq(Write) /\ Head(failed) \in Write
          /\ Len(Tail(failed)) = Len(failed) - 1
          /\ \A i \in 1..Len(Tail(failed)) : Tail(failed)[i] = failed[i + 1]
      BY <2>1, <2>3, HeadTailProperties
    <3>3. /\ Len(failed) \in Nat /\ DOMAIN failed = 1..Len(failed)
          /\ DOMAIN Tail(failed) = 1..Len(Tail(failed)) /\ Head(failed) = failed[1]
      BY <2>1, <3>2, LenProperties
    <3>4. \A i \in DOMAIN failed : \/ i = 1
                                        \/ /\ i - 1 \in DOMAIN Tail(failed)
                                           /\ Tail(failed)[i - 1] = failed[i]
      BY <3>2, <3>3
    <3>5. \A i \in DOMAIN failed : failed[i].update
              \in {failed'[j].update : j \in DOMAIN failed'} \cup taken'
      BY <3>1, <3>3, <3>4
    <3>6. Head(failed).update \in Writes
      BY <3>2 DEF Write
    <3> QED
      BY <2>1, <3>1, <3>2, <3>5, <3>6
  <2> QED
    BY <2>2, <2>3
<1>4. TypeOK'
  BY <1>1, <1>2, <1>3 DEF IInv, TypeOK
<1>5. PastSound' /\ Grows
  BY <1>1, StoreStep DEF StoreMoves, IInv
<1>6. \A d \in Callers : CallerSound(d)'
  <2>1. CASE caller'[c] = caller[c]
    <3>1. \A d \in Callers : caller'[d] = caller[d]
      BY <1>2, <2>1
    <3> QED
      BY <1>5, <3>1, CallerFrame DEF IInv
  <2>2. CASE caller'[c] = Idle
    <3>1. CallerSound(c)'
      BY <2>2 DEF CallerSound, Idle
    <3>2. \A d \in Callers \ {c} : CallerSound(d)'
      <4> SUFFICES ASSUME NEW d \in Callers \ {c} PROVE CallerSound(d)'
        OBVIOUS
      <4> QED
        BY <1>2, <1>5, CallerFrame DEF IInv
    <3> QED
      BY <3>1, <3>2
  <2> QED
    BY <1>2, <2>1, <2>2
<1>7. WorkerSound'
  BY <1>1, <1>5, WorkerFrame DEF IInv, WorkerSound
<1>8. QueueSound' /\ BarrierSound'
  <2>1. Waits
    BY <1>1, <1>2 DEF Waits
  <2> QED
    BY <1>1, <2>1, QueueFrame DEF IInv
<1>9. Unsettled' = Unsettled /\ UnsettledUpdates' = UnsettledUpdates
  BY <1>1, SameUnsettled
<1>10. FlushedSound'
  <2>1. \A d \in Callers : caller'[d].at = "flushed" => caller'[d] = caller[d]
    BY <1>2 DEF Idle
  <2>2. \A d \in Callers : caller[d].before \subseteq accepted
    BY DEF IInv, CallerSound
  <2> QED
    BY <1>9, <2>1, <2>2, FlushedFrame DEF IInv
<1>11. EntrySound' /\ EntryJustified' /\ PendingAccurate'
  BY <1>1, <1>9, EntryFrame, PendingFrame DEF IInv
<1>12. NoWriteForgotten'
  BY <1>1, <1>3, <1>9 DEF IInv, NoWriteForgotten, Landed
<1>13. ThroughSound'
  BY <1>1, ThroughFrame DEF IInv, CommitsIn
<1> QED
  BY <1>4, <1>5, <1>6, <1>7, <1>8, <1>10, <1>11, <1>12, <1>13 DEF IInv

----------------------------------------------------------------------------
(* commit *)

LEMMA SubmittedTyped ==
    ASSUME IInv, NEW c \in Callers, NEW update \in Writes, MayCommit(c, update)
    PROVE  /\ caller[c].base \in Snapshot
           /\ Submitted(c, update) \in Write
           /\ Submitted(c, update).update = update
           /\ update \in Submitted(c, update).content
           /\ Submitted(c, update).expected = caller[c].base.version
           /\ caller[c].base.content \subseteq Submitted(c, update).content
<1>1. caller[c].base \in Snapshot
  BY DEF MayCommit, IInv, TypeOK, CallerState
<1> QED
  BY <1>1 DEF Submitted, Write, Snapshot

\* The write is taken on, shown and queued.
LEMMA CommitBufferedKeepsSound ==
    ASSUME IInv, NEW c \in Callers, NEW update \in Writes, CommitBuffered(c, update)
    PROVE  IInv'
<1>1. PICK w \in Write : w = Submitted(c, update)
  BY SubmittedTyped DEF CommitBuffered
<1>2. /\ w.update = update /\ update \in w.content
      /\ Outcome(w) \in Snapshot
  BY <1>1, SubmittedTyped, OutcomeTyped DEF CommitBuffered
<1>3. /\ mode = "Buffered" /\ ~closed /\ caller[c].at = "idle" /\ update \notin accepted
      /\ entry' = Labelled(None, Outcome(w)) /\ pending' = pending + 1
      /\ queue' = Append(queue, [do |-> "commit", write |-> w])
      /\ accepted' = accepted \cup {update}
      /\ caller' = [caller EXCEPT ![c] = Idle]
      /\ UNCHANGED <<mode, store, failed, degraded, worker, closed, late, taken, past>>
  BY <1>1 DEF CommitBuffered, MayCommit, At, Goto
<1>4. PICK e \in Task : e.do = "commit" /\ e.write = w /\ queue' = Append(queue, e)
  BY <1>3 DEF Task
<1>5. /\ caller' \in [Callers -> CallerState] /\ caller'[c] = Idle
      /\ \A d \in Callers \ {c} : caller'[d] = caller[d]
  BY <1>3, IdleTyped, GoesTyped DEF IInv
<1>6. \A d \in Callers : caller[d].before \subseteq accepted
  BY DEF IInv, CallerSound
<1>7. Waits
  BY <1>3, <1>5 DEF Waits
<1>8. queue' \in Seq(Task) /\ QueueSound' /\ BarrierSound'
  BY <1>2, <1>3, <1>4, <1>6, <1>7, AppendKeepsOrder DEF IInv
<1>9. PastSound' /\ Grows
  BY <1>3, StoreStep DEF StoreMoves, IInv
<1>10. /\ entry' \in Entry /\ SnapshotOf(entry') = Outcome(w) /\ entry'.token = None
  BY <1>2, <1>3, SnapshotsTyped
<1>11. TypeOK'
  BY <1>3, <1>5, <1>8, <1>10 DEF IInv, TypeOK
<1>12. \A d \in Callers : CallerSound(d)'
  <2>1. CallerSound(c)'
    BY <1>5 DEF CallerSound, Idle
  <2>2. \A d \in Callers \ {c} : CallerSound(d)'
    <3> SUFFICES ASSUME NEW d \in Callers \ {c} PROVE CallerSound(d)'
      OBVIOUS
    <3> QED
      BY <1>5, <1>9, CallerFrame DEF IInv
  <2> QED
    BY <2>1, <2>2
<1>13. WorkerSound'
  <2>1. worker.at # "stopped"
    BY <1>3 DEF IInv, WorkerSound
  <2> QED
    BY <1>3, <1>9, <2>1, WorkerFrame DEF IInv
<1>14. /\ WritesIn(queue') = WritesIn(queue) \cup {w}
       /\ Cardinality(CommitsIn(queue')) = Cardinality(CommitsIn(queue)) + 1
  BY <1>4, AppendCommits DEF IInv, TypeOK
<1>15. Unsettled' = Unsettled \cup {w}
  <2>1. Unsettled' = WritesIn(queue') \cup ({worker'.write} \ {None})
    BY DEF Unsettled, WritesIn, CommitsIn, Tasks
  <2> QED
    BY <1>3, <1>14, <2>1, UnsettledIs
<1>16. EntrySound' /\ EntryJustified'
  BY <1>10, <1>15 DEF EntrySound, EntryJustified, Labels
<1>17. FlushedSound'
  <2>1. UnsettledUpdates' \cap accepted \subseteq UnsettledUpdates
    BY <1>2, <1>3, <1>15 DEF UnsettledUpdates
  <2>2. \A d \in Callers : caller'[d].at = "flushed" => caller'[d] = caller[d]
    BY <1>5 DEF Idle
  <2> QED
    BY <1>6, <2>1, <2>2, FlushedFrame DEF IInv
<1>18. PendingAccurate'
  <2>1. Tasks("commit") = CommitsIn(queue) /\ Tasks("commit")' = CommitsIn(queue')
    BY DEF Tasks, CommitsIn
  <2>2. Cardinality(CommitsIn(queue)) \in Nat
    BY CommitsFinite DEF IInv, TypeOK
  <2> QED
    BY <1>3, <1>14, <2>1, <2>2 DEF IInv, PendingAccurate
<1>19. NoWriteForgotten'
  BY <1>2, <1>3, <1>15 DEF IInv, NoWriteForgotten, Landed
<1>20. ThroughSound'
  BY <1>3 DEF ThroughSound
<1> QED
  BY <1>8, <1>9, <1>11, <1>12, <1>13, <1>16, <1>17, <1>18, <1>19, <1>20 DEF IInv

\* A commit that writes through is answered, or not.
LEMMA CommitSyncKeepsSound ==
    ASSUME IInv, NEW c \in Callers, NEW update \in Writes, CommitSync(c, update)
    PROVE  IInv'
<1>1. PICK w \in Write : w = Submitted(c, update)
  BY SubmittedTyped DEF CommitSync
<1>2. /\ caller[c].base \in Snapshot /\ caller[c].base \in past
      /\ caller[c].base.version = w.expected /\ caller[c].base.content \subseteq w.content
  <2>1. caller[c].base \in past
    BY DEF IInv, CallerSound, CommitSync, MayCommit
  <2> QED
    BY <1>1, <2>1, SubmittedTyped DEF CommitSync
<1>3. /\ mode = "Sync" /\ ~closed /\ caller[c].at = "idle"
      /\ accepted' = accepted \cup {update}
      /\ UNCHANGED <<mode, entry, queue, pending, failed, degraded, worker, closed, taken>>
  BY DEF CommitSync, MayCommit, At
<1>4. PICK s \in CallerState :
          /\ caller' = [caller EXCEPT ![c] = s]
          /\ s.at = "answered" /\ s.write = w /\ s.base = None /\ s.token = None
          /\ s.before = {}
          /\ Land(w) \/ (~s.ok /\ UNCHANGED <<store, past>> /\ late' \in {late, w})
  <2> DEFINE t == [Idle EXCEPT !.at = "answered", !.write = w]
             u(ok) == [Idle EXCEPT !.at = "answered", !.write = w, !.ok = ok]
  <2>1. /\ t \in CallerState /\ t.at = "answered" /\ t.write = w /\ t.base = None
        /\ t.token = None /\ t.before = {} /\ ~t.ok
    BY DEF CallerState, Idle
  <2>2. \A ok \in BOOLEAN :
            /\ u(ok) \in CallerState /\ u(ok).at = "answered" /\ u(ok).write = w
            /\ u(ok).base = None /\ u(ok).token = None /\ u(ok).before = {}
    BY DEF CallerState, Idle
  <2>3. \/ Land(w) /\ \E ok \in BOOLEAN : caller' = [caller EXCEPT ![c] = u(ok)]
        \/ /\ caller' = [caller EXCEPT ![c] = t]
           /\ UNCHANGED <<store, past>> /\ late' \in {late, w}
    BY <1>1 DEF CommitSync, Goto, LeaveBehind
  <2> HIDE DEF t, u
  <2> QED
    BY <2>1, <2>2, <2>3
<1>5. /\ caller' \in [Callers -> CallerState] /\ caller'[c] = s
      /\ \A d \in Callers \ {c} : caller'[d] = caller[d]
  BY <1>4, GoesTyped DEF IInv
<1>6. StoreMoves /\ (s.ok => Outcome(w) \in past')
  <2>1. CASE Land(w)
    BY <2>1, OutcomeTyped DEF Land, Expected, StoreMoves
  <2>2. CASE ~Land(w)
    BY <1>4, <2>2 DEF StoreMoves
  <2> QED
    BY <2>1, <2>2
<1>7. PastSound' /\ Grows /\ store' \in Snapshot
  BY <1>3, <1>6, StoreStep DEF IInv
<1>8. late' \in {None, late, w}
  BY <1>4 DEF Land
<1>9. TypeOK'
  BY <1>3, <1>5, <1>7, <1>8 DEF IInv, TypeOK, Grows
<1>10. \A d \in Callers : CallerSound(d)'
  <2>1. CallerSound(c)'
    BY <1>4, <1>5, <1>6 DEF CallerSound, Outcome
  <2>2. \A d \in Callers \ {c} : CallerSound(d)'
    <3> SUFFICES ASSUME NEW d \in Callers \ {c} PROVE CallerSound(d)'
      OBVIOUS
    <3> QED
      BY <1>5, <1>7, CallerFrame DEF IInv
  <2> QED
    BY <2>1, <2>2
<1>11. WorkerSound'
  BY <1>3, <1>7, WorkerFrame DEF IInv, WorkerSound
<1>12. QueueSound' /\ BarrierSound'
  <2>1. Waits
    BY <1>3, <1>5 DEF Waits
  <2> QED
    BY <1>3, <2>1, QueueFrame DEF IInv
<1>13. Unsettled' = Unsettled /\ UnsettledUpdates' = UnsettledUpdates
  BY <1>3, SameUnsettled
<1>14. EntrySound' /\ EntryJustified' /\ PendingAccurate'
  BY <1>3, <1>7, <1>13, EntryFrame, PendingFrame DEF IInv, Grows
<1>15. FlushedSound'
  <2>1. \A d \in Callers : caller'[d].at = "flushed" => caller'[d] = caller[d]
    BY <1>4, <1>5
  <2>2. \A d \in Callers : caller[d].before \subseteq accepted
    BY DEF IInv, CallerSound
  <2> QED
    BY <1>13, <2>1, <2>2, FlushedFrame DEF IInv
<1>16. NoWriteForgotten'
  BY <1>3 DEF NoWriteForgotten
<1>17. ThroughSound'
  <2>1. CommitsIn(queue)' = {} /\ worker'.write = None
    BY <1>3 DEF IInv, ThroughSound, CommitsIn
  <2>2. late' # None => \E t \in past' : t.version = late'.expected
                                         /\ t.content \subseteq late'.content
    BY <1>2, <1>3, <1>7, <1>8 DEF IInv, ThroughSound, Grows
  <2> QED
    BY <2>1, <2>2 DEF ThroughSound
<1> QED
  BY <1>7, <1>9, <1>10, <1>11, <1>12, <1>14, <1>15, <1>16, <1>17 DEF IInv

----------------------------------------------------------------------------
(* The worker takes a task. *)

\* The others keep their order, and move up by one.
LEMMA TailKeepsOrder ==
    ASSUME TypeOK, QueueSound, BarrierSound, queue # <<>>, queue' = Tail(queue), UNCHANGED closed,
           \A c \in Callers : caller'[c].before = caller[c].before,
           \A c \in Callers : caller'[c].at = caller[c].at
                                  \/ (Head(queue).do = "flush" /\ Head(queue).caller = c)
    PROVE  queue' \in Seq(Task) /\ QueueSound' /\ BarrierSound'
<1>1. /\ queue' \in Seq(Task) /\ Head(queue) = queue[1]
      /\ Len(queue) \in Nat \ {0} /\ DOMAIN queue = 1..Len(queue)
      /\ DOMAIN queue' = 1..(Len(queue) - 1) /\ Len(queue') = Len(queue) - 1
      /\ \A i \in 1..(Len(queue) - 1) : queue'[i] = queue[i + 1]
  BY TailTask DEF TypeOK
<1>2. \A i \in DOMAIN queue' : i \in Nat /\ i + 1 \in DOMAIN queue /\ queue'[i] = queue[i + 1]
                                   /\ i + 1 # 1 /\ 1 \in DOMAIN queue
  BY <1>1
<1>3. \A i, j \in DOMAIN queue' : (i + 1 = j + 1 => i = j) /\ (i < j => i + 1 < j + 1)
  BY <1>1
<1>4. \A i \in DOMAIN queue' : queue'[i].do = "flush" =>
          queue'[i].caller \in Callers /\ caller'[queue'[i].caller].at = "flushing"
  <2> SUFFICES ASSUME NEW i \in DOMAIN queue', queue'[i].do = "flush"
               PROVE  queue'[i].caller \in Callers /\ caller'[queue'[i].caller].at = "flushing"
    OBVIOUS
  <2>1. /\ queue'[i].caller \in Callers /\ caller[queue'[i].caller].at = "flushing"
    BY <1>2, FlushTask DEF QueueSound
  <2>2. ~(Head(queue).do = "flush" /\ Head(queue).caller = queue'[i].caller)
    BY <1>1, <1>2 DEF QueueSound
  <2> QED
    BY <2>1, <2>2
<1>5. QueueSound'
  <2>1. \A i \in CommitsIn(queue') : queue'[i].write.update \in queue'[i].write.content
    BY <1>2 DEF QueueSound, CommitsIn
  <2>2. \A i, j \in DOMAIN queue' :
            queue'[i].do = "flush" /\ queue'[j].do = "flush"
              /\ queue'[i].caller = queue'[j].caller => i = j
    BY <1>2, <1>3 DEF QueueSound
  <2>3. \A i \in DOMAIN queue' : queue'[i].do = "shutdown" => closed' /\ i = Len(queue')
    <3> SUFFICES ASSUME NEW i \in DOMAIN queue', queue'[i].do = "shutdown"
                 PROVE  closed' /\ i = Len(queue')
      OBVIOUS
    <3>1. closed /\ i + 1 = Len(queue)
      BY <1>2 DEF QueueSound
    <3> QED
      BY <1>1, <1>2, <3>1
  <2> QED
    BY <1>4, <2>1, <2>2, <2>3 DEF QueueSound
<1>6. BarrierSound'
  BY <1>2, <1>3, <1>4 DEF BarrierSound
<1> QED
  BY <1>1, <1>5, <1>6

LEMMA TakeKeepsSound ==
    ASSUME IInv, Take
    PROVE  IInv'
<1>1. /\ worker.at = "idle" /\ queue # <<>> /\ queue' = Tail(queue)
      /\ UNCHANGED <<entry, pending, failed, degraded, closed, canonVars>>
  BY DEF Take, WorkerAt
<1>2. /\ worker.write = None /\ Head(queue) \in Task /\ Head(queue) = queue[1]
      /\ 1 \in DOMAIN queue /\ queue \in Seq(Task)
  BY <1>1, TailTask DEF IInv, TypeOK, WorkerSound
<1>3. /\ Head(queue).do = "commit" => Head(queue).write \in Write
      /\ Head(queue).do = "flush" => Head(queue).caller \in Callers
  BY <1>2, FlushTask DEF IInv
<1>4. /\ Head(queue).do # "flush" => UNCHANGED caller
      /\ Head(queue).do = "flush" => UNCHANGED worker /\
             caller' = [caller EXCEPT ![Head(queue).caller] =
                                          [caller[Head(queue).caller] EXCEPT !.at = "flushed"]]
  BY DEF Take
<1>5. /\ caller' \in [Callers -> CallerState]
      /\ \A c \in Callers :
             \/ caller'[c] = caller[c]
             \/ /\ Head(queue).do = "flush" /\ Head(queue).caller = c
                /\ caller'[c].at = "flushed" /\ caller'[c].base = caller[c].base
                /\ caller'[c].token = caller[c].token /\ caller'[c].before = caller[c].before
  <2>1. CASE Head(queue).do # "flush"
    BY <1>4, <2>1 DEF IInv, TypeOK
  <2>2. CASE Head(queue).do = "flush"
    <3> DEFINE b == Head(queue).caller
               s == [caller[b] EXCEPT !.at = "flushed"]
    <3>1. caller[b] \in CallerState
      BY <1>3, <2>2 DEF IInv, TypeOK
    <3>2. /\ s \in CallerState /\ s.at = "flushed" /\ s.base = caller[b].base
          /\ s.token = caller[b].token /\ s.before = caller[b].before
      BY <3>1 DEF CallerState
    <3> HIDE DEF s
    <3>3. /\ caller' \in [Callers -> CallerState] /\ caller'[b] = s
          /\ \A d \in Callers \ {b} : caller'[d] = caller[d]
      <4>1. caller' = [caller EXCEPT ![b] = s]
        BY <1>4, <2>2 DEF s
      <4> QED
        BY <1>3, <2>2, <3>2, <4>1, GoesTyped DEF IInv
    <3> QED
      BY <2>2, <3>2, <3>3
  <2> QED
    BY <2>1, <2>2
<1>6. queue' \in Seq(Task) /\ QueueSound' /\ BarrierSound'
  <2>1. \A c \in Callers : /\ caller'[c].before = caller[c].before
                           /\ caller'[c].at = caller[c].at
                                \/ (Head(queue).do = "flush" /\ Head(queue).caller = c)
    BY <1>5
  <2> QED
    BY <1>1, <2>1, TailKeepsOrder DEF IInv
<1>7. PastSound' /\ Grows
  BY <1>1, StoreStep DEF StoreMoves, IInv, canonVars
<1>8. \A c \in Callers : CallerSound(c)'
  <2> SUFFICES ASSUME NEW c \in Callers PROVE CallerSound(c)'
    OBVIOUS
  <2>1. CASE caller'[c] = caller[c]
    BY <1>7, <2>1, CallerFrame DEF IInv
  <2>2. CASE caller'[c] # caller[c]
    BY <1>1, <1>5, <2>2 DEF CallerSound, IInv, canonVars
  <2> QED
    BY <2>1, <2>2
<1>9. /\ worker' \in WorkerState
      /\ Head(queue).do = "commit" => worker'.at = "commit" /\ worker'.write = Head(queue).write
      /\ Head(queue).do = "shutdown" => worker'.at = "stopped" /\ worker'.write = None
      /\ Head(queue).do = "probe" => worker'.at = "probe" /\ worker'.write = None
      /\ Head(queue).do = "flush" => worker' = worker
  <2>1. CASE Head(queue).do = "commit"
    <3> DEFINE w == Head(queue).write
    <3>1. worker' = [Waiting EXCEPT !.at = "commit", !.write = w]
      BY <2>1 DEF Take, WorkerDoes
    <3>2. w \in Write
      BY <1>3, <2>1
    <3> HIDE DEF w
    <3>3. worker' \in WorkerState
      BY <3>1, <3>2, IdleTyped DEF WorkerState
    <3>4. worker'.at = "commit" /\ worker'.write = w
      BY <3>1 DEF Waiting
    <3> QED
      BY <2>1, <3>3, <3>4 DEF w
  <2>2. CASE Head(queue).do \in {"shutdown", "probe"}
    <3> DEFINE at == IF Head(queue).do = "probe" THEN "probe" ELSE "stopped"
    <3>1. worker' = [Waiting EXCEPT !.at = at]
      BY <2>2 DEF Take, WorkerDoes
    <3>2. worker' \in WorkerState
      BY <3>1, RetriesAssumption DEF WorkerState, Waiting
    <3>3. worker'.at = at /\ worker'.write = None
      BY <3>1 DEF Waiting
    <3> QED
      BY <2>2, <3>2, <3>3
  <2>3. CASE Head(queue).do = "flush"
    BY <1>4, <2>3 DEF IInv, TypeOK
  <2> QED
    BY <1>2, <2>1, <2>2, <2>3 DEF Task
<1>10. TypeOK'
  BY <1>1, <1>5, <1>6, <1>9 DEF IInv, TypeOK, canonVars
<1>11. IF Head(queue).do = "commit"
       THEN /\ WritesIn(queue) = WritesIn(queue') \cup {worker'.write}
            /\ Cardinality(CommitsIn(queue)) = Cardinality(CommitsIn(queue')) + 1
            /\ worker'.write \in Write /\ worker'.write # None
       ELSE /\ WritesIn(queue) = WritesIn(queue') /\ worker'.write = None
            /\ Cardinality(CommitsIn(queue)) = Cardinality(CommitsIn(queue'))
  <2>1. CASE Head(queue).do = "commit"
    <3>1. worker'.write = Head(queue).write /\ worker'.write \in Write
      BY <1>3, <1>9, <2>1
    <3> QED
      BY <1>1, <1>2, <2>1, <3>1, TailCommits, NoneAssumption
  <2>2. CASE Head(queue).do # "commit"
    <3>1. worker'.write = None
      BY <1>2, <1>9, <2>2 DEF Task
    <3> QED
      BY <1>1, <1>2, <2>2, <3>1, TailCommits
  <2> QED
    BY <2>1, <2>2
<1>12. Unsettled' = Unsettled
  <2>1. Unsettled' = WritesIn(queue') \cup ({worker'.write} \ {None})
    BY DEF Unsettled, WritesIn, CommitsIn, Tasks
  <2> QED
    BY <1>2, <1>11, <2>1, UnsettledIs
<1>13. WorkerSound'
  <2>1. CASE Head(queue).do = "commit"
    <3>1. worker'.write.update \in worker'.write.content
      BY <1>2, <1>9, <2>1 DEF IInv, QueueSound, CommitsIn
    <3> QED
      BY <1>9, <1>11, <2>1, <3>1 DEF WorkerSound
  <2>2. CASE Head(queue).do = "shutdown"
    <3>1. closed /\ Len(queue) = 1
      BY <1>2, <2>2 DEF IInv, QueueSound
    <3>2. queue' = <<>>
      BY <1>1, <1>2, <1>6, <3>1, TailTask, EmptySeq
    <3> QED
      BY <1>1, <1>9, <2>2, <3>1, <3>2 DEF WorkerSound
  <2>3. CASE Head(queue).do = "probe"
    BY <1>9, <2>3 DEF WorkerSound
  <2>4. CASE Head(queue).do = "flush"
    BY <1>1, <1>2, <1>9, <2>4 DEF WorkerSound
  <2> QED
    BY <1>2, <2>1, <2>2, <2>3, <2>4 DEF Task
<1>14. FlushedSound'
  <2> SUFFICES ASSUME NEW c \in Callers, caller'[c].at = "flushed"
               PROVE  caller'[c].before \cap UnsettledUpdates' = {}
    BY DEF FlushedSound
  <2>1. CASE caller'[c] = caller[c]
    BY <1>12, <2>1 DEF IInv, FlushedSound, UnsettledUpdates
  <2>2. CASE caller'[c] # caller[c]
    <3>1. /\ Head(queue).do = "flush" /\ Head(queue).caller = c
          /\ caller'[c].before = caller[c].before
      BY <1>5, <2>2
    <3>2. Unsettled' = WritesIn(queue)
      BY <1>2, <1>12, UnsettledIs
    <3>3. \A j \in CommitsIn(queue) : queue[j].write.update \notin caller[c].before
      <4> SUFFICES ASSUME NEW j \in CommitsIn(queue)
                   PROVE  queue[j].write.update \notin caller[c].before
        OBVIOUS
      <4>1. j \in DOMAIN queue /\ queue[j].do = "commit" /\ 1 < j
        BY <1>2, <3>1, LenProperties DEF CommitsIn
      <4> QED
        BY <1>2, <3>1, <4>1 DEF IInv, BarrierSound
    <3> QED
      BY <3>1, <3>2, <3>3 DEF UnsettledUpdates, WritesIn
  <2> QED
    BY <2>1, <2>2
<1>15. PendingAccurate'
  <2>1. Tasks("commit") = CommitsIn(queue) /\ Tasks("commit")' = CommitsIn(queue')
    BY DEF Tasks, CommitsIn
  <2>2. Cardinality(CommitsIn(queue')) \in Nat
    BY <1>6, CommitsFinite
  <2>3. pending = Cardinality(CommitsIn(queue))
    BY <1>1, <2>1, <1>11, <2>2 DEF IInv, PendingAccurate
  <2>4. worker'.at \in {"commit", "settle"} <=> Head(queue).do = "commit"
    BY <1>1, <1>2, <1>9 DEF Task
  <2> QED
    BY <1>1, <1>11, <2>1, <2>2, <2>3, <2>4 DEF PendingAccurate
<1>16. EntrySound' /\ EntryJustified' /\ NoWriteForgotten'
  BY <1>1, <1>12, EntryFrame, ForgottenFrame DEF IInv, canonVars
<1>17. ThroughSound'
  <2> SUFFICES ASSUME mode = "Sync" PROVE CommitsIn(queue') = {} /\ worker'.write = None
    BY <1>1 DEF IInv, ThroughSound, canonVars, CommitsIn
  <2>1. CommitsIn(queue) = {} /\ WritesIn(queue) = {}
    BY DEF IInv, ThroughSound, WritesIn
  <2>2. Head(queue).do # "commit" /\ worker'.write = None
    BY <1>2, <1>11, <2>1 DEF CommitsIn
  <2>3. WritesIn(queue') = {}
    BY <1>11, <2>1, <2>2
  <2> QED
    BY <2>2, <2>3 DEF WritesIn
<1> QED
  BY <1>6, <1>7, <1>8, <1>10, <1>13, <1>14, <1>15, <1>16, <1>17 DEF IInv

----------------------------------------------------------------------------
(* The worker commits. *)

LEMMA UnavailableTyped ==
    ASSUME TypeOK, worker.at = "commit", Unavailable \/ \E r \in {"ok", "conflict", "error"} : Answered(r)
    PROVE  /\ worker' \in WorkerState /\ worker'.write = worker.write
           /\ worker'.at \in {"commit", "settle"}
           /\ worker'.at = "settle" /\ worker'.result = "ok" => Answered("ok")
<1>1. worker \in WorkerState
  BY DEF TypeOK
<1>2. CASE \E r \in {"ok", "conflict", "error"} : Answered(r)
  <2>1. PICK r \in {"ok", "conflict", "error"} :
            worker' = [worker EXCEPT !.at = "settle", !.result = r]
    BY <1>2 DEF Answered, WorkerDoes
  <2>2. worker' \in WorkerState
    BY <1>1, <2>1 DEF WorkerState
  <2>3. worker'.at = "settle" /\ worker'.result = r /\ worker'.write = worker.write
    BY <1>1, <2>1 DEF WorkerState
  <2> QED
    BY <2>1, <2>2, <2>3 DEF Answered, WorkerDoes
<1>3. CASE worker.attempts < WRITE_RETRIES /\ Unavailable
  <2>1. worker' = [worker EXCEPT !.attempts = worker.attempts + 1]
    BY <1>3 DEF Unavailable, WorkerDoes
  <2>2. worker.attempts \in 0..WRITE_RETRIES /\ worker.attempts + 1 \in 0..WRITE_RETRIES
    BY <1>1, <1>3, RetriesAssumption DEF WorkerState
  <2>3. worker' \in WorkerState
    BY <1>1, <2>1, <2>2 DEF WorkerState
  <2>4. worker'.at = "commit" /\ worker'.write = worker.write
    BY <1>1, <2>1 DEF WorkerState
  <2> QED
    BY <2>3, <2>4
<1> QED
  BY <1>2, <1>3 DEF Unavailable

LEMMA DrainKeepsSound ==
    ASSUME IInv, DrainLands \/ DrainFails
    PROVE  IInv'
<1>1. /\ worker.at = "commit" /\ worker.write \in Write /\ WorkerSound
      /\ UNCHANGED <<mode, entry, queue, pending, failed, degraded, caller, closed,
                     accepted, taken>>
      /\ Unavailable \/ \E r \in {"ok", "conflict", "error"} : Answered(r)
  <2>1. worker.at = "commit" /\ worker.write # None
    BY DEF DrainLands, DrainFails, WorkerAt, IInv, WorkerSound
  <2>2. worker.write \in Write
    BY <2>1 DEF IInv, TypeOK, WorkerState
  <2> QED
    BY <2>1, <2>2 DEF DrainLands, DrainFails, IInv
<1>2. /\ worker' \in WorkerState /\ worker'.write = worker.write
      /\ worker'.at \in {"commit", "settle"}
      /\ worker'.at = "settle" /\ worker'.result = "ok" => Answered("ok")
  BY <1>1, UnavailableTyped DEF IInv
<1>3. StoreMoves /\ late' \in {None, late, worker.write}
  <2>1. CASE DrainLands
    BY <1>1, <2>1, OutcomeTyped DEF DrainLands, Land, Expected, StoreMoves
  <2>2. CASE DrainFails
    BY <2>2 DEF DrainFails, LeaveBehind, StoreMoves
  <2> QED
    BY <2>1, <2>2
<1>4. worker'.at = "settle" /\ worker'.result = "ok" => Outcome(worker'.write) \in past'
  <2>1. CASE DrainLands
    BY <1>2, <2>1 DEF DrainLands, Land, Outcome
  <2>2. CASE DrainFails
    <3>1. worker'.at = "settle" => worker'.result # "ok"
      <4>1. worker \in WorkerState
        BY DEF IInv, TypeOK
      <4> QED
        BY <1>1, <2>2, <4>1 DEF DrainFails, Answered, Unavailable, WorkerDoes, WorkerState
    <3> QED
      BY <3>1
  <2> QED
    BY <2>1, <2>2
<1>5. PastSound' /\ Grows /\ store' \in Snapshot
  BY <1>1, <1>3, StoreStep DEF IInv
<1>6. TypeOK'
  BY <1>1, <1>2, <1>3, <1>5 DEF IInv, TypeOK, Grows
<1>7. \A c \in Callers : CallerSound(c)'
  BY <1>1, <1>5, CallerFrame DEF IInv
<1>8. WorkerSound'
  <2>1. worker'.write # None
    BY <1>1, <1>2 DEF WorkerSound
  <2> QED
    BY <1>1, <1>2, <1>4, <2>1 DEF WorkerSound
<1>9. QueueSound' /\ BarrierSound'
  BY <1>1, QueueFrame DEF IInv, Waits
<1>10. Unsettled' = Unsettled /\ UnsettledUpdates' = UnsettledUpdates
  BY <1>1, <1>2, SameUnsettled
<1>11. EntrySound' /\ EntryJustified' /\ NoWriteForgotten'
  BY <1>1, <1>5, <1>10, EntryFrame, ForgottenFrame DEF IInv, Grows
<1>12. FlushedSound' /\ PendingAccurate'
  BY <1>1, <1>2, <1>10, PendingFrame DEF IInv, FlushedSound
<1>13. ThroughSound'
  <2>1. mode # "Sync"
    BY <1>1 DEF IInv, ThroughSound, WorkerSound
  <2> QED
    BY <1>1, <2>1 DEF ThroughSound
<1> QED
  BY <1>5, <1>6, <1>7, <1>8, <1>9, <1>11, <1>12, <1>13 DEF IInv

\* A write is settled: stored, or kept for the client and gone from the replica.
LEMMA SettleKeepsSound ==
    ASSUME IInv, Settle
    PROVE  IInv'
<1>1. PICK w \in Write : w = worker.write
  BY DEF Settle, WorkerAt, IInv, TypeOK, WorkerState, WorkerSound
<1>2. /\ worker.at = "settle" /\ w # None /\ w.update \in w.content
      /\ worker.result = "ok" => Outcome(w) \in past
      /\ UNCHANGED <<queue, degraded, caller, closed, canonVars>>
      /\ pending' = CountedOff
  BY <1>1 DEF Settle, WorkerAt, IInv, WorkerSound
<1>3. /\ worker' \in WorkerState /\ worker'.write = None /\ worker'.at \in {"idle", "probe"}
      /\ WorkerSound'
  <2> DEFINE v == [Waiting EXCEPT !.at = "probe"]
  <2>1. worker' \in {Waiting, v}
    BY DEF Settle, WorkerDoes
  <2>2. Waiting \in WorkerState /\ v \in WorkerState
    BY IdleTyped DEF WorkerState
  <2>3. Waiting.write = None /\ v.write = None /\ Waiting.at = "idle" /\ v.at = "probe"
    BY DEF Waiting
  <2> HIDE DEF v
  <2>4. worker' \in WorkerState /\ worker'.write = None /\ worker'.at \in {"idle", "probe"}
    BY <2>1, <2>2, <2>3
  <2> QED
    BY <2>4 DEF WorkerSound
<1>4. /\ entry' \in {entry, None} /\ failed' \in {failed, Append(failed, w)}
      /\ worker.result # "ok" =>
            /\ failed' = Append(failed, w)
            /\ entry' # None => entry.version # w.expected + 1
  BY <1>1 DEF Settle, WithoutRejected, KeptForClient
<1>5. /\ Append(failed, w) \in Seq(Write)
      /\ {failed[i].update : i \in DOMAIN failed} \cup {w.update}
             \subseteq {Append(failed, w)[i].update : i \in DOMAIN Append(failed, w)}
  <2>1. failed \in Seq(Write)
    BY DEF IInv, TypeOK
  <2>2. /\ Append(failed, w) \in Seq(Write) /\ Len(Append(failed, w)) = Len(failed) + 1
        /\ Append(failed, w)[Len(failed) + 1] = w
        /\ \A i \in 1..Len(failed) : Append(failed, w)[i] = failed[i]
    BY <2>1, AppendProperties
  <2>3. /\ Len(failed) \in Nat /\ DOMAIN failed = 1..Len(failed)
        /\ DOMAIN Append(failed, w) = 1..Len(Append(failed, w))
    BY <2>1, <2>2, LenProperties
  <2>4. \A i \in DOMAIN failed : i \in DOMAIN Append(failed, w) /\ Append(failed, w)[i] = failed[i]
    BY <2>2, <2>3
  <2>5. Len(failed) + 1 \in DOMAIN Append(failed, w)
    BY <2>2, <2>3
  <2> QED
    BY <2>2, <2>4, <2>5
<1>6. /\ Unsettled = WritesIn(queue) \cup {w} /\ Unsettled' = WritesIn(queue)
      /\ Unsettled = Unsettled' \cup {w}
  <2>1. Unsettled' = WritesIn(queue') \cup ({worker'.write} \ {None})
    BY DEF Unsettled, WritesIn, CommitsIn, Tasks
  <2> QED
    BY <1>1, <1>2, <1>3, <2>1, UnsettledIs
<1>7. pending' \in Nat /\ PendingAccurate'
  <2>1. Tasks("commit") = CommitsIn(queue) /\ Tasks("commit")' = CommitsIn(queue)
    BY <1>2 DEF Tasks, CommitsIn
  <2>2. Cardinality(CommitsIn(queue)) \in Nat
    BY CommitsFinite DEF IInv, TypeOK
  <2>3. pending = Cardinality(CommitsIn(queue)) + 1
    BY <1>2, <2>1 DEF IInv, PendingAccurate
  <2>4. pending' = Cardinality(CommitsIn(queue))
    BY <1>2, <2>2, <2>3 DEF CountedOff
  <2> QED
    BY <1>3, <2>1, <2>2, <2>4 DEF PendingAccurate
<1>8. TypeOK'
  BY <1>2, <1>3, <1>4, <1>5, <1>7 DEF IInv, TypeOK, canonVars
<1>9. PastSound' /\ Grows
  BY <1>2, StoreStep DEF StoreMoves, IInv, canonVars
<1>10. \A c \in Callers : CallerSound(c)'
  BY <1>2, <1>9, CallerFrame DEF IInv
<1>11. QueueSound' /\ BarrierSound'
  BY <1>2, QueueFrame DEF IInv, Waits
<1>12. EntrySound' /\ EntryJustified'
  <2> SUFFICES ASSUME entry' # None PROVE EntrySound' /\ EntryJustified'
    BY DEF EntrySound, EntryJustified
  <2>1. entry' = entry /\ past' = past
    BY <1>2, <1>4 DEF canonVars
  <2>2. SnapshotOf(entry) \in past \cup {Outcome(u) : u \in Unsettled}
    BY <2>1 DEF IInv, EntryJustified
  <2>3. SnapshotOf(entry) \in past \cup {Outcome(u) : u \in Unsettled'}
    <3>1. CASE worker.result = "ok"
      BY <1>2, <1>6, <2>2, <3>1
    <3>2. CASE worker.result # "ok"
      <4>1. SnapshotOf(entry) # Outcome(w)
        BY <1>4, <3>2, OutcomeTyped DEF SnapshotOf
      <4> QED
        BY <1>6, <2>2, <4>1
    <3> QED
      BY <3>1, <3>2
  <2>4. EntrySound'
    BY <2>1 DEF IInv, EntrySound, Labels, SnapshotOf
  <2> QED
    BY <2>1, <2>3, <2>4 DEF EntryJustified, SnapshotOf, Outcome
<1>13. FlushedSound'
  <2>1. UnsettledUpdates' \subseteq UnsettledUpdates
    BY <1>6 DEF UnsettledUpdates
  <2> QED
    BY <1>2, <2>1 DEF IInv, FlushedSound
<1>14. NoWriteForgotten'
  <2> SUFFICES ASSUME mode = "Buffered",
                      NEW u \in accepted
               PROVE  u \in {x.update : x \in Unsettled'}
                            \cup {failed'[i].update : i \in DOMAIN failed'} \cup taken \cup Landed
    BY <1>2 DEF NoWriteForgotten, Landed, canonVars
  <2>1. u \in {x.update : x \in Unsettled}
              \cup {failed[i].update : i \in DOMAIN failed} \cup taken \cup Landed
    BY DEF IInv, NoWriteForgotten
  <2>2. {failed[i].update : i \in DOMAIN failed} \subseteq {failed'[i].update : i \in DOMAIN failed'}
    BY <1>4, <1>5
  <2>3. w.update \in {failed'[i].update : i \in DOMAIN failed'} \cup Landed
    <3>1. CASE worker.result = "ok"
      <4>1. Outcome(w) \in past /\ w.update \in Outcome(w).content
        BY <1>2, <3>1, OutcomeTyped
      <4> QED
        BY <4>1 DEF Landed
    <3>2. CASE worker.result # "ok"
      BY <1>4, <1>5, <3>2
    <3> QED
      BY <3>1, <3>2
  <2> QED
    BY <1>6, <2>1, <2>2, <2>3
<1>15. ThroughSound'
  BY <1>1, <1>2, ThroughFrame DEF IInv, ThroughSound, canonVars, CommitsIn
<1> QED
  BY <1>3, <1>7, <1>8, <1>9, <1>10, <1>11, <1>12, <1>13, <1>14, <1>15 DEF IInv

----------------------------------------------------------------------------
(* Every step keeps the invariant. *)

LEMMA CallerKeepsSound ==
    ASSUME IInv, NEW c \in Callers, Caller(c)
    PROVE  IInv'
<1>1. CASE ServeCached(c)
  BY <1>1, ServedKeepsSound, ServeProbeKeepsSound DEF ServeCached
<1>2. CASE Miss(c) \/ ColdReadFails(c) \/ CommitBufferedConflict(c)
  BY <1>2, MissKeepsSound
<1>3. CASE ColdProbe(c)
  BY <1>3, ColdProbeKeepsSound
<1>4. CASE ColdRead(c)
  BY <1>4, ColdReadKeepsSound
<1>5. CASE ColdInstall(c)
  BY <1>5, ColdInstallKeepsSound
<1>6. CASE \E update \in Writes : CommitBuffered(c, update)
  BY <1>6, CommitBufferedKeepsSound
<1>7. CASE \E update \in Writes : CommitSync(c, update)
  BY <1>7, CommitSyncKeepsSound
<1>8. CASE SettleSync(c)
  BY <1>8, SettleSyncKeepsSound
<1>9. CASE TakeFailed(c) \/ EndFlush(c)
  BY <1>9, PopKeepsSound
<1>10. CASE Flush(c)
  BY <1>10, FlushKeepsSound
<1> QED
  BY <1>1, <1>2, <1>3, <1>4, <1>5, <1>6, <1>7, <1>8, <1>9, <1>10 DEF Caller

LEMMA StutterKeepsSound == IInv /\ UNCHANGED vars => IInv'
<1> SUFFICES ASSUME IInv, UNCHANGED vars PROVE IInv'
  OBVIOUS
<1> QED
  BY StoreOnly DEF vars, StoreMoves

LEMMA NextKeepsSound == IInv /\ [Next]_vars => IInv'
<1> SUFFICES ASSUME IInv, [Next]_vars PROVE IInv'
  OBVIOUS
<1>1. CASE Take
  BY <1>1, TakeKeepsSound
<1>2. CASE DrainLands \/ DrainFails
  BY <1>2, DrainKeepsSound
<1>3. CASE Settle
  BY <1>3, SettleKeepsSound
<1>4. CASE Probe \/ RefreshFails \/ Compare \/ Read
  BY <1>4, ProbeKeepsSound
<1>5. CASE Install
  BY <1>5, InstallKeepsSound
<1>6. CASE \E c \in Callers : Caller(c)
  BY <1>6, CallerKeepsSound
<1>7. CASE LandLate \/ \E update \in ExtWrites : ExtCommit(update)
  BY <1>7, OthersKeepSound
<1>8. CASE Drop
  BY <1>8, DropKeepsSound
<1>9. CASE UNCHANGED vars
  BY <1>9, StutterKeepsSound
<1> QED
  BY <1>1, <1>2, <1>3, <1>4, <1>5, <1>6, <1>7, <1>8, <1>9 DEF Next, Worker

\* The inductive invariant of the engine, in both commit modes.
THEOREM Soundness == Spec => []IInv
<1> QED
  BY InitSound, NextKeepsSound, PTL DEF Spec

\* The engine keeps its types; no commit is retried more than WRITE_RETRIES times.
THEOREM TypeCorrectness == Spec => []TypeOK
<1>1. IInv => TypeOK
  BY DEF IInv
<1> QED
  BY <1>1, Soundness, PTL

\* The pending count is the number of commits queued or in flight.
THEOREM PendingCounts == Spec => []PendingAccurate
<1>1. IInv => PendingAccurate
  BY DEF IInv
<1> QED
  BY <1>1, Soundness, PTL

\* No buffered write vanishes, whatever fails, is retried or rejected.
THEOREM WritesAreKept == Spec => []NoWriteForgotten
<1>1. IInv => NoWriteForgotten
  BY DEF IInv
<1> QED
  BY <1>1, Soundness, PTL

\* A replica whose token is the store's is the stored logbook: refresh may skip its read.
THEOREM TokensTell == Spec => []TokenSound
<1>1. IInv => TokenSound
  <2> SUFFICES ASSUME IInv, entry # None, entry.token = store.version
               PROVE  SnapshotOf(entry) = store
    BY DEF TokenSound
  <2>1. /\ store.version \in Nat /\ entry.token # None /\ entry \in Entry
        /\ SnapshotOf(entry) \in past /\ entry.token <= SnapshotOf(entry).version
    BY NoneAssumption DEF IInv, TypeOK, Snapshot, EntrySound, Labels
  <2>2. SnapshotOf(entry).version <= store.version /\ SnapshotOf(entry).version \in Nat
    BY <2>1 DEF IInv, TypeOK, PastSound, Snapshot
  <2>3. SnapshotOf(entry).version = store.version
    BY <2>1, <2>2
  <2> QED
    BY <2>1, <2>3 DEF IInv, PastSound
<1> QED
  BY <1>1, Soundness, PTL

\* The replica never shows a write that was rejected.
THEOREM ReplicaJustified == Spec => []EntryJustified
<1>1. IInv => EntryJustified
  BY DEF IInv
<1> QED
  BY <1>1, Soundness, PTL

\* flush and Drop wait for every write taken on before them.
THEOREM FlushWaits == Spec => []FlushIsBarrier
<1>1. IInv => FlushIsBarrier
  <2> SUFFICES ASSUME IInv PROVE FlushIsBarrier
    OBVIOUS
  <2>1. ASSUME worker.at = "stopped" PROVE queue = <<>> /\ Unsettled = {}
    <3>1. queue = <<>> /\ worker.write = None
      BY <2>1 DEF IInv, WorkerSound
    <3> QED
      BY <3>1 DEF Unsettled, Tasks
  <2> QED
    BY <2>1 DEF IInv, FlushedSound, UnsettledUpdates, FlushIsBarrier
<1> QED
  BY <1>1, Soundness, PTL

----------------------------------------------------------------------------
(* Commits that write through. *)

\* The steps that change the store.
LEMMA StoreSteps ==
    ASSUME [Next]_vars
    PROVE  \/ UNCHANGED store
           \/ DrainLands \/ LandLate \/ \E update \in ExtWrites : ExtCommit(update)
           \/ \E c \in Callers, update \in Writes : CommitSync(c, update)
<1>1. ASSUME NEW c \in Callers, Caller(c)
      PROVE  UNCHANGED store \/ \E update \in Writes : CommitSync(c, update)
  BY <1>1 DEF Caller, ServeCached, Miss, ColdProbe, ColdRead, ColdReadFails, ColdInstall,
              CommitBuffered, CommitBufferedConflict, SettleSync, TakeFailed, Flush, EndFlush,
              canonVars
<1>2. Take \/ DrainFails \/ Settle \/ Probe \/ RefreshFails \/ Compare \/ Read \/ Install
          \/ Drop \/ UNCHANGED vars => UNCHANGED store
  BY DEF Take, DrainFails, Settle, Probe, RefreshFails, Compare, Read, Install, Drop,
         canonVars, vars
<1> QED
  BY <1>1, <1>2 DEF Next, Worker

LEMMA StepKeepsUpdates ==
    ASSUME IInv, [Next]_vars, mode = "Sync"
    PROVE  store.content \subseteq store'.content
<1>1. CASE UNCHANGED store
  BY <1>1
<1>2. CASE DrainLands
  BY <1>2 DEF DrainLands, WorkerAt, IInv, WorkerSound, ThroughSound
<1>3. CASE LandLate
  <2>1. PICK s \in past : s.version = late.expected /\ s.content \subseteq late.content
    BY <1>3 DEF LandLate, IInv, ThroughSound
  <2>2. s = store
    BY <1>3, <2>1 DEF LandLate, Land, Expected, IInv, PastSound
  <2> QED
    BY <1>3, <2>1, <2>2 DEF LandLate, Land, Outcome
<1>4. CASE \E update \in ExtWrites : ExtCommit(update)
  BY <1>4 DEF ExtCommit
<1>5. ASSUME NEW c \in Callers, NEW update \in Writes, CommitSync(c, update), store' # store
      PROVE  store.content \subseteq store'.content
  <2>1. PICK w \in Write : w = Submitted(c, update)
    BY <1>5, SubmittedTyped DEF CommitSync
  <2>2. store.version = w.expected /\ store' = Outcome(w)
    BY <1>5, <2>1 DEF CommitSync, Land, Expected
  <2>3. /\ caller[c].base \in past /\ caller[c].base.version = w.expected
        /\ caller[c].base.content \subseteq w.content
    <3>1. caller[c].base \in past
      BY <1>5 DEF IInv, CallerSound, CommitSync, MayCommit
    <3> QED
      BY <1>5, <2>1, <3>1, SubmittedTyped DEF CommitSync
  <2>4. caller[c].base = store
    BY <2>2, <2>3 DEF IInv, PastSound
  <2> QED
    BY <2>2, <2>3, <2>4 DEF Outcome
<1>6. CASE \E c \in Callers, update \in Writes : CommitSync(c, update)
  BY <1>1, <1>5, <1>6
<1> QED
  BY <1>1, <1>2, <1>3, <1>4, <1>6, StoreSteps

\* A commit that writes through is refused if the store has moved on since the client read.
WriteThroughKeepsUpdates ==
    [][mode = "Sync" => store.content \subseteq store'.content]_vars

\* With commits that write through no update is ever lost, also when the client read a stale
\* replica, its answer was lost, or its commit lands after it gave up.
THEOREM WriteThroughIsSafe == Spec => WriteThroughKeepsUpdates
<1>1. IInv /\ [Next]_vars => [mode = "Sync" => store.content \subseteq store'.content]_vars
  BY StepKeepsUpdates
<1> QED
  BY <1>1, Soundness, PTL DEF Spec, WriteThroughKeepsUpdates

----------------------------------------------------------------------------
(* Updates get lost only after a rejection. *)

\* What the store will have held once the writes of the queue up to the i-th have landed.
InFlight == {Outcome(w) : w \in {worker.write} \ {None}}

Queued(i) == {Outcome(queue[j].write) : j \in {k \in CommitsIn(queue) : k < i}}

Ahead(i) == past \cup InFlight \cup Queued(i)

\* The same for all of them.
Coming == past \cup {Outcome(w) : w \in Unsettled}

\* No write was rejected so far.
Unrejected == failed = <<>> /\ taken = {}

\* The write carries on from one of the snapshots.
Extends(write, snapshots) ==
    \E s \in snapshots : s.version = write.expected /\ s.content \subseteq write.content

\* Every commit carries on from what the store has held, or will have held before it gets
\* there; and so does what a caller has read.
CommitsExtend ==
    /\ worker.write # None => Extends(worker.write, past)
    /\ \A i \in CommitsIn(queue) : Extends(queue[i].write, Ahead(i))

LateExtends == late # None => Extends(late, past)

ReadsAreComing == \A c \in Callers : caller[c].base # None => caller[c].base \in Coming

Extending == CommitsExtend /\ LateExtends /\ ReadsAreComing

\* A rejection breaks the chain: what was predicted will not be stored.
LossInv == Unrejected => Extending

LEMMA InitExtends == Init => LossInv
<1> SUFFICES ASSUME Init PROVE LossInv
  OBVIOUS
<1>1. CommitsIn(queue) = {} /\ worker.write = None /\ late = None
  BY EmptySeq DEF Init, Waiting, CommitsIn
<1>2. \A c \in Callers : caller[c].base = None
  BY DEF Init, Idle
<1> QED
  BY <1>1, <1>2 DEF LossInv, Extending, CommitsExtend, LateExtends, ReadsAreComing

LEMMA ExtendsMore ==
    ASSUME NEW w, NEW S, NEW T, S \subseteq T, Extends(w, S)
    PROVE  Extends(w, T)
BY DEF Extends

\* A rejection is not undone.
LEMMA RejectionStays ==
    ASSUME IInv, [Next]_vars, Unrejected'
    PROVE  Unrejected /\ UNCHANGED <<failed, taken>>
<1>1. CASE UNCHANGED <<failed, taken>>
  BY <1>1 DEF Unrejected
<1>2. ASSUME NEW c \in Callers, TakeFailed(c) \/ EndFlush(c)
      PROVE  UNCHANGED <<failed, taken>>
  BY <1>2 DEF TakeFailed, EndFlush, PopFailed, Unrejected
<1>3. ASSUME Settle PROVE UNCHANGED <<failed, taken>>
  <2>1. failed \in Seq(Write) /\ worker.write \in Write
    BY <1>3 DEF Settle, WorkerAt, IInv, TypeOK, WorkerSound, WorkerState
  <2>2. Len(Append(failed, worker.write)) = Len(failed) + 1 /\ Len(failed) \in Nat
    BY <2>1, AppendProperties, LenProperties
  <2>3. Append(failed, worker.write) # <<>>
    <3>1. Len(<<>>) = 0 /\ Len(Append(failed, worker.write)) # 0
      BY <2>2, EmptySeq
    <3> QED
      BY <3>1, Zenon
  <2> QED
    BY <1>3, <2>3 DEF Settle, KeptForClient, canonVars, Unrejected
<1>4. ASSUME NEW c \in Callers, Caller(c) PROVE UNCHANGED <<failed, taken>>
  BY <1>2, <1>4 DEF Caller, ServeCached, Miss, ColdProbe, ColdRead, ColdReadFails, ColdInstall,
                    CommitBuffered, CommitSync, CommitBufferedConflict, SettleSync, Flush,
                    canonVars
<1>5. Take \/ DrainLands \/ DrainFails \/ Probe \/ RefreshFails \/ Compare \/ Read \/ Install
          \/ Drop \/ LandLate \/ (\E update \in ExtWrites : ExtCommit(update)) \/ UNCHANGED vars
          => UNCHANGED <<failed, taken>>
  BY DEF Take, DrainLands, DrainFails, Probe, RefreshFails, Compare, Read, Install, Drop,
         LandLate, ExtCommit, canonVars, vars
<1> QED
  BY <1>1, <1>3, <1>4, <1>5 DEF Next, Worker

LEMMA CommitsFrame ==
    ASSUME CommitsExtend, past \subseteq past', UNCHANGED queue, worker'.write = worker.write
    PROVE  CommitsExtend' /\ Coming \subseteq Coming'
<1>1. Unsettled' = Unsettled
  BY SameUnsettled
<1>2. \A i \in CommitsIn(queue) : Ahead(i) \subseteq Ahead(i)'
  BY DEF Ahead, InFlight, Queued, CommitsIn
<1>3. worker'.write # None => Extends(worker'.write, past')
  BY ExtendsMore DEF CommitsExtend
<1>4. \A i \in CommitsIn(queue') : Extends(queue'[i].write, Ahead(i)')
  BY <1>2, ExtendsMore DEF CommitsExtend
<1> QED
  BY <1>1, <1>3, <1>4 DEF CommitsExtend, Coming

LEMMA LateFrame ==
    ASSUME LateExtends, past \subseteq past', late' \in {late, None} \/ Extends(late', past')
    PROVE  LateExtends'
BY ExtendsMore DEF LateExtends

LEMMA ReadsFrame ==
    ASSUME ReadsAreComing, Coming \subseteq Coming',
           \A c \in Callers : caller'[c].base \in {None, caller[c].base} \cup Coming'
    PROVE  ReadsAreComing'
BY DEF ReadsAreComing

\* A task is sent: a commit carries on from something that is coming.
LEMMA SendExtends ==
    ASSUME TypeOK, CommitsExtend, NEW e \in Task, queue' = Append(queue, e),
           UNCHANGED <<worker, past>>, e.do = "commit" => Extends(e.write, Coming)
    PROVE  CommitsExtend' /\ Coming \subseteq Coming'
<1>0. PICK n \in Nat : n = Len(queue) + 1
  BY AppendTask DEF TypeOK
<1>1. /\ DOMAIN queue' = (DOMAIN queue) \cup {n} /\ queue'[n] = e
      /\ DOMAIN queue = 1..Len(queue) /\ Len(queue) \in Nat
      /\ \A i \in DOMAIN queue : queue'[i] = queue[i]
  BY <1>0, AppendTask DEF TypeOK
<1>2. \A i \in DOMAIN queue : i < n
  BY <1>0, <1>1
<1>3. CommitsIn(queue) \subseteq CommitsIn(queue')
  BY <1>1 DEF CommitsIn
<1>4. \A i \in CommitsIn(queue) : Ahead(i) \subseteq Ahead(i)'
  <2> SUFFICES ASSUME NEW i \in CommitsIn(queue) PROVE Queued(i) \subseteq Queued(i)'
    BY DEF Ahead, InFlight
  <2> QED
    BY <1>1, <1>3 DEF Queued, CommitsIn
<1>5. Coming \subseteq Ahead(n)'
  <2>1. \A i \in CommitsIn(queue) : i \in CommitsIn(queue') /\ i < n /\ queue'[i] = queue[i]
    BY <1>1, <1>2, <1>3 DEF CommitsIn
  <2>2. {Outcome(w) : w \in WritesIn(queue)} \subseteq Queued(n)'
    BY <2>1 DEF WritesIn, Queued
  <2> QED
    BY <2>2, UnsettledIs DEF Ahead, InFlight, Coming
<1>6. \A i \in CommitsIn(queue') : Extends(queue'[i].write, Ahead(i)')
  <2> SUFFICES ASSUME NEW i \in CommitsIn(queue') PROVE Extends(queue'[i].write, Ahead(i)')
    OBVIOUS
  <2>1. CASE i = n
    BY <1>1, <1>5, <2>1, ExtendsMore DEF CommitsIn
  <2>2. CASE i \in CommitsIn(queue)
    BY <1>1, <1>4, <2>2, ExtendsMore DEF CommitsExtend, CommitsIn
  <2> QED
    BY <1>1, <2>1, <2>2 DEF CommitsIn
<1>7. Coming \subseteq Coming'
  <2>1. WritesIn(queue) \subseteq WritesIn(queue')
    BY <1>1, <1>3 DEF WritesIn, CommitsIn
  <2>2. Unsettled' = WritesIn(queue') \cup ({worker'.write} \ {None})
    BY DEF Unsettled, WritesIn, CommitsIn, Tasks
  <2> QED
    BY <2>1, <2>2, UnsettledIs DEF Coming
<1> QED
  BY <1>6, <1>7 DEF CommitsExtend

\* A caller goes on with what it had read, with something that is coming, or with nothing.
LEMMA CallerExtends ==
    ASSUME IInv, Extending, NEW c \in Callers, NEW s,
           caller' = [caller EXCEPT ![c] = s], s.base \in {None, caller[c].base} \cup Coming,
           CommitsExtend', Coming \subseteq Coming', past \subseteq past',
           late' \in {late, None} \/ Extends(late', past')
    PROVE  Extending'
<1>1. \A d \in Callers : caller'[d].base \in {None, caller[d].base} \cup Coming'
  BY DEF IInv, TypeOK
<1> QED
  BY <1>1, LateFrame, ReadsFrame DEF Extending

LEMMA EntryIsComing ==
    ASSUME IInv, entry # None
    PROVE  SnapshotOf(entry) \in Coming
BY DEF IInv, EntryJustified, Coming

\* What a caller's step does to the queue: nothing, or it sends a task.
LEMMA CallerSends ==
    ASSUME IInv, Extending, NEW c \in Callers, Caller(c)
    PROVE  CommitsExtend' /\ Coming \subseteq Coming' /\ past \subseteq past'
<1>1. past \subseteq past' /\ UNCHANGED worker
  BY DEF Caller, ServeCached, Miss, ColdProbe, ColdRead, ColdReadFails, ColdInstall,
         CommitBuffered, CommitSync, CommitBufferedConflict, SettleSync, TakeFailed, Flush,
         EndFlush, Land, canonVars
<1>2. CASE UNCHANGED queue
  BY <1>1, <1>2, CommitsFrame DEF Extending
<1>3. ASSUME NEW update \in Writes, CommitBuffered(c, update)
      PROVE  CommitsExtend' /\ Coming \subseteq Coming'
  <2>1. PICK w \in Write : w = Submitted(c, update)
    BY <1>3, SubmittedTyped DEF CommitBuffered
  <2>2. Extends(w, Coming)
    <3>1. caller[c].base \in Coming
      BY <1>3 DEF CommitBuffered, MayCommit, Extending, ReadsAreComing
    <3>2. caller[c].base.version = w.expected /\ caller[c].base.content \subseteq w.content
      BY <1>3, <2>1, SubmittedTyped DEF CommitBuffered
    <3> QED
      BY <3>1, <3>2 DEF Extends
  <2>3. PICK e \in Task : e = [do |-> "commit", write |-> w]
    BY DEF Task
  <2>4. queue' = Append(queue, e) /\ past' = past /\ e.write = w
    BY <1>3, <2>1, <2>3 DEF CommitBuffered
  <2> QED
    BY <1>1, <2>2, <2>4, SendExtends DEF Extending, IInv
<1>4. CASE Flush(c)
  <2>1. PICK e \in Task : e = [do |-> "flush", caller |-> c]
    BY DEF Task
  <2>2. queue' = Append(queue, e) /\ past' = past /\ e.do # "commit"
    BY <1>4, <2>1 DEF Flush, canonVars
  <2> QED
    BY <1>1, <2>2, SendExtends DEF Extending, IInv
<1>5. CASE ServeCached(c) /\ queue' # queue
  <2>1. PICK e \in Task : e = [do |-> "probe"]
    BY DEF Task
  <2>2. queue' = Append(queue, e) /\ past' = past /\ e.do # "commit"
    BY <1>5, <2>1 DEF ServeCached, canonVars
  <2> QED
    BY <1>1, <2>2, SendExtends DEF Extending, IInv
<1> QED
  BY <1>1, <1>2, <1>3, <1>4, <1>5
     DEF Caller, ServeCached, Miss, ColdProbe, ColdRead, ColdReadFails, ColdInstall,
         CommitSync, CommitBufferedConflict, SettleSync, TakeFailed, EndFlush

LEMMA CallerKeepsExtending ==
    ASSUME IInv, Extending, NEW c \in Callers, Caller(c)
    PROVE  Extending'
<1>0. CommitsExtend' /\ Coming \subseteq Coming' /\ past \subseteq past'
  BY CallerSends
<1>1. CASE ServeCached(c)
  <2>1. SnapshotOf(entry) \in Coming /\ [Idle EXCEPT !.base = SnapshotOf(entry)].base = SnapshotOf(entry)
    BY <1>1, EntryIsComing DEF ServeCached, Idle
  <2> QED
    BY <1>0, <1>1, <2>1, CallerExtends DEF ServeCached, Goto, canonVars
<1>2. CASE Miss(c) \/ ColdReadFails(c) \/ CommitBufferedConflict(c) \/ SettleSync(c)
           \/ Flush(c) \/ EndFlush(c) \/ \E update \in Writes : CommitBuffered(c, update)
  <2>1. /\ Idle.base = None /\ [Idle EXCEPT !.at = "coldprobe"].base = None
        /\ [Idle EXCEPT !.at = "flushing", !.before = accepted].base = None
    BY DEF Idle
  <2>2. \/ caller' = [caller EXCEPT ![c] = Idle]
        \/ caller' = [caller EXCEPT ![c] = [Idle EXCEPT !.at = "coldprobe"]]
        \/ caller' = [caller EXCEPT ![c] = [Idle EXCEPT !.at = "flushing", !.before = accepted]]
    BY <1>2 DEF Miss, ColdReadFails, CommitBufferedConflict, SettleSync, Flush, EndFlush,
                CommitBuffered, Goto
  <2>3. late' = late
    BY <1>2 DEF Miss, ColdReadFails, CommitBufferedConflict, SettleSync, Flush, EndFlush,
                CommitBuffered, canonVars
  <2> QED
    BY <1>0, <2>1, <2>2, <2>3, CallerExtends
<1>3. CASE ColdProbe(c)
  <2>1. PICK token : caller' = [caller EXCEPT ![c] = [caller[c] EXCEPT !.at = "coldread",
                                                                       !.token = token]]
    BY <1>3 DEF ColdProbe, Goto
  <2>2. [caller[c] EXCEPT !.at = "coldread", !.token = token].base = caller[c].base
    BY DEF IInv, TypeOK, CallerState
  <2> QED
    BY <1>0, <1>3, <2>1, <2>2, CallerExtends DEF ColdProbe, canonVars
<1>4. CASE ColdRead(c)
  <2>1. [caller[c] EXCEPT !.at = "coldinstall", !.base = store].base = store
    BY DEF IInv, TypeOK, CallerState
  <2>2. store \in Coming
    BY DEF IInv, PastSound, Coming
  <2> QED
    BY <1>0, <1>4, <2>1, <2>2, CallerExtends DEF ColdRead, Goto, canonVars
<1>5. CASE ColdInstall(c)
  <2>1. [Idle EXCEPT !.base = caller[c].base].base = caller[c].base
    BY DEF Idle
  <2> QED
    BY <1>0, <1>5, <2>1, CallerExtends DEF ColdInstall, Goto, canonVars
<1>6. CASE TakeFailed(c)
  BY <1>0, <1>6, LateFrame, ReadsFrame DEF TakeFailed, Extending
<1>7. ASSUME NEW update \in Writes, CommitSync(c, update)
      PROVE  Extending'
  <2>1. PICK w \in Write : w = Submitted(c, update)
    BY <1>7, SubmittedTyped DEF CommitSync
  <2>2. Extends(w, past')
    <3>1. caller[c].base \in past
      BY <1>7 DEF IInv, CallerSound, CommitSync, MayCommit
    <3>2. caller[c].base.version = w.expected /\ caller[c].base.content \subseteq w.content
      BY <1>7, <2>1, SubmittedTyped DEF CommitSync
    <3> QED
      BY <1>0, <3>1, <3>2 DEF Extends
  <2>3. late' \in {late, None, w}
    BY <1>7, <2>1 DEF CommitSync, Land, LeaveBehind
  <2>4. PICK heard \in BOOLEAN :
            caller' = [caller EXCEPT ![c] = [Idle EXCEPT !.at = "answered", !.write = w,
                                                         !.ok = heard]]
            \/ caller' = [caller EXCEPT ![c] = [Idle EXCEPT !.at = "answered", !.write = w]]
    BY <1>7, <2>1 DEF CommitSync, Goto
  <2>5. /\ [Idle EXCEPT !.at = "answered", !.write = w, !.ok = heard].base = None
        /\ [Idle EXCEPT !.at = "answered", !.write = w].base = None
    BY DEF Idle
  <2> QED
    BY <1>0, <2>2, <2>3, <2>4, <2>5, CallerExtends
<1> QED
  BY <1>1, <1>2, <1>3, <1>4, <1>5, <1>6, <1>7 DEF Caller

\* The store moves on, or the worker looks at it.
LEMMA AloneKeepsExtending ==
    ASSUME IInv, Extending, UNCHANGED <<queue, caller>>, worker'.write = worker.write,
           past \subseteq past', late' \in {late, None} \/ Extends(late', past')
    PROVE  Extending'
<1>1. CommitsExtend' /\ Coming \subseteq Coming'
  BY CommitsFrame DEF Extending
<1> QED
  BY <1>1, LateFrame, ReadsFrame DEF Extending

LEMMA RefreshKeepsExtending ==
    ASSUME IInv, Extending, Probe \/ RefreshFails \/ Compare \/ Read \/ Install
    PROVE  Extending'
<1>1. /\ UNCHANGED <<queue, caller, past, late>>
      /\ worker.at \in {"probe", "compare", "read", "install"}
  BY DEF Probe, RefreshFails, Compare, Read, Install, WorkerAt, canonVars
<1>2. worker.write = None /\ worker \in WorkerState
  BY <1>1 DEF IInv, TypeOK, WorkerSound
<1>3. worker'.write = None
  <2>1. Waiting.write = None /\ \A token : [Waiting EXCEPT !.at = "compare", !.token = token].write = None
    BY DEF Waiting
  <2>2. /\ [worker EXCEPT !.at = "read"].write = None
        /\ [worker EXCEPT !.at = "install", !.read = store].write = None
    BY <1>2 DEF WorkerState
  <2> QED
    BY <2>1, <2>2 DEF Probe, RefreshFails, Compare, Read, Install, WorkerDoes
<1> QED
  BY <1>1, <1>2, <1>3, AloneKeepsExtending

LEMMA DrainKeepsExtending ==
    ASSUME IInv, Extending, DrainLands \/ DrainFails
    PROVE  Extending'
<1>1. worker.at = "commit" /\ worker.write # None /\ UNCHANGED <<queue, caller>>
  BY DEF DrainLands, DrainFails, WorkerAt, IInv, WorkerSound
<1>2. Answered("ok") \/ Answered("conflict") \/ Answered("error") \/ Unavailable
  BY DEF DrainLands, DrainFails
<1>3. worker'.write = worker.write
  BY <1>1, <1>2, UnavailableTyped DEF IInv
<1>4. past \subseteq past' /\ late' \in {late, None, worker.write}
  BY DEF DrainLands, DrainFails, Land, LeaveBehind
<1>5. Extends(worker.write, past')
  BY <1>1, <1>4, ExtendsMore DEF Extending, CommitsExtend
<1> QED
  BY <1>1, <1>3, <1>4, <1>5, AloneKeepsExtending

\* A write that was settled and not rejected is stored.
LEMMA SettleKeepsExtending ==
    ASSUME IInv, Extending, Settle, Unrejected, UNCHANGED failed
    PROVE  Extending'
<1>1. /\ UNCHANGED <<queue, caller, past, late>> /\ worker'.write = None
      /\ worker.at = "settle" /\ worker.write \in Write
  BY DEF Settle, WorkerAt, WorkerDoes, Waiting, canonVars, IInv, TypeOK, WorkerSound, WorkerState
<1>2. worker.result = "ok"
  <2>1. failed \in Seq(Write)
    BY DEF IInv, TypeOK
  <2>2. Len(Append(failed, worker.write)) = Len(failed) + 1 /\ Len(failed) \in Nat
    BY <1>1, <2>1, AppendProperties, LenProperties
  <2>3. Append(failed, worker.write) # failed
    BY <2>2
  <2> QED
    BY <2>3 DEF Settle, KeptForClient
<1>3. Outcome(worker.write) \in past
  BY <1>1, <1>2 DEF IInv, WorkerSound
<1>4. InFlight \subseteq past
  BY <1>3 DEF InFlight
<1>5. CommitsExtend'
  <2>1. \A i \in CommitsIn(queue) : Ahead(i) \subseteq Ahead(i)'
    BY <1>1, <1>4 DEF Ahead, Queued, CommitsIn
  <2>2. \A i \in CommitsIn(queue') : Extends(queue'[i].write, Ahead(i)')
    BY <1>1, <2>1, ExtendsMore DEF Extending, CommitsExtend
  <2> QED
    BY <1>1, <2>2 DEF CommitsExtend
<1>6. Coming \subseteq Coming'
  <2>1. Unsettled' = WritesIn(queue') \cup ({worker'.write} \ {None})
    BY DEF Unsettled, WritesIn, CommitsIn, Tasks
  <2>2. Unsettled \subseteq Unsettled' \cup {worker.write}
    BY <1>1, <2>1, UnsettledIs
  <2> QED
    BY <1>1, <1>3, <2>2 DEF Coming
<1> QED
  BY <1>1, <1>5, <1>6, LateFrame, ReadsFrame DEF Extending

\* The head of the queue, when it is a commit, carries on from what the store has held.
LEMMA TakeKeepsExtending ==
    ASSUME IInv, IInv', Extending, Take
    PROVE  Extending'
<1>1. PICK t \in Task : t = Head(queue) /\ queue # <<>>
  BY TailTask DEF Take, IInv, TypeOK
<1>2. /\ queue' = Tail(queue) /\ UNCHANGED <<past, late>> /\ worker.write = None
      /\ worker'.write = IF t.do = "commit" THEN t.write ELSE None
  <2>1. worker.write = None
    BY DEF Take, WorkerAt, IInv, WorkerSound
  <2>2. /\ \A w : [Waiting EXCEPT !.at = "commit", !.write = w].write = w
        /\ [Waiting EXCEPT !.at = "probe"].write = None
        /\ [Waiting EXCEPT !.at = "stopped"].write = None
    BY DEF Waiting
  <2> QED
    BY <1>1, <2>1, <2>2 DEF Take, WorkerDoes, canonVars
<1>3. \A c \in Callers : caller'[c].base = caller[c].base
  <2> SUFFICES ASSUME NEW d, caller' = [caller EXCEPT ![d].at = "flushed"], NEW c \in Callers
               PROVE  caller'[c].base = caller[c].base
    BY DEF Take
  <2> QED
    BY DEF IInv, TypeOK, CallerState
<1>4. /\ DOMAIN queue = 1..Len(queue) /\ Len(queue) \in Nat \ {0} /\ t = queue[1]
      /\ DOMAIN queue' = 1..(Len(queue) - 1)
      /\ \A i \in 1..(Len(queue) - 1) : queue'[i] = queue[i + 1]
  BY <1>1, <1>2, TailTask DEF IInv, TypeOK
<1>5. /\ \A i \in CommitsIn(queue') : i + 1 \in CommitsIn(queue) /\ queue'[i] = queue[i + 1]
      /\ \A j \in CommitsIn(queue) : j = 1 \/ (j - 1 \in CommitsIn(queue') /\ queue'[j - 1] = queue[j])
      /\ \A j \in CommitsIn(queue) : j \in Nat
  BY <1>4 DEF CommitsIn
<1>6. ASSUME NEW i \in CommitsIn(queue') PROVE Ahead(i + 1) \subseteq Ahead(i)'
  <2>1. i \in Nat
    BY <1>4 DEF CommitsIn
  <2>2. ASSUME NEW j \in CommitsIn(queue), j < i + 1
        PROVE  Outcome(queue[j].write) \in Queued(i)' \cup InFlight'
    <3>1. CASE j = 1
      <4>1. t.do = "commit" /\ queue[j].write = t.write /\ t.write \in Write
        BY <1>4, <2>2, <3>1 DEF CommitsIn, Task
      <4>2. worker'.write = t.write /\ t.write # None
        BY <1>2, <4>1, NoneAssumption
      <4> QED
        BY <4>1, <4>2 DEF InFlight
    <3>2. CASE j # 1
      <4>1. j - 1 \in CommitsIn(queue') /\ j - 1 < i /\ queue'[j - 1] = queue[j]
        BY <1>5, <2>1, <2>2, <3>2
      <4> QED
        BY <4>1 DEF Queued
    <3> QED
      BY <3>1, <3>2
  <2>3. Queued(i + 1) \subseteq Queued(i)' \cup InFlight'
    BY <2>2 DEF Queued
  <2> QED
    BY <1>2, <2>3 DEF Ahead, InFlight
<1>7. CommitsExtend'
  <2>1. ASSUME t.do = "commit" PROVE Extends(t.write, past)
    <3>1. 1 \in CommitsIn(queue) /\ queue[1] = t
      BY <1>4, <2>1 DEF CommitsIn
    <3>2. Ahead(1) = past
      <4>1. \A j \in CommitsIn(queue) : ~(j < 1)
        BY <1>4 DEF CommitsIn
      <4> QED
        BY <1>2, <4>1 DEF Ahead, Queued, InFlight
    <3> QED
      BY <3>1, <3>2 DEF Extending, CommitsExtend
  <2>2. \A i \in CommitsIn(queue') : Extends(queue'[i].write, Ahead(i)')
    <3> SUFFICES ASSUME NEW i \in CommitsIn(queue') PROVE Extends(queue'[i].write, Ahead(i)')
      OBVIOUS
    <3>1. Extends(queue[i + 1].write, Ahead(i + 1)) /\ queue'[i] = queue[i + 1]
      BY <1>5 DEF Extending, CommitsExtend
    <3> QED
      BY <1>6, <3>1, ExtendsMore
  <2> QED
    BY <1>2, <2>1, <2>2 DEF CommitsExtend
<1>8. Coming \subseteq Coming'
  <2>1. IF t.do = "commit" THEN WritesIn(queue) = WritesIn(queue') \cup {t.write}
                           ELSE WritesIn(queue) = WritesIn(queue')
    BY <1>1, <1>2, TailCommits DEF IInv, TypeOK
  <2>2. t.do = "commit" => t.write # None
    BY NoneAssumption DEF Task
  <2>3. Unsettled' = WritesIn(queue') \cup ({worker'.write} \ {None})
    BY DEF Unsettled, WritesIn, CommitsIn, Tasks
  <2>4. Unsettled \subseteq Unsettled'
    BY <1>2, <2>1, <2>2, <2>3, UnsettledIs
  <2> QED
    BY <1>2, <2>4 DEF Coming
<1> QED
  BY <1>2, <1>3, <1>7, <1>8, LateFrame, ReadsFrame DEF Extending

LEMMA LossInvKept == IInv /\ IInv' /\ LossInv /\ [Next]_vars => LossInv'
<1> SUFFICES ASSUME IInv, IInv', LossInv, [Next]_vars, Unrejected' PROVE Extending'
  BY DEF LossInv
<1>1. Unrejected /\ Extending /\ UNCHANGED <<failed, taken>>
  BY RejectionStays DEF LossInv
<1>2. CASE Take
  BY <1>1, <1>2, TakeKeepsExtending
<1>3. CASE DrainLands \/ DrainFails
  BY <1>1, <1>3, DrainKeepsExtending
<1>4. CASE Settle
  BY <1>1, <1>4, SettleKeepsExtending
<1>5. CASE Probe \/ RefreshFails \/ Compare \/ Read \/ Install
  BY <1>1, <1>5, RefreshKeepsExtending
<1>6. CASE \E c \in Callers : Caller(c)
  BY <1>1, <1>6, CallerKeepsExtending
<1>7. CASE LandLate \/ \E update \in ExtWrites : ExtCommit(update)
  BY <1>1, <1>7, AloneKeepsExtending DEF LandLate, ExtCommit, Land
<1>8. CASE Drop
  <2>1. PICK e \in Task : e = [do |-> "shutdown"]
    BY DEF Task
  <2>2. queue' = Append(queue, e) /\ UNCHANGED <<worker, caller, past, late>> /\ e.do # "commit"
    BY <1>8, <2>1 DEF Drop, canonVars
  <2>3. CommitsExtend' /\ Coming \subseteq Coming'
    BY <1>1, <2>2, SendExtends DEF Extending, IInv
  <2> QED
    BY <1>1, <2>2, <2>3, LateFrame, ReadsFrame DEF Extending
<1>9. CASE UNCHANGED vars
  BY <1>1, <1>9, AloneKeepsExtending DEF vars
<1> QED
  BY <1>2, <1>3, <1>4, <1>5, <1>6, <1>7, <1>8, <1>9 DEF Next, Worker

\* A write that carries on from a snapshot the store has held, and is taken on, carries on
\* from the present one.
LEMMA ExpectedExtends ==
    ASSUME PastSound, NEW w, Extends(w, past), Land(w)
    PROVE  store.content \subseteq store'.content
BY DEF Extends, PastSound, Land, Expected, Outcome

LEMMA UnrejectedKeepsUpdates ==
    ASSUME IInv, LossInv, [Next]_vars, Unrejected
    PROVE  store.content \subseteq store'.content
<1>1. CommitsExtend /\ LateExtends /\ PastSound
  BY DEF LossInv, Extending, IInv
<1>2. CASE mode = "Sync"
  BY <1>2, StepKeepsUpdates
<1>3. CASE DrainLands
  <2>1. worker.write # None
    BY <1>3 DEF DrainLands, WorkerAt, IInv, WorkerSound
  <2> QED
    BY <1>1, <1>3, <2>1, ExpectedExtends DEF DrainLands, CommitsExtend
<1>4. CASE LandLate
  BY <1>1, <1>4, ExpectedExtends DEF LandLate, LateExtends
<1>5. CASE \E update \in ExtWrites : ExtCommit(update)
  BY <1>5 DEF ExtCommit
<1>6. CASE \E c \in Callers, update \in Writes : CommitSync(c, update)
  BY <1>2, <1>6 DEF CommitSync
<1>7. CASE UNCHANGED store
  BY <1>7
<1> QED
  BY <1>3, <1>4, <1>5, <1>6, <1>7, StoreSteps

\* An update is lost only once a write has been rejected: an engine that has no failed
\* write, and never handed one out, has overwritten nobody's update.
THEOREM LossFollowsRejection == Spec => UpdatesKeptUntilRejection
<1>1. Spec => [](IInv /\ LossInv)
  <2>1. Init => IInv /\ LossInv
    BY InitSound, InitExtends
  <2>2. (IInv /\ LossInv) /\ [Next]_vars => (IInv /\ LossInv)'
    BY NextKeepsSound, LossInvKept
  <2> QED
    BY <2>1, <2>2, PTL DEF Spec
<1>2. IInv /\ LossInv /\ [Next]_vars
          => [failed = <<>> /\ taken = {} => store.content \subseteq store'.content]_vars
  BY UnrejectedKeepsUpdates DEF Unrejected
<1> QED
  BY <1>1, <1>2, PTL DEF Spec, UpdatesKeptUntilRejection

=============================================================================
