--------------------------- MODULE ProviderProofs ---------------------------
(***************************************************************************)
(* The invariants of Provider, and that it implements VersionedStore, for  *)
(* any threads, instances, contents and passphrases.                       *)
(***************************************************************************)
EXTENDS Provider, TLAPS

----------------------------------------------------------------------------
(* Frames: what a step of one thread leaves alone. *)

\* Assigning a thread's state.
LEMMA GotoProperties ==
    ASSUME op \in [Threads -> Op], NEW t \in Threads, NEW s \in Op, Goto(t, s)
    PROVE  /\ op' \in [Threads -> Op]
           /\ op'[t] = s
           /\ \A u \in Threads \ {t} : op'[u] = op[u]
  BY DEF Goto

\* The instance of a thread, and its passphrase.
LEMMA InstanceTyped ==
    ASSUME NEW t \in Threads
    PROVE  InstanceOf[t] \in Instances
  BY InstanceAssumption

LEMMA IdleTyped == Idle \in Op /\ Idle.at = "idle" /\ Idle.etag = 0 /\ ~Idle.landed
  BY ContentAssumption DEF Idle, Op

\* A head may be forgotten, or set to a pair that is right as long as the ETag is current.
HeadMoves(t) ==
    \/ head' = head
    \/ InvalidateHead(t)
    \/ \E v, e \in Nat : /\ SetHead(t, v, e)
                         /\ e <= blob.etag
                         /\ e = blob.etag => /\ blob.revision = v
                                             /\ ~Absent => blob.key = Passphrase(t)

LEMMA HeadKept ==
    ASSUME IInv, NEW t \in Threads, HeadMoves(t), UNCHANGED <<blob, passphrase>>
    PROVE  /\ head' \in [Instances -> Head]
           /\ \A i \in Instances :
                  /\ head'[i].etag <= blob.etag
                  /\ head'[i].known /\ head'[i].etag = blob.etag =>
                         blob.revision = head'[i].version
           /\ HeadReadable'
  <1> DEFINE j == InstanceOf[t]
  <1>0. j \in Instances
    BY InstanceTyped
  <1>1. /\ head \in [Instances -> Head] /\ blob \in Blob
        /\ \A i \in Instances :
               /\ head[i].etag <= blob.etag
               /\ head[i].known /\ head[i].etag = blob.etag =>
                      /\ blob.revision = head[i].version
                      /\ ~Absent => blob.key = passphrase[i]
    BY DEF IInv, TypeOK, HeadNeverMislabels, HeadReadable
  <1>2. CASE head' = head
    BY <1>1, <1>2 DEF HeadReadable, Absent
  <1>3. CASE InvalidateHead(t)
    <2>1. /\ head' \in [Instances -> Head]
          /\ ~head'[j].known /\ head'[j].etag = 0
          /\ \A i \in Instances \ {j} : head'[i] = head[i]
      BY <1>0, <1>1, <1>3 DEF InvalidateHead, NoHead, Head
    <2>2. blob.etag >= 0
      BY <1>1 DEF Blob
    <2> QED
      BY <1>1, <2>1, <2>2 DEF HeadReadable, Absent
  <1>4. CASE \E v, e \in Nat :
                 /\ SetHead(t, v, e)
                 /\ e <= blob.etag
                 /\ e = blob.etag => /\ blob.revision = v
                                     /\ ~Absent => blob.key = Passphrase(t)
    <2>1. PICK v, e \in Nat :
              /\ SetHead(t, v, e)
              /\ e <= blob.etag
              /\ e = blob.etag => blob.revision = v /\ (~Absent => blob.key = Passphrase(t))
      BY <1>4
    <2>2. /\ head' \in [Instances -> Head]
          /\ head'[j].version = v /\ head'[j].etag = e
          /\ \A i \in Instances \ {j} : head'[i] = head[i]
      BY <1>0, <1>1, <2>1 DEF SetHead, Head
    <2> QED
      BY <1>1, <2>1, <2>2 DEF HeadReadable, Absent, Passphrase
  <1> QED
    BY <1>2, <1>3, <1>4 DEF HeadMoves

\* A step of a thread that writes nothing: it must leave its own call sound.
LEMMA QuietStep ==
    ASSUME IInv, NEW t \in Threads, NEW s \in Op, Goto(t, s),
           UNCHANGED <<blob, passphrase>>, reply' \in Replies, HeadMoves(t),
           s.etag <= blob.etag, CallSound(t)',
           \/ delayed' = delayed
           \/ /\ delayed' \in Blob /\ Committed(delayed') /\ delayed'.etag = blob.etag + 1
              /\ DelayedSound'
    PROVE  IInv'
  <1>1. /\ op' \in [Threads -> Op] /\ op'[t] = s
        /\ \A u \in Threads \ {t} : op'[u] = op[u]
    BY GotoProperties DEF IInv, TypeOK
  <1>2. TypeOK'
    BY <1>1, HeadKept DEF IInv, TypeOK, Absent
  <1>3. \A u \in Threads : CallSound(u)'
    BY <1>1 DEF IInv, CallSound, At, Absent, Passphrase
  <1>4. HeadNeverMislabels'
    BY <1>1, <1>3, HeadKept DEF IInv, HeadNeverMislabels, CallSound, At
  <1>5. DelayedSound'
    BY DEF IInv, DelayedSound, Absent
  <1> QED
    BY <1>2, <1>3, <1>4, <1>5, HeadKept DEF IInv

\* A write: the blob has a new ETag, so that only the writer's call still matters.
LEMMA WriteStep ==
    ASSUME IInv, blob' \in Blob, Committed(blob'), blob'.etag = blob.etag + 1, delayed' = None,
           UNCHANGED <<passphrase, head, reply>>,
           op' \in [Threads -> Op],
           \A u \in Threads : \/ op'[u] = op[u]
                              \/ /\ op'[u].etag <= blob'.etag
                                 /\ CallSound(u)'
    PROVE  IInv'
  <1>0. blob \in Blob /\ blob.etag \in Nat
    BY DEF IInv, TypeOK, Blob
  <1>1. TypeOK'
    BY DEF IInv, TypeOK
  <1>2. /\ \A i \in Instances : head[i].etag < blob'.etag
        /\ \A u \in Threads : op[u].etag < blob'.etag
    BY <1>0 DEF IInv, TypeOK, HeadNeverMislabels, Head, Op
  <1>3. \A u \in Threads : CallSound(u)'
    BY <1>0, <1>2 DEF IInv, CallSound, At
  <1>4. HeadNeverMislabels'
    <2>1. \A i \in Instances : head'[i].etag < blob'.etag
      BY <1>2
    <2>2. \A u \in Threads : op'[u].etag <= blob'.etag
      BY <1>0, <1>2 DEF TypeOK, IInv, Op, Blob
    <2>3. \A u \in Threads : At(u, "put")' /\ op'[u].etag = blob'.etag =>
                                 blob'.revision = op'[u].expected
      BY <1>3 DEF CallSound, At
    <2> QED
      BY <1>0, <2>1, <2>2, <2>3 DEF HeadNeverMislabels, IInv, TypeOK, Head
  <1>5. HeadReadable'
    BY <1>0, <1>2 DEF HeadReadable, IInv, TypeOK, Head
  <1>6. DelayedSound'
    BY DEF DelayedSound
  <1> QED
    BY <1>1, <1>3, <1>4, <1>5, <1>6 DEF IInv

----------------------------------------------------------------------------
(* The steps of a thread. *)

\* What the invariant says of one thread.
LEMMA CallFacts ==
    ASSUME IInv, NEW t \in Threads
    PROVE  /\ blob \in Blob /\ blob.etag \in Nat /\ blob.revision \in Nat
           /\ op[t] \in Op /\ op[t].etag <= blob.etag /\ CallSound(t)
           /\ reply \in Replies
           /\ head \in [Instances -> Head] /\ InstanceOf[t] \in Instances
           /\ Passphrase(t) \in Keys
  BY InstanceTyped
  DEF IInv, TypeOK, HeadNeverMislabels, Blob, Passphrase

\* A thread that becomes idle is sound.
LEMMA IdleSound ==
    ASSUME IInv, NEW t \in Threads, Goto(t, Idle)
    PROVE  CallSound(t)'
  <1>1. op'[t] = Idle
    BY GotoProperties DEF IInv, TypeOK, Goto
  <1> QED
    BY <1>1 DEF CallSound, At, Idle, RekeyAt

\* read
LEMMA ReadKeepsIInv ==
    ASSUME IInv, NEW t \in Threads, ReadNext(t)
    PROVE  IInv'
  <1>0. op \in [Threads -> Op] /\ 0 <= blob.etag
    BY CallFacts DEF IInv, TypeOK
  <1>1. CASE Get(t)
    <2> DEFINE s == [Idle EXCEPT !.at = "fetched", !.version = blob.revision,
                                !.etag = blob.etag]
    <2>1. s \in Op /\ s.at = "fetched" /\ s.etag = blob.etag /\ s.version = blob.revision
            /\ ~s.landed
      BY CallFacts, ContentAssumption DEF Idle, Op, ReadAt
    <2>2. Goto(t, s) /\ UNCHANGED <<blob, passphrase, head, reply, delayed>> /\ Opens(t)
      BY <1>1 DEF Get
    <2> HIDE DEF s
    <2>3. CallSound(t)'
      BY <1>0, <2>1, <2>2, GotoProperties
      DEF CallSound, At, Absent, Opens, Passphrase, RekeyAt
    <2> QED
      BY <2>1, <2>2, <2>3, CallFacts, QuietStep DEF HeadMoves
  <1>2. CASE EndRead(t)
    <2>1. /\ At(t, "fetched") /\ SetHead(t, op[t].version, op[t].etag) /\ Goto(t, Idle)
          /\ UNCHANGED <<blob, passphrase, reply, delayed>>
      BY <1>2 DEF EndRead
    <2>2. HeadMoves(t)
      BY <2>1, CallFacts DEF HeadMoves, CallSound, At, Op
    <2> QED
      BY <1>0, <2>1, <2>2, CallFacts, IdleTyped, IdleSound, QuietStep
  <1> QED
    BY <1>1, <1>2 DEF ReadNext

\* commit, up to the PUT.
LEMMA CommitStartKeepsIInv ==
    ASSUME IInv, NEW t \in Threads,
           \/ \E expected \in 0..MaxVersion, content \in Contents :
                  BeginCommit(t, expected, content)
           \/ GetBase(t)
           \/ GetBaseFails(t)
    PROVE  IInv'
  <1>0. op \in [Threads -> Op] /\ 0 <= blob.etag
    BY CallFacts DEF IInv, TypeOK
  <1>1. ASSUME NEW expected \in 0..MaxVersion, NEW content \in Contents,
               BeginCommit(t, expected, content)
        PROVE  IInv'
    <2> DEFINE call == [Idle EXCEPT !.expected = expected, !.content = content]
               h == head[InstanceOf[t]]
               s == IF HeadFor(t, expected)
                    THEN [call EXCEPT !.at = "put", !.etag = h.etag]
                    ELSE [call EXCEPT !.at = "get"]
    <2>1. Goto(t, s) /\ UNCHANGED <<blob, passphrase, head, reply, delayed>>
      BY <1>1 DEF BeginCommit
    <2>2. expected \in Nat
      BY BoundAssumption
    <2>3. h \in Head /\ h.etag <= blob.etag
      BY CallFacts DEF IInv, HeadNeverMislabels
    <2>4. CASE HeadFor(t, expected)
      <3>1. /\ s \in Op /\ s.at = "put" /\ s.etag = h.etag /\ s.expected = expected
            /\ ~s.landed
        BY <2>2, <2>3, <2>4 DEF Idle, Op, CommitAt, Head
      <3> HIDE DEF s
      <3>2. h.etag = blob.etag =>
                blob.revision = expected /\ (~Absent => blob.key = Passphrase(t))
        BY <2>4, CallFacts DEF HeadFor, IInv, HeadNeverMislabels, HeadReadable, Passphrase
      <3>3. CallSound(t)'
        BY <1>0, <2>1, <3>1, <3>2, GotoProperties
        DEF CallSound, At, Absent, Passphrase, RekeyAt
      <3> QED
        BY <2>1, <2>3, <3>1, <3>3, CallFacts, QuietStep DEF HeadMoves
    <2>5. CASE ~HeadFor(t, expected)
      <3>1. s \in Op /\ s.at = "get" /\ s.etag = 0 /\ ~s.landed
        BY <2>2, <2>5, ContentAssumption DEF Idle, Op, CommitAt
      <3> HIDE DEF s
      <3>2. CallSound(t)'
        BY <1>0, <2>1, <3>1, GotoProperties DEF CallSound, At, RekeyAt
      <3> QED
        BY <1>0, <2>1, <3>1, <3>2, CallFacts, QuietStep DEF HeadMoves
    <2> QED
      BY <2>4, <2>5
  <1>2. CASE GetBase(t)
    <2> DEFINE s == [op[t] EXCEPT !.at = "put", !.etag = blob.etag]
    <2>1. /\ At(t, "get") /\ Opens(t) /\ blob.revision = op[t].expected /\ Goto(t, s)
          /\ UNCHANGED <<blob, passphrase, head, reply, delayed>>
      BY <1>2 DEF GetBase
    <2>2. /\ s \in Op /\ s.at = "put" /\ s.etag = blob.etag
          /\ s.expected = op[t].expected /\ s.landed = op[t].landed
      BY CallFacts DEF Op, CommitAt
    <2> HIDE DEF s
    <2>3. ~s.landed
      BY <2>1, <2>2, CallFacts DEF CallSound, At
    <2>4. CallSound(t)'
      BY <1>0, <2>1, <2>2, <2>3, GotoProperties
      DEF CallSound, At, Absent, Opens, Passphrase, RekeyAt
    <2> QED
      BY <2>1, <2>2, <2>4, CallFacts, QuietStep DEF HeadMoves
  <1>3. CASE GetBaseFails(t)
    <2>1. /\ Goto(t, Idle) /\ reply' \in Replies
          /\ UNCHANGED <<blob, passphrase, head, delayed>>
      BY <1>3 DEF GetBaseFails, CommitReturns, Replies
    <2> QED
      BY <1>0, <2>1, CallFacts, IdleTyped, IdleSound, QuietStep DEF HeadMoves
  <1> QED
    BY <1>1, <1>2, <1>3

\* A blob sealed by a commit has its type.
LEMMA SealedTyped ==
    ASSUME IInv, NEW t \in Threads
    PROVE  /\ Sealed(t) \in Blob /\ Sealed(t).etag = blob.etag + 1
           /\ Sealed(t).revision = op[t].expected + 1 /\ Sealed(t).content = op[t].content
           /\ Sealed(t).key = Passphrase(t)
           /\ Committed(Sealed(t))
  BY CallFacts DEF Sealed, Blob, Op, Committed

LEMMA ResealedTyped ==
    ASSUME IInv, NEW t \in Threads
    PROVE  /\ Resealed(t) \in Blob /\ Resealed(t).etag = blob.etag + 1
           /\ Resealed(t).revision = op[t].version /\ Resealed(t).content = op[t].content
           /\ Resealed(t).key = op[t].key
           /\ op[t].at \in RekeyAt => Committed(Resealed(t))
  BY CallFacts DEF Resealed, Blob, Op, Committed, CallSound

\* The PUT of a commit.
LEMMA PutKeepsIInv ==
    ASSUME IInv, NEW t \in Threads, PutLands(t) \/ PutRefused(t) \/ PutLost(t)
    PROVE  IInv'
  <1>0. op \in [Threads -> Op] /\ 0 <= blob.etag
    BY CallFacts DEF IInv, TypeOK
  <1>1. CASE PutLands(t)
    <2> DEFINE answered == [op[t] EXCEPT !.at = "landed", !.landed = TRUE,
                                         !.etag = blob.etag + 1]
               lost == [op[t] EXCEPT !.at = "lost", !.landed = TRUE, !.etag = 0]
    <2>1. /\ At(t, "put") /\ Holds(op[t].etag) /\ blob' = Sealed(t) /\ delayed' = None
          /\ Goto(t, answered) \/ Goto(t, lost)
          /\ UNCHANGED <<passphrase, head, reply>>
      BY <1>1 DEF PutLands
    <2>2. /\ answered \in Op /\ answered.at = "landed" /\ answered.landed
          /\ answered.etag = blob.etag + 1 /\ answered.expected = op[t].expected
          /\ lost \in Op /\ lost.at = "lost" /\ lost.landed /\ lost.etag = 0
      <3>1. op[t] \in Op /\ blob.etag + 1 \in Nat
        BY CallFacts
      <3>2. /\ answered \in Op /\ answered.at = "landed" /\ answered.landed
            /\ answered.etag = blob.etag + 1 /\ answered.expected = op[t].expected
        BY <3>1 DEF Op, CommitAt
      <3>3. lost \in Op /\ lost.at = "lost" /\ lost.landed /\ lost.etag = 0
        BY <3>1 DEF Op, CommitAt
      <3> QED
        BY <3>2, <3>3
    <2> HIDE DEF answered, lost
    <2>3. /\ op' \in [Threads -> Op] /\ op'[t] \in {answered, lost}
          /\ \A u \in Threads \ {t} : op'[u] = op[u]
      BY <1>0, <2>1, <2>2 DEF Goto
    <2>4. blob' \in Blob /\ Committed(blob') /\ blob'.etag = blob.etag + 1
            /\ blob'.revision = op[t].expected + 1 /\ blob'.key = Passphrase(t)
      BY <2>1, SealedTyped
    <2>5. CallSound(t)'
      BY <1>0, <2>1, <2>2, <2>3, <2>4, CallFacts DEF CallSound, At, RekeyAt, Passphrase
    <2>6. op'[t].at # "idle" /\ op'[t].etag <= blob'.etag
      BY <1>0, <2>2, <2>3, <2>4, CallFacts
    <2> QED
      BY <2>1, <2>3, <2>4, <2>5, <2>6, WriteStep
  <1>2. CASE PutRefused(t)
    <2> DEFINE s == [op[t] EXCEPT !.at = "refused", !.etag = 0]
    <2>1. At(t, "put") /\ Goto(t, s) /\ UNCHANGED <<blob, passphrase, head, reply, delayed>>
      BY <1>2 DEF PutRefused
    <2>2. s \in Op /\ s.at = "refused" /\ s.etag = 0 /\ s.landed = op[t].landed
      BY CallFacts DEF Op, CommitAt
    <2> HIDE DEF s
    <2>3. CallSound(t)'
      BY <1>0, <2>1, <2>2, CallFacts, GotoProperties DEF CallSound, At, RekeyAt
    <2> QED
      BY <1>0, <2>1, <2>2, <2>3, CallFacts, QuietStep DEF HeadMoves
  <1>3. CASE PutLost(t)
    <2> DEFINE s == [op[t] EXCEPT !.at = "lost"]
    <2>1. At(t, "put") /\ Goto(t, s) /\ UNCHANGED <<blob, passphrase, head, reply, delayed>>
      BY <1>3 DEF PutLost
    <2>2. /\ s \in Op /\ s.at = "lost" /\ s.etag = op[t].etag /\ s.landed = op[t].landed
          /\ s.expected = op[t].expected
      BY CallFacts DEF Op, CommitAt
    <2> HIDE DEF s
    <2>3. CallSound(t)'
      BY <1>0, <2>1, <2>2, CallFacts, GotoProperties
      DEF CallSound, At, RekeyAt, Absent, Passphrase
    <2> QED
      BY <1>0, <2>1, <2>2, <2>3, CallFacts, QuietStep DEF HeadMoves
  <1> QED
    BY <1>1, <1>2, <1>3

\* A PUT that its caller gives up on is sound as a delayed one.
LEMMA LeaveBehindSound ==
    ASSUME IInv, NEW t \in Threads, NEW put \in Blob, Committed(put), LeaveBehind(t, put),
           put.etag = blob.etag + 1, UNCHANGED blob,
           op[t].etag = blob.etag =>
               \/ put.revision = blob.revision + 1 /\ (~Absent => put.key = blob.key)
               \/ put.revision = blob.revision /\ put.content = blob.content
    PROVE  \/ delayed' = delayed
           \/ /\ delayed' \in Blob /\ Committed(delayed') /\ delayed'.etag = blob.etag + 1
              /\ DelayedSound'
  BY DEF LeaveBehind, Holds, DelayedSound, Absent, Committed

\* The end of a commit.
LEMMA CommitEndKeepsIInv ==
    ASSUME IInv, NEW t \in Threads,
           \/ EndCommit(t) \/ EndLost(t) \/ BeginReread(t)
           \/ Reread(t) \/ RereadFails(t) \/ EndReread(t)
    PROVE  IInv'
  <1>0. op \in [Threads -> Op] /\ 0 <= blob.etag
    BY CallFacts DEF IInv, TypeOK
  <1>1. CASE EndCommit(t)
    <2>1. /\ At(t, "landed") /\ SetHead(t, op[t].expected + 1, op[t].etag) /\ Goto(t, Idle)
          /\ reply' \in Replies /\ UNCHANGED <<blob, passphrase, delayed>>
      BY <1>1 DEF EndCommit, CommitReturns, Replies
    <2>2. HeadMoves(t)
      BY <2>1, CallFacts DEF HeadMoves, CallSound, At, Op
    <2> QED
      BY <1>0, <2>1, <2>2, CallFacts, IdleTyped, IdleSound, QuietStep
  <1>2. CASE EndLost(t)
    <2>1. /\ At(t, "lost") /\ InvalidateHead(t) /\ Goto(t, Idle) /\ reply' \in Replies
          /\ UNCHANGED <<blob, passphrase>>
          /\ IF op[t].landed THEN UNCHANGED delayed ELSE LeaveBehind(t, Sealed(t))
      BY <1>2 DEF EndLost, CommitReturns, Replies
    <2>2. \/ delayed' = delayed
          \/ /\ delayed' \in Blob /\ Committed(delayed') /\ delayed'.etag = blob.etag + 1
              /\ DelayedSound'
      <3>1. CASE op[t].landed
        BY <2>1, <3>1
      <3>2. CASE ~op[t].landed
        <4>1. op[t].etag = blob.etag =>
                  Sealed(t).revision = blob.revision + 1
                  /\ (~Absent => Sealed(t).key = blob.key)
          BY <2>1, <3>2, CallFacts, SealedTyped DEF CallSound, At
        <4> QED
          BY <2>1, <3>2, <4>1, SealedTyped, LeaveBehindSound
      <3> QED
        BY <3>1, <3>2
    <2> QED
      BY <1>0, <2>1, <2>2, CallFacts, IdleTyped, IdleSound, QuietStep DEF HeadMoves
  <1>3. CASE BeginReread(t)
    <2> DEFINE s == [op[t] EXCEPT !.at = "reread"]
    <2>1. /\ At(t, "refused") /\ Goto(t, s) /\ InvalidateHead(t)
          /\ UNCHANGED <<blob, passphrase, reply, delayed>>
      BY <1>3 DEF BeginReread
    <2>2. s \in Op /\ s.at = "reread" /\ s.landed = op[t].landed /\ s.etag = op[t].etag
      BY CallFacts DEF Op, CommitAt
    <2> HIDE DEF s
    <2>3. CallSound(t)'
      BY <1>0, <2>1, <2>2, CallFacts, GotoProperties DEF CallSound, At, RekeyAt
    <2> QED
      BY <2>1, <2>2, <2>3, CallFacts, QuietStep DEF HeadMoves
  <1>4. CASE Reread(t)
    <2> DEFINE s == [op[t] EXCEPT !.at = "rehead", !.version = blob.revision,
                                  !.etag = blob.etag]
    <2>1. /\ At(t, "reread") /\ Opens(t) /\ Goto(t, s)
          /\ UNCHANGED <<blob, passphrase, head, reply, delayed>>
      BY <1>4 DEF Reread
    <2>2. /\ s \in Op /\ s.at = "rehead" /\ s.landed = op[t].landed /\ s.etag = blob.etag
          /\ s.version = blob.revision
      BY CallFacts DEF Op, CommitAt
    <2> HIDE DEF s
    <2>3. CallSound(t)'
      BY <1>0, <2>1, <2>2, CallFacts, GotoProperties
      DEF CallSound, At, RekeyAt, Absent, Opens, Passphrase
    <2> QED
      BY <2>1, <2>2, <2>3, CallFacts, QuietStep DEF HeadMoves
  <1>5. CASE RereadFails(t)
    <2>1. Goto(t, Idle) /\ reply' \in Replies /\ UNCHANGED <<blob, passphrase, head, delayed>>
      BY <1>5 DEF RereadFails, CommitReturns, Replies
    <2> QED
      BY <1>0, <2>1, CallFacts, IdleTyped, IdleSound, QuietStep DEF HeadMoves
  <1>6. CASE EndReread(t)
    <2>1. /\ At(t, "rehead") /\ SetHead(t, op[t].version, op[t].etag) /\ Goto(t, Idle)
          /\ reply' \in Replies /\ UNCHANGED <<blob, passphrase, delayed>>
      BY <1>6 DEF EndReread, CommitReturns, Replies
    <2>2. HeadMoves(t)
      BY <2>1, CallFacts DEF HeadMoves, CallSound, At, Op
    <2> QED
      BY <1>0, <2>1, <2>2, CallFacts, IdleTyped, IdleSound, QuietStep
  <1> QED
    BY <1>1, <1>2, <1>3, <1>4, <1>5, <1>6

\* rekey
LEMMA RekeyKeepsIInv ==
    ASSUME IInv, NEW t \in Threads, RekeyNext(t)
    PROVE  IInv'
  <1>0. op \in [Threads -> Op] /\ 0 <= blob.etag
    BY CallFacts DEF IInv, TypeOK
  <1>1. ASSUME NEW key \in Keys, RekeyGet(t, key)
        PROVE  IInv'
    <2> DEFINE s == [Idle EXCEPT !.at = "resealed", !.key = key, !.version = blob.revision,
                                !.etag = blob.etag, !.content = blob.content]
    <2>1. Goto(t, s) /\ UNCHANGED <<blob, passphrase, head, reply, delayed>>
      BY <1>1 DEF RekeyGet
    <2>2. blob \in Blob /\ blob.revision > 0
      BY <1>1, CallFacts DEF RekeyGet, IInv, TypeOK, Committed
    <2>3. /\ s \in Op /\ s.at = "resealed" /\ s.etag = blob.etag /\ ~s.landed
          /\ s.version = blob.revision /\ s.content = blob.content /\ s.key \in Keys
      BY <2>2 DEF Idle, Op, RekeyAt, Blob
    <2> HIDE DEF s
    <2>4. CallSound(t)'
      BY <1>0, <2>1, <2>2, <2>3, GotoProperties DEF CallSound, At, RekeyAt
    <2> QED
      BY <2>1, <2>3, <2>4, CallFacts, QuietStep DEF HeadMoves
  <1>2. CASE RekeyInvalidate(t)
    <2> DEFINE s == [op[t] EXCEPT !.at = "rekeyput"]
    <2>1. /\ At(t, "resealed") /\ Goto(t, s) /\ InvalidateHead(t)
          /\ UNCHANGED <<blob, passphrase, reply, delayed>>
      BY <1>2 DEF RekeyInvalidate
    <2>2. /\ s \in Op /\ s.at = "rekeyput" /\ s.etag = op[t].etag /\ s.landed = op[t].landed
          /\ s.version = op[t].version /\ s.content = op[t].content /\ s.key = op[t].key
      BY CallFacts DEF Op, RekeyAt
    <2> HIDE DEF s
    <2>3. CallSound(t)'
      BY <1>0, <2>1, <2>2, CallFacts, GotoProperties DEF CallSound, At, RekeyAt
    <2> QED
      BY <2>1, <2>2, <2>3, CallFacts, QuietStep DEF HeadMoves
  <1>3. CASE RekeyPut(t)
    <2>1. /\ blob' = Resealed(t) /\ delayed' = None /\ Goto(t, Idle)
          /\ UNCHANGED <<passphrase, head, reply>>
      BY <1>3 DEF RekeyPut
    <2>2. /\ op' \in [Threads -> Op] /\ op'[t] = Idle
          /\ \A u \in Threads \ {t} : op'[u] = op[u]
      BY <1>0, <2>1, IdleTyped, GotoProperties
    <2>3. blob' \in Blob /\ Committed(blob') /\ blob'.etag = blob.etag + 1 /\ 0 <= blob'.etag
      BY <1>0, <1>3, <2>1, ResealedTyped, CallFacts DEF RekeyPut, At, RekeyAt
    <2> QED
      BY <2>1, <2>2, <2>3, IdleTyped, IdleSound, WriteStep
  <1>4. CASE RekeyPutFails(t)
    <2>1. /\ At(t, "rekeyput") /\ Goto(t, Idle) /\ LeaveBehind(t, Resealed(t))
          /\ UNCHANGED <<blob, passphrase, head, reply>>
      BY <1>4 DEF RekeyPutFails
    <2>2. op[t].etag = blob.etag =>
              Resealed(t).revision = blob.revision /\ Resealed(t).content = blob.content
      BY <2>1, CallFacts, ResealedTyped DEF CallSound, At, RekeyAt
    <2>3. \/ delayed' = delayed
          \/ /\ delayed' \in Blob /\ Committed(delayed') /\ delayed'.etag = blob.etag + 1
              /\ DelayedSound'
      BY <2>1, <2>2, ResealedTyped, LeaveBehindSound DEF At, RekeyAt
    <2> QED
      BY <1>0, <2>1, <2>3, CallFacts, IdleTyped, IdleSound, QuietStep DEF HeadMoves
  <1> QED
    BY <1>1, <1>2, <1>3, <1>4 DEF RekeyNext

\* A late PUT is a write by nobody.
LEMMA LatePutKeepsIInv ==
    ASSUME IInv, LatePut
    PROVE  IInv'
  <1>1. /\ blob' = delayed /\ delayed # None /\ delayed' = None
        /\ UNCHANGED <<passphrase, head, op, reply>>
    BY DEF LatePut
  <1>2. delayed \in Blob /\ delayed.etag = blob.etag + 1
    BY <1>1 DEF IInv, TypeOK, HeadNeverMislabels
  <1> QED
    BY <1>1, <1>2, WriteStep DEF IInv, TypeOK

\* A reopened store has no head and no call.
LEMMA ReopenKeepsIInv ==
    ASSUME IInv, NEW i \in Instances, NEW key \in Keys, Reopen(i, key)
    PROVE  IInv'
  <1>1. /\ \A t \in Threads : InstanceOf[t] = i => op[t] = Idle
        /\ passphrase' = [passphrase EXCEPT ![i] = key]
        /\ head' = [head EXCEPT ![i] = NoHead]
        /\ UNCHANGED <<blob, op, reply, delayed>>
    BY DEF Reopen
  <1>2. /\ passphrase \in [Instances -> Keys] /\ head \in [Instances -> Head]
        /\ blob \in Blob /\ blob.etag \in Nat
    BY DEF IInv, TypeOK, Blob
  <1>3. /\ passphrase' \in [Instances -> Keys] /\ head' \in [Instances -> Head]
        /\ ~head'[i].known /\ head'[i].etag = 0
        /\ \A j \in Instances \ {i} : head'[j] = head[j] /\ passphrase'[j] = passphrase[j]
    BY <1>1, <1>2 DEF NoHead, Head
  <1>4. TypeOK'
    BY <1>1, <1>3 DEF IInv, TypeOK, Absent
  <1>5. HeadNeverMislabels' /\ HeadReadable'
    <2>1. 0 <= blob.etag
      BY <1>2
    <2> QED
      BY <1>1, <1>3, <2>1 DEF IInv, HeadNeverMislabels, HeadReadable, At, Absent
  <1>6. ASSUME NEW t \in Threads
        PROVE  CallSound(t)'
    <2>1. CASE InstanceOf[t] = i
      BY <1>1, <2>1 DEF CallSound, At, Idle, RekeyAt
    <2>2. CASE InstanceOf[t] # i
      <3>1. Passphrase(t)' = Passphrase(t)
        BY <1>3, <2>2, InstanceTyped DEF Passphrase
      <3> QED
        BY <1>1, <3>1 DEF IInv, CallSound, At, Absent
    <2> QED
      BY <2>1, <2>2
  <1>7. DelayedSound'
    BY <1>1 DEF IInv, DelayedSound, Absent
  <1> QED
    BY <1>4, <1>5, <1>6, <1>7 DEF IInv

----------------------------------------------------------------------------
\* The inductive invariant holds in every reachable state.
THEOREM Soundness == Spec => []IInv
  <1>1. Init => IInv
    BY ContentAssumption
    DEF Init, IInv, TypeOK, Blob, Head, NoHead, Op, Idle, Replies, HeadNeverMislabels,
        HeadReadable, CallSound, At, RekeyAt, Absent, DelayedSound
  <1>2. IInv /\ [Next]_vars => IInv'
    <2> SUFFICES ASSUME IInv, [Next]_vars
                 PROVE  IInv'
      OBVIOUS
    <2>1. ASSUME NEW t \in Threads, ReadNext(t) \/ CommitNext(t) \/ RekeyNext(t)
          PROVE  IInv'
      BY <2>1, ReadKeepsIInv, CommitStartKeepsIInv, PutKeepsIInv, CommitEndKeepsIInv,
         RekeyKeepsIInv
      DEF CommitNext
    <2>2. CASE UNCHANGED vars
      BY <2>2
      DEF vars, IInv, TypeOK, HeadNeverMislabels, HeadReadable, CallSound, At, Absent,
          Passphrase, DelayedSound
    <2> QED
      BY <2>1, <2>2, LatePutKeepsIInv, ReopenKeepsIInv DEF Next
  <1> QED
    BY <1>1, <1>2, PTL DEF Spec

\* The types; and whatever is stored, or late, goes back to a commit.
THEOREM TypeCorrectness == Spec => []TypeOK
  <1>1. IInv => TypeOK
    BY DEF IInv
  <1> QED
    BY <1>1, Soundness, PTL

\* A cached head or a base whose ETag is current names the revision of that ETag.
THEOREM HeadsAreTrue == Spec => []HeadNeverMislabels
  <1>1. IInv => HeadNeverMislabels
    BY DEF IInv
  <1> QED
    BY <1>1, Soundness, PTL

----------------------------------------------------------------------------
(* What a step does to the stored object. *)

\* The blob is written by the PUT of a commit, by that of a rekey, or by one that is late.
WritesAre ==
    \/ blob' = blob
    \/ \E t \in Threads : PutLands(t)
    \/ \E t \in Threads : RekeyPut(t)
    \/ LatePut

LEMMA WritesOnly ==
    ASSUME [Next]_vars
    PROVE  WritesAre
  BY DEF Next, vars, WritesAre, ReadNext, CommitNext, RekeyNext, Get, EndRead, BeginCommit,
         GetBase, GetBaseFails, PutRefused, PutLost, EndCommit, EndLost, BeginReread, Reread,
         RereadFails, EndReread, RekeyGet, RekeyInvalidate, RekeyPutFails, Reopen

\* The PUT of a commit raises the revision it expected, under the passphrase it found.
LEMMA PutRaises ==
    ASSUME IInv, NEW t \in Threads, PutLands(t)
    PROVE  /\ ~op[t].landed /\ op[t].expected = blob.revision
           /\ blob'.revision = blob.revision + 1 /\ blob'.content = op[t].content
           /\ ~Absent => blob'.key = blob.key
  BY CallFacts, SealedTyped DEF PutLands, Holds, CallSound, At

\* The PUT of a rekey keeps the revision and the content.
LEMMA RekeyKeeps ==
    ASSUME IInv, NEW t \in Threads, RekeyPut(t)
    PROVE  blob'.revision = blob.revision /\ blob'.content = blob.content
  BY CallFacts, ResealedTyped DEF RekeyPut, Holds, CallSound, At, RekeyAt

\* A commit keeps the passphrase of the blob; a rotation keeps revision and content.
THEOREM RotationsStay == Spec => RotationIsNotUndone
  <1> DEFINE A == /\ blob'.revision # blob.revision /\ ~Absent => blob'.key = blob.key
                  /\ blob'.key # blob.key /\ ~Absent =>
                         blob'.revision = blob.revision /\ blob'.content = blob.content
  <1>1. IInv /\ [Next]_vars => [A]_vars
    <2> SUFFICES ASSUME IInv, [Next]_vars
                 PROVE  A
      OBVIOUS
    <2>1. CASE blob' = blob
      BY <2>1
    <2>2. ASSUME NEW t \in Threads, PutLands(t)
          PROVE  A
      BY <2>2, PutRaises
    <2>3. ASSUME NEW t \in Threads, RekeyPut(t)
          PROVE  A
      BY <2>3, RekeyKeeps
    <2>4. CASE LatePut
      BY <2>4 DEF LatePut, IInv, DelayedSound
    <2> QED
      BY <2>1, <2>2, <2>3, <2>4, WritesOnly DEF WritesAre
  <1> QED
    BY <1>1, Soundness, PTL DEF Spec, RotationIsNotUndone

----------------------------------------------------------------------------
(* GenericProvider implements the versioned store. *)

\* What a step of a thread is to the store: its own call alone changes.
LEMMA StoreGoto ==
    ASSUME IInv, NEW t \in Threads, NEW s \in Op, Goto(t, s)
    PROVE  StoreCalls' = [StoreCalls EXCEPT ![t] = StoreCall(s)]
  <1>1. op' = [op EXCEPT ![t] = s] /\ op \in [Threads -> Op]
    BY DEF Goto, IInv, TypeOK
  <1> QED
    BY <1>1 DEF StoreCalls

LEMMA StoreCallIs ==
    ASSUME NEW call \in Op
    PROVE  /\ call.at \in CommitAt =>
                  /\ StoreCall(call) # NoCall
                  /\ StoreCall(call) = [expected |-> call.expected, content |-> call.content,
                                        landed |-> call.landed]
           /\ call.at \notin CommitAt => StoreCall(call) = NoCall
  BY NoneAssumption DEF StoreCall, NoCall, Op

\* A step that keeps the blob, the answer, the delayed PUT and the call.
LEMMA StoreStutter ==
    ASSUME IInv, NEW t \in Threads, NEW s \in Op, Goto(t, s),
           StoreCall(s) = StoreCall(op[t]), UNCHANGED <<blob, reply, delayed>>
    PROVE  UNCHANGED Store!vars
  <1>1. StoreCalls' = StoreCalls
    BY StoreGoto DEF StoreCalls
  <1> QED
    BY <1>1 DEF Store!vars, StoreLate

\* A step in which a call returns.
LEMMA StoreReturn ==
    ASSUME IInv, NEW t \in Threads, CommitReturns(t, reply'), op[t].at \in CommitAt,
           reply' \in Replies \ {"none"}, UNCHANGED blob,
           reply' = "ok" => op[t].landed,
           reply' = "conflict" => ~op[t].landed,
           \/ UNCHANGED delayed
           \/ /\ reply' = "failed" /\ ~op[t].landed
              /\ StoreLate' = StoreLate \cup {[expected |-> op[t].expected,
                                              content |-> op[t].content]}
    PROVE  Store!Next
  <1>1. /\ StoreCalls[t] = [expected |-> op[t].expected, content |-> op[t].content,
                            landed |-> op[t].landed]
        /\ StoreCalls[t] # NoCall
    BY CallFacts, StoreCallIs DEF StoreCalls
  <1>2. StoreCalls' = [StoreCalls EXCEPT ![t] = NoCall]
    BY IdleTyped, StoreGoto, StoreCallIs DEF CommitReturns, CommitAt
  <1>3. UNCHANGED delayed => StoreLate' = StoreLate
    BY DEF StoreLate
  <1>4. Store!Return(t, reply')
    BY <1>1, <1>2, <1>3 DEF Store!Return
  <1> QED
    BY <1>4 DEF Store!Next, Store!Replies, Replies

\* A read is nothing to the store.
LEMMA ReadInStore ==
    ASSUME IInv, NEW t \in Threads, ReadNext(t)
    PROVE  UNCHANGED Store!vars
  <1>1. CASE Get(t)
    <2> DEFINE s == [Idle EXCEPT !.at = "fetched", !.version = blob.revision,
                                !.etag = blob.etag]
    <2>1. s \in Op /\ s.at = "fetched"
      BY CallFacts, ContentAssumption DEF Idle, Op, ReadAt
    <2>2. Goto(t, s) /\ op[t] = Idle /\ UNCHANGED <<blob, reply, delayed>>
      BY <1>1 DEF Get
    <2> HIDE DEF s
    <2> QED
      BY <2>1, <2>2, IdleTyped, StoreCallIs, StoreStutter DEF CommitAt
  <1>2. CASE EndRead(t)
    BY <1>2, IdleTyped, CallFacts, StoreCallIs, StoreStutter DEF EndRead, At, CommitAt
  <1> QED
    BY <1>1, <1>2 DEF ReadNext

\* The beginning of a commit submits the call.
LEMMA BeginInStore ==
    ASSUME IInv, NEW t \in Threads, NEW expected \in 0..MaxVersion,
           NEW content \in Contents, BeginCommit(t, expected, content)
    PROVE  Store!Next
  <1> DEFINE call == [Idle EXCEPT !.expected = expected, !.content = content]
             h == head[InstanceOf[t]]
             s == IF HeadFor(t, expected)
                  THEN [call EXCEPT !.at = "put", !.etag = h.etag]
                  ELSE [call EXCEPT !.at = "get"]
  <1>1. Goto(t, s) /\ op[t] = Idle /\ UNCHANGED <<blob, reply, delayed>>
    BY DEF BeginCommit
  <1>2. h \in Head /\ expected \in Nat
    BY CallFacts, BoundAssumption
  <1>3. /\ s \in Op /\ s.at \in CommitAt /\ s.expected = expected
        /\ s.content = content /\ s.landed = FALSE
    <2>1. CASE HeadFor(t, expected)
      BY <1>2, <2>1 DEF Idle, Op, CommitAt, Head
    <2>2. CASE ~HeadFor(t, expected)
      BY <1>2, <2>2, ContentAssumption DEF Idle, Op, CommitAt
    <2> QED
      BY <2>1, <2>2
  <1> HIDE DEF s
  <1>4. /\ StoreCalls[t] = NoCall
        /\ StoreCalls' = [StoreCalls EXCEPT ![t] = StoreCall(s)]
        /\ StoreCall(s) = [expected |-> expected, content |-> content, landed |-> FALSE]
    BY <1>1, <1>3, IdleTyped, StoreCallIs, StoreGoto DEF StoreCalls, CommitAt
  <1>5. Store!Submit(t, expected, content)
    BY <1>1, <1>4 DEF Store!Submit, StoreLate
  <1> QED
    BY <1>5 DEF Store!Next

\* Marking a call as landed.
CallRecord == [expected : Nat, content : Contents, landed : BOOLEAN]

LEMMA LandedRecord ==
    ASSUME NEW r \in CallRecord, NEW q \in CallRecord,
           q.expected = r.expected, q.content = r.content, q.landed = TRUE
    PROVE  q = [r EXCEPT !.landed = TRUE]
  <1> DEFINE x == [r EXCEPT !.landed = TRUE]
  <1>1. x \in CallRecord /\ x.expected = r.expected /\ x.content = r.content
          /\ x.landed = TRUE
    BY DEF CallRecord
  <1> HIDE DEF x
  <1>2. x = q
    BY <1>1 DEF CallRecord
  <1> QED
    BY <1>2 DEF x

\* The PUT of a commit lands the call.
LEMMA PutInStore ==
    ASSUME IInv, NEW t \in Threads, PutLands(t)
    PROVE  Store!Next
  <1> DEFINE answered == [op[t] EXCEPT !.at = "landed", !.landed = TRUE,
                                       !.etag = blob.etag + 1]
             lost == [op[t] EXCEPT !.at = "lost", !.landed = TRUE, !.etag = 0]
  <1>0. op[t] \in Op /\ blob.etag + 1 \in Nat /\ op[t].at \in CommitAt
    BY CallFacts DEF PutLands, At, CommitAt
  <1>1. /\ answered \in Op /\ answered.at = "landed" /\ answered.landed = TRUE
        /\ answered.expected = op[t].expected /\ answered.content = op[t].content
    BY <1>0 DEF Op, CommitAt
  <1>2. /\ lost \in Op /\ lost.at = "lost" /\ lost.landed = TRUE
        /\ lost.expected = op[t].expected /\ lost.content = op[t].content
    BY <1>0 DEF Op, CommitAt
  <1>3. delayed' = None /\ UNCHANGED reply /\ (Goto(t, answered) \/ Goto(t, lost))
    BY DEF PutLands
  <1> HIDE DEF answered, lost
  <1>4. PICK s \in {answered, lost} : Goto(t, s)
    BY <1>3
  <1>5. /\ StoreCalls' = [StoreCalls EXCEPT ![t] = StoreCall(s)]
        /\ StoreCall(s) = [expected |-> op[t].expected, content |-> op[t].content,
                           landed |-> TRUE]
    BY <1>1, <1>2, <1>4, StoreCallIs, StoreGoto DEF CommitAt
  <1>6. /\ StoreCalls[t] # NoCall
        /\ StoreCalls[t] = [expected |-> op[t].expected, content |-> op[t].content,
                            landed |-> op[t].landed]
    BY <1>0, StoreCallIs DEF StoreCalls
  <1>7. StoreCall(s) = [StoreCalls[t] EXCEPT !.landed = TRUE]
    <2>1. StoreCalls[t] \in CallRecord /\ StoreCall(s) \in CallRecord
      BY <1>0, <1>5, <1>6 DEF CallRecord, Op
    <2>2. /\ StoreCall(s).expected = StoreCalls[t].expected
          /\ StoreCall(s).content = StoreCalls[t].content
          /\ StoreCall(s).landed = TRUE
      BY <1>5, <1>6
    <2> QED
      BY <2>1, <2>2, LandedRecord
  <1>8. StoreCalls' = [StoreCalls EXCEPT ![t].landed = TRUE]
    BY <1>5, <1>7
  <1>9. StoreLate' = {}
    BY <1>3 DEF StoreLate
  <1>10. Store!Land(t)
    BY <1>3, <1>6, <1>8, <1>9, PutRaises DEF Store!Land
  <1> QED
    BY <1>10 DEF Store!Next

\* Between its beginning, its PUT and its end a commit is nothing to the store.
LEMMA CommitStutters ==
    ASSUME IInv, NEW t \in Threads,
           GetBase(t) \/ PutRefused(t) \/ PutLost(t) \/ BeginReread(t) \/ Reread(t)
    PROVE  UNCHANGED Store!vars
  <1>0. op[t] \in Op /\ blob \in Blob
    BY CallFacts
  <1>1. PICK s \in Op : /\ Goto(t, s) /\ s.at \in CommitAt /\ s.expected = op[t].expected
                        /\ s.content = op[t].content /\ s.landed = op[t].landed
    <2>1. CASE GetBase(t)
      <3> DEFINE s == [op[t] EXCEPT !.at = "put", !.etag = blob.etag]
      <3>1. /\ s \in Op /\ s.at \in CommitAt /\ s.expected = op[t].expected
            /\ s.content = op[t].content /\ s.landed = op[t].landed
        BY <1>0 DEF Op, Blob, CommitAt
      <3>2. Goto(t, s)
        BY <2>1 DEF GetBase
      <3> QED
        BY <3>1, <3>2
    <2>2. CASE PutRefused(t)
      <3> DEFINE s == [op[t] EXCEPT !.at = "refused", !.etag = 0]
      <3>1. /\ s \in Op /\ s.at \in CommitAt /\ s.expected = op[t].expected
            /\ s.content = op[t].content /\ s.landed = op[t].landed
        BY <1>0 DEF Op, CommitAt
      <3>2. Goto(t, s)
        BY <2>2 DEF PutRefused
      <3> QED
        BY <3>1, <3>2
    <2>3. CASE PutLost(t)
      <3> DEFINE s == [op[t] EXCEPT !.at = "lost"]
      <3>1. /\ s \in Op /\ s.at \in CommitAt /\ s.expected = op[t].expected
            /\ s.content = op[t].content /\ s.landed = op[t].landed
        BY <1>0 DEF Op, CommitAt
      <3>2. Goto(t, s)
        BY <2>3 DEF PutLost
      <3> QED
        BY <3>1, <3>2
    <2>4. CASE BeginReread(t)
      <3> DEFINE s == [op[t] EXCEPT !.at = "reread"]
      <3>1. /\ s \in Op /\ s.at \in CommitAt /\ s.expected = op[t].expected
            /\ s.content = op[t].content /\ s.landed = op[t].landed
        BY <1>0 DEF Op, CommitAt
      <3>2. Goto(t, s)
        BY <2>4 DEF BeginReread
      <3> QED
        BY <3>1, <3>2
    <2>5. CASE Reread(t)
      <3> DEFINE s == [op[t] EXCEPT !.at = "rehead", !.version = blob.revision,
                                    !.etag = blob.etag]
      <3>1. /\ s \in Op /\ s.at \in CommitAt /\ s.expected = op[t].expected
            /\ s.content = op[t].content /\ s.landed = op[t].landed
        BY <1>0 DEF Op, Blob, CommitAt
      <3>2. Goto(t, s)
        BY <2>5 DEF Reread
      <3> QED
        BY <3>1, <3>2
    <2> QED
      BY <2>1, <2>2, <2>3, <2>4, <2>5
  <1>2. op[t].at \in CommitAt /\ UNCHANGED <<blob, reply, delayed>>
    BY DEF GetBase, PutRefused, PutLost, BeginReread, Reread, At, CommitAt
  <1> QED
    BY <1>0, <1>1, <1>2, StoreCallIs, StoreStutter

\* The end of a commit returns the call: ok if it landed, conflict if it did not.
LEMMA EndInStore ==
    ASSUME IInv, NEW t \in Threads,
           GetBaseFails(t) \/ EndCommit(t) \/ EndLost(t) \/ RereadFails(t) \/ EndReread(t)
    PROVE  Store!Next
  <1>1. CASE GetBaseFails(t) \/ RereadFails(t) \/ EndReread(t)
    <2>1. /\ op[t].at \in {"get", "reread", "rehead"} /\ UNCHANGED <<blob, delayed>>
          /\ reply' \in {"conflict", "failed"} /\ CommitReturns(t, reply')
      BY <1>1 DEF GetBaseFails, RereadFails, EndReread, CommitReturns, At
    <2> QED
      BY <2>1, CallFacts, StoreReturn DEF CallSound, CommitAt, Replies
  <1>2. CASE EndCommit(t)
    <2>1. /\ op[t].at = "landed" /\ UNCHANGED <<blob, delayed>>
          /\ reply' = "ok" /\ CommitReturns(t, reply')
      BY <1>2 DEF EndCommit, CommitReturns, At
    <2> QED
      BY <2>1, CallFacts, StoreReturn DEF CallSound, CommitAt, At, Replies
  <1>3. CASE EndLost(t)
    <2>1. /\ op[t].at = "lost" /\ UNCHANGED blob
          /\ reply' = "failed" /\ CommitReturns(t, reply')
          /\ IF op[t].landed THEN UNCHANGED delayed ELSE LeaveBehind(t, Sealed(t))
      BY <1>3 DEF EndLost, CommitReturns, At
    <2>2. CASE UNCHANGED delayed
      BY <2>1, <2>2, StoreReturn DEF CommitAt, Replies
    <2>3. CASE delayed' # delayed
      <3>1. /\ ~op[t].landed /\ delayed = None /\ delayed' = Sealed(t)
            /\ op[t].expected = blob.revision
        BY <2>1, <2>3, CallFacts DEF LeaveBehind, Holds, CallSound
      <3>2. StoreLate = {} /\ blob.revision \in Nat
        BY <3>1, CallFacts DEF StoreLate
      <3>3. StoreLate' = {[expected |-> op[t].expected, content |-> op[t].content]}
        BY <2>1, <2>3, <3>1, <3>2, SealedTyped DEF StoreLate
      <3> QED
        BY <2>1, <3>1, <3>2, <3>3, StoreReturn DEF CommitAt, Replies
    <2> QED
      BY <2>2, <2>3
  <1> QED
    BY <1>1, <1>2, <1>3

\* A rotation is nothing to the store, but that late calls may be forgotten.
LEMMA RekeyInStore ==
    ASSUME IInv, NEW t \in Threads, RekeyNext(t)
    PROVE  [Store!Next]_Store!vars
  <1>0. op[t] \in Op /\ blob \in Blob
    BY CallFacts
  <1>1. ASSUME NEW key \in Keys, RekeyGet(t, key)
        PROVE  UNCHANGED Store!vars
    <2> DEFINE s == [Idle EXCEPT !.at = "resealed", !.key = key, !.version = blob.revision,
                                !.etag = blob.etag, !.content = blob.content]
    <2>1. s \in Op /\ s.at = "resealed"
      BY <1>0 DEF Idle, Op, RekeyAt, Blob
    <2>2. Goto(t, s) /\ op[t] = Idle /\ UNCHANGED <<blob, reply, delayed>>
      BY <1>1 DEF RekeyGet
    <2> HIDE DEF s
    <2> QED
      BY <2>1, <2>2, IdleTyped, StoreCallIs, StoreStutter DEF CommitAt
  <1>2. CASE RekeyInvalidate(t)
    <2> DEFINE s == [op[t] EXCEPT !.at = "rekeyput"]
    <2>1. s \in Op /\ s.at = "rekeyput"
      BY <1>0 DEF Op, RekeyAt
    <2>2. Goto(t, s) /\ op[t].at = "resealed" /\ UNCHANGED <<blob, reply, delayed>>
      BY <1>2 DEF RekeyInvalidate, At
    <2> HIDE DEF s
    <2> QED
      BY <1>0, <2>1, <2>2, StoreCallIs, StoreStutter DEF CommitAt
  <1>3. ASSUME op[t].at = "rekeyput", Goto(t, Idle)
        PROVE  StoreCalls' = StoreCalls
    <2>1. StoreCall(op[t]) = NoCall /\ StoreCall(Idle) = NoCall
      BY <1>0, <1>3, IdleTyped, StoreCallIs DEF CommitAt
    <2>2. StoreCalls' = [StoreCalls EXCEPT ![t] = NoCall] /\ StoreCalls[t] = NoCall
      BY <1>3, <2>1, IdleTyped, StoreGoto DEF StoreCalls
    <2> QED
      BY <2>2 DEF StoreCalls
  <1>4. CASE RekeyPut(t)
    <2>1. delayed' = None /\ UNCHANGED reply /\ StoreCalls' = StoreCalls
      BY <1>3, <1>4 DEF RekeyPut, At
    <2>2. Store!Forget
      BY <1>4, <2>1, RekeyKeeps DEF Store!Forget, StoreLate
    <2> QED
      BY <2>2 DEF Store!Next
  <1>5. CASE RekeyPutFails(t)
    <2>1. /\ StoreCalls' = StoreCalls /\ UNCHANGED <<blob, reply>> /\ At(t, "rekeyput")
          /\ LeaveBehind(t, Resealed(t))
      BY <1>3, <1>5 DEF RekeyPutFails, At
    <2>2. StoreLate' = StoreLate
      <3>1. CASE delayed' = delayed
        BY <2>1, <3>1 DEF StoreLate
      <3>2. CASE delayed' # delayed
        <4>1. delayed = None /\ delayed' = Resealed(t) /\ op[t].etag = blob.etag
          BY <2>1, <3>2 DEF LeaveBehind, Holds
        <4>2. Resealed(t).revision = blob.revision
          BY <2>1, <4>1, CallFacts, ResealedTyped DEF CallSound, At, RekeyAt
        <4> QED
          BY <2>1, <4>1, <4>2 DEF StoreLate
      <3> QED
        BY <3>1, <3>2
    <2> QED
      BY <2>1, <2>2 DEF Store!vars
  <1> QED
    BY <1>1, <1>2, <1>4, <1>5 DEF RekeyNext

\* A late PUT lands a late call, or seals again what is there.
LEMMA LatePutInStore ==
    ASSUME IInv, LatePut
    PROVE  [Store!Next]_Store!vars
  <1>1. /\ delayed # None /\ blob' = delayed /\ delayed' = None
        /\ UNCHANGED <<op, reply>> /\ blob.revision \in Nat
    BY DEF LatePut, IInv, TypeOK, Blob
  <1>2. StoreCalls' = StoreCalls /\ StoreLate' = {}
    BY <1>1 DEF StoreCalls, StoreLate
  <1>3. CASE delayed.revision = blob.revision + 1
    <2> DEFINE call == [expected |-> blob.revision, content |-> delayed.content]
    <2>1. call \in StoreLate
      BY <1>1, <1>3 DEF StoreLate
    <2>2. Store!LandLate(call)
      BY <1>1, <1>2, <1>3 DEF Store!LandLate
    <2> QED
      BY <2>1, <2>2 DEF Store!Next
  <1>4. CASE delayed.revision = blob.revision /\ delayed.content = blob.content
    BY <1>1, <1>2, <1>4 DEF Store!Next, Store!Forget
  <1> QED
    BY <1>1, <1>3, <1>4 DEF IInv, DelayedSound

\* Every behaviour of GenericProvider is one of the versioned store.
THEOREM Implementation == Spec => ImplementsStore
  <1>1. Init => Store!Init
    BY IdleTyped, StoreCallIs
    DEF Init, Store!Init, StoreCalls, StoreLate, CommitAt
  <1>2. IInv /\ [Next]_vars => [Store!Next]_Store!vars
    <2> SUFFICES ASSUME IInv, [Next]_vars
                 PROVE  [Store!Next]_Store!vars
      OBVIOUS
    <2>1. ASSUME NEW t \in Threads, ReadNext(t) \/ CommitNext(t) \/ RekeyNext(t)
          PROVE  [Store!Next]_Store!vars
      BY <2>1, ReadInStore, BeginInStore, PutInStore, CommitStutters, EndInStore,
         RekeyInStore
      DEF CommitNext
    <2>2. ASSUME NEW i \in Instances, NEW key \in Keys, Reopen(i, key)
          PROVE  UNCHANGED Store!vars
      BY <2>2 DEF Reopen, Store!vars, StoreCalls, StoreLate
    <2>3. CASE UNCHANGED vars
      BY <2>3 DEF vars, Store!vars, StoreCalls, StoreLate
    <2> QED
      BY <2>1, <2>2, <2>3, LatePutInStore DEF Next
  <1> QED
    BY <1>1, <1>2, Soundness, PTL DEF Spec, ImplementsStore, Store!Spec
=============================================================================
