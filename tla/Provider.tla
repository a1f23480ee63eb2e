------------------------------ MODULE Provider ------------------------------
(***************************************************************************)
(* GenericProvider (provider.rs) over one conditional-write blob.  Several *)
(* provider instances, several threads per instance (SyncEngine's worker   *)
(* and its callers share one).  Every access to the blob store is a step,  *)
(* every critical section on `head` is a step.                             *)
(*                                                                         *)
(* The blob's ETag is the number of writes it has seen, 0 while absent:    *)
(* IfMatch(etag) and IfAbsent are then one comparison.  The payload is its *)
(* revision and an opaque content; it opens under the passphrase that      *)
(* sealed it.  Validation, serialisation and migration are in Domain.      *)
(***************************************************************************)
EXTENDS Naturals, FiniteSets

CONSTANTS Threads, Instances, InstanceOf, Contents, EmptyContent, Keys, None,
          Rotators,         \* threads that may call rekey: only the CLI does
          MaxEtag,          \* bound: writes done and under way
          MaxVersion        \* bound: the largest version a caller expects

ASSUME InstanceAssumption == InstanceOf \in [Threads -> Instances]
ASSUME RotatorAssumption == Rotators \subseteq Threads
ASSUME ContentAssumption == EmptyContent \in Contents
ASSUME NoneAssumption == None \notin Nat
ASSUME BoundAssumption == MaxEtag \in Nat /\ MaxVersion \in Nat

VARIABLES
    blob,           \* the stored object
    passphrase,     \* per instance: the passphrase it was opened with
    head,           \* per instance: the cached head
    op,             \* per thread: the call it is in
    reply,          \* how the last commit to return ended, whichever thread's
    delayed         \* a PUT given up by its thread that may still arrive, or None

vars == <<blob, passphrase, head, op, reply, delayed>>

\* NoHead stands for a head of None; `known` tells the two apart.
Head == [known : BOOLEAN, version : Nat, etag : Nat]
NoHead == [known |-> FALSE, version |-> 0, etag |-> 0]

\* The call a thread is in: where it is, the commit's arguments, what the last GET
\* returned or the PUT's precondition, a rekey's new passphrase, and whether the
\* PUT of this call has taken effect.
Idle == [at |-> "idle", expected |-> 0, content |-> EmptyContent, version |-> 0,
         etag |-> 0, key |-> None, landed |-> FALSE]

CommitAt == {"get", "put", "landed", "lost", "refused", "reread", "rehead"}
ReadAt == {"fetched"}
RekeyAt == {"resealed", "rekeyput"}

Op == [at : {"idle"} \cup CommitAt \cup ReadAt \cup RekeyAt, expected : Nat,
       content : Contents, version : Nat, etag : Nat, key : Keys \cup {None},
       landed : BOOLEAN]

Replies == {"none", "ok", "conflict", "failed"}

Init ==
    /\ blob = [etag |-> 0, revision |-> 0, content |-> EmptyContent, key |-> None]
    /\ passphrase \in [Instances -> Keys]
    /\ head = [i \in Instances |-> NoHead]
    /\ op = [t \in Threads |-> Idle]
    /\ reply = "none"
    /\ delayed = None

----------------------------------------------------------------------------
(* The pieces. *)

Passphrase(t) == passphrase[InstanceOf[t]]

\* The stored object; the key is None while it is absent.
Blob == [etag : Nat, revision : Nat, content : Contents, key : Keys \cup {None}]

Absent == blob.etag = 0

\* Mutant of Opens: whatever was fetched is taken for readable.
OpensAnything(t) == TRUE

\* What the GET returned opens: there is nothing, or it was sealed under this passphrase.
Opens(t) == Absent \/ blob.key = Passphrase(t)

\* Mutant of Holds: the PUT is unconditional.
HoldsAlways(etag) == TRUE

\* The PUT's precondition: IfMatch(etag), or IfAbsent when etag is 0.
Holds(etag) == blob.etag = etag

\* What a commit seals on top of the revision it expects.
Sealed(t) == [etag |-> blob.etag + 1, revision |-> op[t].expected + 1,
              content |-> op[t].content, key |-> Passphrase(t)]

\* What a rekey seals: what it read, under the new passphrase.
Resealed(t) == [etag |-> blob.etag + 1, revision |-> op[t].version,
                content |-> op[t].content, key |-> op[t].key]

\* A call gives up on a PUT that the store may still receive. Bound: one at a time; one
\* whose precondition no longer holds will be refused, and is forgotten.
LeaveBehind(t, put) ==
    delayed' = IF delayed = None /\ Holds(op[t].etag) THEN put ELSE delayed

SetHead(t, version, etag) ==
    head' = [head EXCEPT ![InstanceOf[t]] =
                 [known |-> TRUE, version |-> version, etag |-> etag]]

InvalidateHead(t) == head' = [head EXCEPT ![InstanceOf[t]] = NoHead]

\* head_for: the cached head is at the version the caller expects.
HeadFor(t, expected) ==
    head[InstanceOf[t]].known /\ head[InstanceOf[t]].version = expected

At(t, where) == op[t].at = where
Goto(t, state) == op' = [op EXCEPT ![t] = state]

\* The bound on writes: one starts only if it can end within MaxEtag.
WriteAllowed ==
    blob.etag + Cardinality({t \in Threads : op[t].at \in CommitAt \cup RekeyAt})
              + (IF delayed = None THEN 0 ELSE 1) < MaxEtag

\* A commit returns; the thread is idle again.
CommitReturns(t, result) ==
    /\ Goto(t, Idle)
    /\ reply' = result

----------------------------------------------------------------------------
(* read: GET, open, then note the head. *)

\* A GET that fails, or whose payload does not open, ends the read and changes nothing.
Get(t) ==
    /\ op[t] = Idle
    /\ Opens(t)
    /\ Goto(t, [Idle EXCEPT !.at = "fetched", !.version = blob.revision,
                           !.etag = blob.etag])
    /\ UNCHANGED <<blob, passphrase, head, reply, delayed>>

EndRead(t) ==
    /\ At(t, "fetched")
    /\ SetHead(t, op[t].version, op[t].etag)
    /\ Goto(t, Idle)
    /\ UNCHANGED <<blob, passphrase, reply, delayed>>

----------------------------------------------------------------------------
(* commit: the cached head or a GET supplies the base, a conditional PUT decides. *)

\* With a head at the expected version the GET is skipped.
BeginCommit(t, expected, content) ==
    LET call == [Idle EXCEPT !.expected = expected, !.content = content]
    IN  /\ op[t] = Idle
        /\ WriteAllowed
        /\ Goto(t, IF HeadFor(t, expected)
                   THEN [call EXCEPT !.at = "put", !.etag = head[InstanceOf[t]].etag]
                   ELSE [call EXCEPT !.at = "get"])
        /\ UNCHANGED <<blob, passphrase, head, reply, delayed>>

\* The GET of the slow path finds the expected revision: on to the PUT.
GetBase(t) ==
    /\ At(t, "get")
    /\ Opens(t)
    /\ blob.revision = op[t].expected
    /\ Goto(t, [op[t] EXCEPT !.at = "put", !.etag = blob.etag])
    /\ UNCHANGED <<blob, passphrase, head, reply, delayed>>

\* It finds another revision, cannot open the payload, or fails.
GetBaseFails(t) ==
    /\ At(t, "get")
    /\ \/ Opens(t) /\ blob.revision # op[t].expected /\ CommitReturns(t, "conflict")
       \/ CommitReturns(t, "failed")
    /\ UNCHANGED <<blob, passphrase, head, delayed>>

\* The PUT lands; its answer arrives, or is lost on the way back.
PutLands(t) ==
    /\ At(t, "put")
    /\ Holds(op[t].etag)
    /\ blob' = Sealed(t)
    /\ delayed' = None
    /\ \/ Goto(t, [op[t] EXCEPT !.at = "landed", !.landed = TRUE, !.etag = blob.etag + 1])
       \/ Goto(t, [op[t] EXCEPT !.at = "lost", !.landed = TRUE, !.etag = 0])
    /\ UNCHANGED <<passphrase, head, reply>>

PutRefused(t) ==
    /\ At(t, "put")
    /\ ~Holds(op[t].etag)
    /\ Goto(t, [op[t] EXCEPT !.at = "refused", !.etag = 0])
    /\ UNCHANGED <<blob, passphrase, head, reply, delayed>>

\* No answer, and the PUT has not taken effect.
PutLost(t) ==
    /\ At(t, "put")
    /\ Goto(t, [op[t] EXCEPT !.at = "lost"])
    /\ UNCHANGED <<blob, passphrase, head, reply, delayed>>

\* Mutant of EndCommit: the new ETag is noted with the revision it replaced.
EndCommitAtBase(t) ==
    /\ At(t, "landed")
    /\ SetHead(t, op[t].expected, op[t].etag)
    /\ CommitReturns(t, "ok")
    /\ UNCHANGED <<blob, passphrase, delayed>>

EndCommit(t) ==
    /\ At(t, "landed")
    /\ SetHead(t, op[t].expected + 1, op[t].etag)
    /\ CommitReturns(t, "ok")
    /\ UNCHANGED <<blob, passphrase, delayed>>

\* The outcome is unknown: the head is not trusted any more, and a PUT that has not
\* taken effect may still be on its way.
EndLost(t) ==
    /\ At(t, "lost")
    /\ InvalidateHead(t)
    /\ CommitReturns(t, "failed")
    /\ IF op[t].landed THEN UNCHANGED delayed ELSE LeaveBehind(t, Sealed(t))
    /\ UNCHANGED <<blob, passphrase>>

\* After a conflict, commit re-reads once so that the head is fresh for a retry.
BeginReread(t) ==
    /\ At(t, "refused")
    /\ InvalidateHead(t)
    /\ Goto(t, [op[t] EXCEPT !.at = "reread"])
    /\ UNCHANGED <<blob, passphrase, reply, delayed>>

Reread(t) ==
    /\ At(t, "reread")
    /\ Opens(t)
    /\ Goto(t, [op[t] EXCEPT !.at = "rehead", !.version = blob.revision,
                             !.etag = blob.etag])
    /\ UNCHANGED <<blob, passphrase, head, reply, delayed>>

RereadFails(t) ==
    /\ At(t, "reread")
    /\ CommitReturns(t, "conflict")
    /\ UNCHANGED <<blob, passphrase, head, delayed>>

EndReread(t) ==
    /\ At(t, "rehead")
    /\ SetHead(t, op[t].version, op[t].etag)
    /\ CommitReturns(t, "conflict")
    /\ UNCHANGED <<blob, passphrase, delayed>>

----------------------------------------------------------------------------
(* rekey: the payload is sealed again under another passphrase. *)

\* Mutant of RekeyGet: where there is no logbook, an empty one is taken, as read does.
RekeyGetAnyway(t, key) ==
    /\ t \in Rotators
    /\ op[t] = Idle
    /\ WriteAllowed
    /\ Opens(t)
    /\ Goto(t, [Idle EXCEPT !.at = "resealed", !.key = key, !.version = blob.revision,
                           !.etag = blob.etag, !.content = blob.content])
    /\ UNCHANGED <<blob, passphrase, head, reply, delayed>>

\* The GET; if it fails, finds no logbook or one that does not open, nothing changes.
RekeyGet(t, key) ==
    /\ t \in Rotators
    /\ op[t] = Idle
    /\ WriteAllowed
    /\ ~Absent
    /\ Opens(t)
    /\ Goto(t, [Idle EXCEPT !.at = "resealed", !.key = key, !.version = blob.revision,
                           !.etag = blob.etag, !.content = blob.content])
    /\ UNCHANGED <<blob, passphrase, head, reply, delayed>>

RekeyInvalidate(t) ==
    /\ At(t, "resealed")
    /\ InvalidateHead(t)
    /\ Goto(t, [op[t] EXCEPT !.at = "rekeyput"])
    /\ UNCHANGED <<blob, passphrase, reply, delayed>>

RekeyPut(t) ==
    /\ At(t, "rekeyput")
    /\ Holds(op[t].etag)
    /\ blob' = Resealed(t)
    /\ delayed' = None
    /\ Goto(t, Idle)
    /\ UNCHANGED <<passphrase, head, reply>>

\* The PUT is refused, lost or late.
RekeyPutFails(t) ==
    /\ At(t, "rekeyput")
    /\ Goto(t, Idle)
    /\ LeaveBehind(t, Resealed(t))
    /\ UNCHANGED <<blob, passphrase, head, reply>>

\* A PUT whose caller has gone arrives after all.
LatePut ==
    /\ delayed # None
    /\ blob' = delayed
    /\ delayed' = None
    /\ UNCHANGED <<passphrase, head, op, reply>>

\* The process ends and a new one opens the store, with a passphrase of its own choice.
Reopen(i, key) ==
    /\ \A t \in Threads : InstanceOf[t] = i => op[t] = Idle
    /\ passphrase' = [passphrase EXCEPT ![i] = key]
    /\ head' = [head EXCEPT ![i] = NoHead]
    /\ UNCHANGED <<blob, op, reply, delayed>>

----------------------------------------------------------------------------
ReadNext(t) == Get(t) \/ EndRead(t)

CommitNext(t) ==
    \/ \E expected \in 0..MaxVersion, content \in Contents : BeginCommit(t, expected, content)
    \/ GetBase(t) \/ GetBaseFails(t)
    \/ PutLands(t) \/ PutRefused(t) \/ PutLost(t)
    \/ EndCommit(t) \/ EndLost(t)
    \/ BeginReread(t) \/ Reread(t) \/ RereadFails(t) \/ EndReread(t)

RekeyNext(t) ==
    \/ \E key \in Keys : RekeyGet(t, key)
    \/ RekeyInvalidate(t)
    \/ RekeyPut(t) \/ RekeyPutFails(t)

Next ==
    \/ \E t \in Threads : ReadNext(t) \/ CommitNext(t) \/ RekeyNext(t)
    \/ \E i \in Instances, key \in Keys : Reopen(i, key)
    \/ LatePut

Spec == Init /\ [][Next]_vars

----------------------------------------------------------------------------
(* What the provider promises. *)

\* An object that a commit has made, and that somebody's passphrase opens.
Committed(object) == object.revision > 0 /\ object.key \in Keys

\* The types, and that what is stored, or may yet arrive, goes back to a commit: reading an
\* absent logbook as an empty one stores nothing, and neither does rotating its passphrase.
TypeOK ==
    /\ blob \in Blob
    /\ passphrase \in [Instances -> Keys]
    /\ head \in [Instances -> Head]
    /\ op \in [Threads -> Op]
    /\ reply \in Replies
    /\ delayed \in Blob \cup {None}
    /\ ~Absent => Committed(blob)
    /\ delayed # None => Committed(delayed)

\* A cached head, and the precondition of a PUT under way, name a revision and an ETag
\* the blob really had together: whichever threads shared the cache and whatever was
\* lost, an ETag that still matches is the ETag of the revision it is paired with.
\* This is why skipping the GET (head_for) is safe.
HeadNeverMislabels ==
    /\ \A i \in Instances :
           /\ head[i].etag <= blob.etag
           /\ head[i].known /\ head[i].etag = blob.etag => blob.revision = head[i].version
    /\ \A t \in Threads :
           /\ op[t].etag <= blob.etag
           /\ At(t, "put") /\ op[t].etag = blob.etag => blob.revision = op[t].expected
    /\ delayed # None => delayed.etag = blob.etag + 1

\* The inductive invariant behind the theorems. As long as the blob still has the ETag a
\* call holds, the call knows its revision (and a rekey its content), and the blob opens
\* under the passphrase of the call's instance.
CallSound(t) ==
    /\ op[t].landed => op[t].at \in {"landed", "lost"}
    /\ At(t, "landed") => op[t].landed
    /\ op[t].at \in RekeyAt => op[t].version > 0 /\ op[t].key \in Keys
    /\ op[t].etag = blob.etag =>
           /\ op[t].at \in {"put", "lost"} /\ ~op[t].landed => blob.revision = op[t].expected
           /\ At(t, "landed") => blob.revision = op[t].expected + 1
           /\ op[t].at \in {"fetched", "rehead"} \cup RekeyAt => blob.revision = op[t].version
           /\ op[t].at \in RekeyAt => blob.content = op[t].content
           /\ op[t].at \in {"fetched", "rehead", "put", "lost", "landed"} /\ ~Absent =>
                  blob.key = Passphrase(t)

HeadReadable ==
    \A i \in Instances :
        head[i].known /\ head[i].etag = blob.etag /\ ~Absent => blob.key = passphrase[i]

\* A delayed PUT commits on the blob it would replace, or seals it again.
DelayedSound ==
    delayed # None =>
        \/ delayed.revision = blob.revision + 1 /\ (~Absent => delayed.key = blob.key)
        \/ delayed.revision = blob.revision /\ delayed.content = blob.content

IInv ==
    /\ TypeOK
    /\ HeadNeverMislabels
    /\ HeadReadable
    /\ \A t \in Threads : CallSound(t)
    /\ DelayedSound

\* A commit seals under the passphrase of the blob it replaces: a client that still has
\* the old passphrase never takes back a rotation it has not seen; and a rotation
\* changes neither revision nor content.
RotationIsNotUndone ==
    [][/\ blob'.revision # blob.revision /\ ~Absent => blob'.key = blob.key
       /\ blob'.key # blob.key /\ ~Absent =>
              blob'.revision = blob.revision /\ blob'.content = blob.content]_vars

\* GenericProvider implements the versioned store: commits land once, in one step,
\* against the version they expect; ok means landed and conflict means not landed,
\* also when the cached head was stale or the answer to the PUT was lost or late.
NoCall == [expected |-> None, content |-> None, landed |-> None]

\* A call of the store: a commit under way.
StoreCall(call) ==
    IF call.at \in CommitAt
    THEN [expected |-> call.expected, content |-> call.content, landed |-> call.landed]
    ELSE NoCall

StoreCalls == [t \in Threads |-> StoreCall(op[t])]

\* A late call of the store: a delayed PUT that is not a rekey's.
StoreLate ==
    IF delayed # None /\ delayed.revision # blob.revision
    THEN {[expected |-> blob.revision, content |-> delayed.content]}
    ELSE {}

Store == INSTANCE VersionedStore WITH
    Callers <- Threads,
    Versions <- 0..MaxVersion,
    version <- blob.revision,
    content <- blob.content,
    calls <- StoreCalls,
    reply <- reply,
    late <- StoreLate

ImplementsStore == Store!Spec
=============================================================================
