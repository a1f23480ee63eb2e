------------------------------ MODULE Devices -------------------------------
(***************************************************************************)
(* Several clients on one stored logbook: apps, whose every operation is   *)
(* CoswStore::mutate (read, apply, commit, and once more after a           *)
(* conflict), and CLIs, whose every command is transact (read, apply, ask, *)
(* commit, no second attempt).  The store is StorageProvider's contract as *)
(* VersionedStore states it; Provider is shown to implement that.          *)
(***************************************************************************)
EXTENDS Commands

CONSTANTS Clients,
          Apps,             \* the clients that retry: the rest are CLIs
          CommandsOf,       \* the commands each client gives
          MaxVersion        \* bound: commits that have landed or may still

ASSUME AppAssumption == Apps \subseteq Clients
ASSUME CommandAssumption == CommandsOf \in [Clients -> SUBSET Command]
ASSUME VersionAssumption == MaxVersion \in Nat

VARIABLES
    version, book,          \* the store
    calls, reply, late,     \* commits under way, as VersionedStore keeps them
    op                      \* per client: the command it is in

Idle == [at |-> "idle"]
NoCall == [expected |-> -1, content |-> NewLogbook, landed |-> FALSE]

\* The command under way; `landings` counts, for the properties only, the commits of
\* this command that have taken effect.
Op == {Idle}
      \cup [at : {"read"}, cmd : Command, attempt : {1, 2}, landings : Nat]
      \cup [at : {"commit", "wait"}, cmd : Command, attempt : {1, 2}, landings : Nat,
            base : Nat, copy : Logbook]

Store == INSTANCE VersionedStore WITH
    Callers <- Clients,
    Contents <- Logbook,
    EmptyContent <- NewLogbook,
    Versions <- 0..MaxVersion,
    content <- book

store == <<version, book, calls, reply, late>>
vars == <<store, op>>

Init ==
    /\ Store!Init
    /\ op = [c \in Clients |-> Idle]

----------------------------------------------------------------------------
At(c, where) == op[c].at = where

\* The command is over: done, given up, or refused with an error.
Ends(c) == op' = [op EXCEPT ![c] = Idle]

\* Bound: a command starts only if every commit that may still land fits.
Room == version + Cardinality({c \in Clients : op[c] # Idle})
                + (IF late = {} THEN 0 ELSE 1) < MaxVersion

Begin(c) == \E cmd \in CommandsOf[c] :
    /\ op[c] = Idle
    /\ Room
    /\ op' = [op EXCEPT ![c] = [at |-> "read", cmd |-> cmd, attempt |-> 1, landings |-> 0]]
    /\ UNCHANGED store

\* The store is read and the command applied to the copy.
Apply(c) == \E now \in Instants :
    /\ At(c, "read")
    /\ \E copy \in Outcomes(book, op[c].cmd, now) :
           op' = [op EXCEPT ![c] = [at |-> "commit", cmd |-> op[c].cmd,
                                    attempt |-> op[c].attempt, landings |-> op[c].landings,
                                    base |-> version, copy |-> copy]]
    /\ UNCHANGED store

\* The command does not apply to the logbook that was read.
ApplyFails(c) == \E now \in Instants :
    /\ At(c, "read")
    /\ Outcomes(book, op[c].cmd, now) = {}
    /\ Ends(c)
    /\ UNCHANGED store

ReadFails(c) ==
    /\ At(c, "read")
    /\ Ends(c)
    /\ UNCHANGED store

\* The CLI asks before it discards; the user may take any time, and may say no.
Confirms(cmd) == cmd.op \in {"cancel", "remove"}

Abort(c) ==
    /\ At(c, "commit")
    /\ c \notin Apps /\ Confirms(op[c].cmd)
    /\ Ends(c)
    /\ UNCHANGED store

\* commit validates what it is given before it touches the store.
Commit(c) ==
    /\ At(c, "commit")
    /\ Validates(op[c].copy)
    /\ Store!Submit(c, op[c].base, op[c].copy)
    /\ op' = [op EXCEPT ![c].at = "wait"]

CommitRefused(c) ==
    /\ At(c, "commit")
    /\ ~Validates(op[c].copy)
    /\ Ends(c)
    /\ UNCHANGED store

Land(c) ==
    /\ At(c, "wait")
    /\ Store!Land(c)
    /\ op' = [op EXCEPT ![c].landings = @ + 1]

\* Mutant of Returned: the version is asked for again, the logbook is not.
ReturnedWithLatestVersion(c) == [version |-> version, book |-> op[c].copy]

\* mutate hands back the copy it committed, under its new version.
Returned(c) == [version |-> op[c].base + 1, book |-> op[c].copy]

Committed(c) ==
    /\ At(c, "wait")
    /\ Store!Return(c, "ok")
    /\ Ends(c)

\* Mutant of Again: the copy of the first attempt is committed on a fresh version.
AgainWithoutApplying(c) ==
    op' = [op EXCEPT ![c].at = "commit", ![c].attempt = 2, ![c].base = version]

Again(c) ==
    op' = [op EXCEPT ![c] = [at |-> "read", cmd |-> op[c].cmd, attempt |-> op[c].attempt + 1,
                             landings |-> op[c].landings]]

\* Mutant of Retries: whatever went wrong, there is a second attempt.
RetriesAlways(c, result) == c \in Apps /\ op[c].attempt = 1

\* Mutant of Retries: a conflict is tried again as often as it takes.
RetriesUntilItFits(c, result) == c \in Apps /\ result = "conflict"

\* Only a conflict is tried again, and only once.
Retries(c, result) == c \in Apps /\ op[c].attempt = 1 /\ result = "conflict"

CommitFails(c) == \E result \in {"conflict", "failed"} :
    /\ At(c, "wait")
    /\ Store!Return(c, result)
    /\ IF Retries(c, result) THEN Again(c) ELSE Ends(c)

\* A commit whose caller gave up lands after all.
Straggle ==
    /\ \E call \in late : Store!LandLate(call)
    /\ UNCHANGED op

ClientNext(c) ==
    \/ Begin(c) \/ Apply(c) \/ ApplyFails(c) \/ ReadFails(c)
    \/ Abort(c) \/ Commit(c) \/ CommitRefused(c) \/ Land(c)
    \/ Committed(c) \/ CommitFails(c)

Next == (\E c \in Clients : ClientNext(c)) \/ Straggle

Spec == Init /\ [][Next]_vars

----------------------------------------------------------------------------
(* What the clients promise. *)

TypeOK ==
    /\ version \in Nat
    /\ book \in Logbook
    /\ calls \in [Clients -> {NoCall} \cup [expected : Nat, content : Logbook, landed : BOOLEAN]]
    /\ reply \in Store!Replies
    /\ late \subseteq [expected : Nat, content : Logbook]
    /\ op \in [Clients -> Op]

\* Whatever is stored obeys the rules of a logbook, although its commits come from
\* copies made earlier by clients that do not know of each other, and a command may
\* fail after some of its mutations (mutate, transact: only a whole command commits).
StoredSound == Sound(book)

\* A command takes effect at most once, also when it is tried again, and its client is
\* told the truth: before it is committed it has not, ok means that it has and conflict
\* that it never will (mutate's retry; only `failed` leaves it open).
NeverTwice ==
    \A c \in Clients :
        /\ op[c].at \in {"read", "commit"} => op[c].landings = 0
        /\ At(c, "wait") => op[c].landings = IF calls[c].landed THEN 1 ELSE 0

\* What an app shows after a command is true: as long as the store is at the version
\* it was handed, it holds the logbook it was handed (mutate does not read it back).
ReturnedIsStored ==
    \A c \in Apps :
        At(c, "wait") /\ calls[c].landed /\ Returned(c).version = version =>
            Returned(c).book = book

\* The logbook as all the clients see it.
Shared == INSTANCE SharedLogbook WITH
    Offered <- UNION {CommandsOf[c] : c \in Clients},
    Clock <- Instants

\* Every change of the stored logbook is one whole command, applied to the logbook as
\* it was stored just before: no interleaving of reads and commits, no retry and no
\* commit that lands after its caller gave up loses or repeats another client's work.
ImplementsSharedLogbook == Shared!Spec
=============================================================================
