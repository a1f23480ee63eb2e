--------------------------- MODULE DevicesProofs ----------------------------
(***************************************************************************)
(* Proofs about several clients on one stored logbook: the stored logbook  *)
(* is always sound, a command takes effect at most once, what an app is    *)
(* handed back is what is stored, and together the clients implement a     *)
(* single logbook to which whole commands are applied one after the other. *)
(*                                                                         *)
(* All of it follows from one inductive invariant: a copy a client (or a   *)
(* call that timed out) may still commit was made, by an offered command,  *)
(* from the logbook as it was at the version the commit expects.  Since a  *)
(* commit lands only at that version, it lands on the logbook the copy was *)
(* made from.                                                              *)
(***************************************************************************)
EXTENDS Devices, CommandsProofs

----------------------------------------------------------------------------
(* The inductive invariant. *)

\* Some command the clients offer makes `new` of the stored logbook.
OneCommandAway(new) ==
    \E d \in Clients : \E cmd \in CommandsOf[d], now \in Instants : new \in Outcomes(book, cmd, now)

\* A client's call belongs to the command it is in.
CallFits(c) ==
    /\ op[c].at \in {"read", "commit", "wait"} => op[c].cmd \in CommandsOf[c]
    /\ op[c].at # "wait" => calls[c] = NoCall
    /\ op[c].at = "wait" => /\ calls[c].expected = op[c].base
                            /\ calls[c].content = op[c].copy

\* A copy that may still be committed is one command away from what is stored at its base.
CopyFresh(c) ==
    op[c].at \in {"commit", "wait"} /\ ~calls[c].landed =>
        /\ op[c].base <= version
        /\ op[c].base = version => OneCommandAway(op[c].copy)

\* A copy that was committed is what is stored until the next commit lands.
LandedStored(c) ==
    op[c].at = "wait" /\ calls[c].landed =>
        /\ op[c].base < version
        /\ op[c].base + 1 = version => book = op[c].copy

LandingsFit(c) ==
    /\ op[c].at \in {"read", "commit"} => op[c].landings = 0
    /\ op[c].at = "wait" => op[c].landings = IF calls[c].landed THEN 1 ELSE 0

\* What a call that timed out may still do.
LateFresh ==
    \A call \in late :
        /\ call.expected <= version
        /\ call.expected = version => OneCommandAway(call.content)

ClientInv(c) == CallFits(c) /\ CopyFresh(c) /\ LandedStored(c) /\ LandingsFit(c)

IInv == TypeOK /\ StoredSound /\ LateFresh /\ \A c \in Clients : ClientInv(c)

----------------------------------------------------------------------------
(* The client's state. *)

ReadState == [at : {"read"}, cmd : Command, attempt : {1, 2}, landings : Nat]
CommitState == [at : {"commit", "wait"}, cmd : Command, attempt : {1, 2}, landings : Nat,
                base : Nat, copy : Logbook]

LEMMA OpFields ==
    ASSUME NEW o \in Op
    PROVE  /\ o.at \in {"idle", "read", "commit", "wait"}
           /\ o.at = "read" => o \in ReadState
           /\ o.at \in {"commit", "wait"} => o \in CommitState
  <1>1. CASE o = Idle
    BY <1>1 DEF Idle
  <1>2. CASE o \in ReadState
    BY <1>2 DEF ReadState
  <1>3. CASE o \in CommitState
    BY <1>3 DEF CommitState
  <1> QED
    BY <1>1, <1>2, <1>3 DEF Op, ReadState, CommitState

LEMMA NoCallUnlanded == ~NoCall.landed /\ NoCall.expected \notin Nat
  BY DEF NoCall

\* What an offered command makes of a sound logbook is sound.
LEMMA OneCommandAwaySound ==
    ASSUME TypeOK, StoredSound, NEW new, OneCommandAway(new)
    PROVE  SoundBook(new)
  <1>1. PICK d \in Clients : \E cmd \in CommandsOf[d], now \in Instants :
            new \in Outcomes(book, cmd, now)
    BY DEF OneCommandAway
  <1>2. PICK cmd \in CommandsOf[d], now \in Instants : new \in Outcomes(book, cmd, now)
    BY <1>1
  <1>3. cmd \in Command
    BY CommandAssumption
  <1> QED
    BY <1>2, <1>3, OutcomesSound DEF SoundBook, TypeOK, StoredSound

----------------------------------------------------------------------------
(* A step of one client that leaves the store alone. *)

LEMMA QuietStep ==
    ASSUME IInv, NEW c \in Clients, NEW s \in Op, op' = [op EXCEPT ![c] = s],
           UNCHANGED store, ClientInv(c)'
    PROVE  IInv'
  <1>1. /\ UNCHANGED <<version, book, calls, reply, late>>
        /\ op' \in [Clients -> Op]
        /\ \A d \in Clients \ {c} : op'[d] = op[d]
    BY DEF store, IInv, TypeOK
  <1>2. TypeOK'
    BY <1>1 DEF IInv, TypeOK
  <1>3. StoredSound' /\ LateFresh'
    BY <1>1 DEF IInv, StoredSound, LateFresh, OneCommandAway
  <1>4. \A d \in Clients : ClientInv(d)'
    BY <1>1 DEF IInv, ClientInv, CallFits, CopyFresh, LandedStored, LandingsFit, OneCommandAway
  <1> QED
    BY <1>2, <1>3, <1>4 DEF IInv

\* The end of a command that has no call under way.
LEMMA EndsQuietly ==
    ASSUME IInv, NEW c \in Clients, Ends(c), op[c].at # "wait", UNCHANGED store
    PROVE  IInv'
  <1>1. Idle \in Op /\ Idle.at = "idle"
    BY DEF Idle, Op
  <1>2. op'[c] = Idle /\ calls'[c] = NoCall
    BY DEF Ends, IInv, TypeOK, ClientInv, CallFits, store
  <1>3. ClientInv(c)'
    BY <1>1, <1>2 DEF ClientInv, CallFits, CopyFresh, LandedStored, LandingsFit
  <1> QED
    BY <1>1, <1>3, QuietStep DEF Ends

----------------------------------------------------------------------------
(* The steps that leave the store alone. *)

LEMMA BeginKeeps ==
    ASSUME IInv, NEW c \in Clients, Begin(c)
    PROVE  IInv'
  <1>1. PICK cmd \in CommandsOf[c] :
            /\ op[c] = Idle
            /\ op' = [op EXCEPT ![c] = [at |-> "read", cmd |-> cmd, attempt |-> 1,
                                        landings |-> 0]]
            /\ UNCHANGED store
    BY DEF Begin
  <1> DEFINE s == [at |-> "read", cmd |-> cmd, attempt |-> 1, landings |-> 0]
  <1>2. s \in Op
    <2>1. cmd \in Command
      BY CommandAssumption
    <2>2. s \in ReadState
      BY <2>1 DEF ReadState
    <2> QED
      BY <2>2 DEF Op, ReadState
  <1>3. s.at = "read" /\ s.cmd = cmd /\ s.landings = 0
    OBVIOUS
  <1>4. op' = [op EXCEPT ![c] = s]
    BY <1>1
  <1> HIDE DEF s
  <1>5. op'[c] = s /\ calls'[c] = NoCall
    BY <1>1, <1>4 DEF IInv, TypeOK, ClientInv, CallFits, store, Idle
  <1>6. ClientInv(c)'
    BY <1>3, <1>5 DEF ClientInv, CallFits, CopyFresh, LandedStored, LandingsFit
  <1> QED
    BY <1>1, <1>2, <1>4, <1>6, QuietStep

\* The copy is made from what is stored, at the version it will be committed against.
LEMMA ApplyKeeps ==
    ASSUME IInv, NEW c \in Clients, Apply(c)
    PROVE  IInv'
  <1>1. PICK now \in Instants : \E copy \in Outcomes(book, op[c].cmd, now) :
            op' = [op EXCEPT ![c] = [at |-> "commit", cmd |-> op[c].cmd,
                                     attempt |-> op[c].attempt, landings |-> op[c].landings,
                                     base |-> version, copy |-> copy]]
    BY DEF Apply
  <1>2. PICK copy \in Outcomes(book, op[c].cmd, now) :
            op' = [op EXCEPT ![c] = [at |-> "commit", cmd |-> op[c].cmd,
                                     attempt |-> op[c].attempt, landings |-> op[c].landings,
                                     base |-> version, copy |-> copy]]
    BY <1>1
  <1>3. /\ op[c] \in ReadState /\ op[c].cmd \in CommandsOf[c] /\ calls[c] = NoCall
        /\ op[c].landings = 0 /\ UNCHANGED store
    BY OpFields DEF Apply, At, IInv, TypeOK, ClientInv, CallFits, LandingsFit
  <1>4. OneCommandAway(copy)
    BY <1>2, <1>3 DEF OneCommandAway
  <1> DEFINE s == [at |-> "commit", cmd |-> op[c].cmd, attempt |-> op[c].attempt,
                   landings |-> op[c].landings, base |-> version, copy |-> copy]
  <1>5. s \in Op
    <2>1. copy \in Logbook
      BY <1>4, OneCommandAwaySound DEF IInv, SoundBook
    <2>2. version \in Nat
      BY DEF IInv, TypeOK
    <2>3. s \in CommitState
      BY <1>3, <2>1, <2>2 DEF ReadState, CommitState
    <2> QED
      BY <2>3 DEF Op, CommitState
  <1>6. /\ s.at = "commit" /\ s.cmd = op[c].cmd /\ s.landings = op[c].landings
        /\ s.base = version /\ s.copy = copy
    OBVIOUS
  <1>7. op' = [op EXCEPT ![c] = s]
    BY <1>2
  <1> HIDE DEF s
  <1>8. op'[c] = s /\ UNCHANGED <<version, book, calls>>
    BY <1>3, <1>7 DEF IInv, TypeOK, store
  <1>9. OneCommandAway(copy)'
    BY <1>4, <1>8 DEF OneCommandAway
  <1>10. version \in Nat
    BY DEF IInv, TypeOK
  <1>11. CopyFresh(c)'
    BY <1>6, <1>8, <1>9, <1>10 DEF CopyFresh
  <1>12. CallFits(c)' /\ LandedStored(c)' /\ LandingsFit(c)'
    BY <1>3, <1>6, <1>8 DEF CallFits, LandedStored, LandingsFit
  <1> QED
    BY <1>3, <1>5, <1>7, <1>11, <1>12, QuietStep DEF ClientInv

LEMMA GiveUpKeeps ==
    ASSUME IInv, NEW c \in Clients,
           ApplyFails(c) \/ ReadFails(c) \/ Abort(c) \/ CommitRefused(c)
    PROVE  IInv'
  <1>1. op[c].at # "wait" /\ Ends(c) /\ UNCHANGED store
    BY DEF ApplyFails, ReadFails, Abort, CommitRefused, At
  <1> QED
    BY <1>1, EndsQuietly

----------------------------------------------------------------------------
(* The steps that call the store. *)

\* A step of one client that changes its call, and the stored logbook not at all.
LEMMA CallStep ==
    ASSUME IInv, NEW c \in Clients, NEW s \in Op, NEW call,
           op' = [op EXCEPT ![c] = s], calls' = [calls EXCEPT ![c] = call],
           call \in {NoCall} \cup [expected : Nat, content : Logbook, landed : BOOLEAN],
           UNCHANGED <<version, book>>, reply' \in Store!Replies,
           late' \subseteq [expected : Nat, content : Logbook],
           LateFresh', ClientInv(c)'
    PROVE  IInv'
  <1>1. TypeOK'
    BY DEF IInv, TypeOK
  <1>2. StoredSound'
    BY DEF IInv, StoredSound
  <1>3. \A d \in Clients \ {c} : op'[d] = op[d] /\ calls'[d] = calls[d]
    BY DEF IInv, TypeOK
  <1>4. \A d \in Clients : ClientInv(d)'
    BY <1>3 DEF IInv, ClientInv, CallFits, CopyFresh, LandedStored, LandingsFit, OneCommandAway
  <1> QED
    BY <1>1, <1>2, <1>4 DEF IInv

LEMMA CommitKeeps ==
    ASSUME IInv, NEW c \in Clients, Commit(c)
    PROVE  IInv'
  <1> DEFINE s == [op[c] EXCEPT !.at = "wait"]
             call == [expected |-> op[c].base, content |-> op[c].copy, landed |-> FALSE]
  <1>1. op[c] \in CommitState /\ op[c].at = "commit"
    BY OpFields DEF Commit, At, IInv, TypeOK
  <1>2. s \in Op
    <2>1. s \in CommitState
      BY <1>1 DEF CommitState
    <2> QED
      BY <2>1 DEF Op, CommitState
  <1>3. /\ s.at = "wait" /\ s.cmd = op[c].cmd /\ s.landings = op[c].landings
        /\ s.base = op[c].base /\ s.copy = op[c].copy
    BY <1>1 DEF CommitState
  <1>4. call \in [expected : Nat, content : Logbook, landed : BOOLEAN]
    BY <1>1 DEF CommitState
  <1>5. /\ op' = [op EXCEPT ![c] = s] /\ calls' = [calls EXCEPT ![c] = call]
        /\ UNCHANGED <<version, book, reply, late>>
    BY DEF Commit, Store!Submit
  <1>6. /\ call.expected = op[c].base /\ call.content = op[c].copy /\ ~call.landed
    OBVIOUS
  <1>7. calls[c] = NoCall /\ ~calls[c].landed
    BY <1>1, NoCallUnlanded DEF IInv, ClientInv, CallFits
  <1> HIDE DEF s, call
  <1>8. op'[c] = s /\ calls'[c] = call
    BY <1>5 DEF IInv, TypeOK
  <1>9. LateFresh'
    BY <1>5 DEF IInv, LateFresh, OneCommandAway
  <1>10. ClientInv(c)
    BY DEF IInv
  <1>11. CallFits(c)' /\ LandedStored(c)' /\ LandingsFit(c)'
    BY <1>1, <1>3, <1>5, <1>6, <1>8, <1>10
    DEF ClientInv, CallFits, LandedStored, LandingsFit
  <1>12. CopyFresh(c)'
    <2>1. op[c].base <= version /\ (op[c].base = version => OneCommandAway(op[c].copy))
      BY <1>1, <1>7, <1>10 DEF ClientInv, CopyFresh
    <2> QED
      BY <1>3, <1>5, <1>8, <2>1 DEF CopyFresh, OneCommandAway
  <1> QED
    BY <1>2, <1>4, <1>5, <1>9, <1>11, <1>12, CallStep DEF ClientInv, IInv, TypeOK

\* Why no interleaving hurts: a call lands only at the version its copy was made from,
\* so that it lands on the logbook it was made from.
LEMMA LandIsOneCommand ==
    ASSUME IInv, NEW c \in Clients, Land(c)
    PROVE  /\ op[c] \in CommitState /\ op[c].at = "wait" /\ ~calls[c].landed
           /\ op[c].base = version /\ version' = version + 1
           /\ book' = op[c].copy /\ OneCommandAway(book')
           /\ op[c].landings = 0
  <1>1. op[c] \in CommitState /\ op[c].at = "wait"
    BY OpFields DEF Land, At, IInv, TypeOK
  <1>2. /\ ~calls[c].landed /\ calls[c].expected = version
        /\ version' = version + 1 /\ book' = calls[c].content
    BY DEF Land, Store!Land
  <1>3. ClientInv(c)
    BY DEF IInv
  <1>4. calls[c].expected = op[c].base /\ calls[c].content = op[c].copy /\ op[c].landings = 0
    BY <1>1, <1>2, <1>3 DEF ClientInv, CallFits, LandingsFit
  <1>5. OneCommandAway(op[c].copy)
    BY <1>1, <1>2, <1>3, <1>4 DEF ClientInv, CopyFresh
  <1> QED
    BY <1>1, <1>2, <1>4, <1>5

\* When a commit lands, no other call can any more.
LEMMA OthersOutdated ==
    ASSUME IInv, version' = version + 1, NEW d \in Clients,
           op'[d] = op[d], calls'[d] = calls[d]
    PROVE  ClientInv(d)'
  <1>1. version \in Nat /\ op[d] \in Op
    BY DEF IInv, TypeOK
  <1>2. op[d].at \in {"commit", "wait"} => op[d].base \in Nat
    BY <1>1, OpFields DEF CommitState
  <1>3. ClientInv(d)
    BY DEF IInv
  <1>4. CallFits(d)' /\ LandingsFit(d)'
    BY <1>3 DEF ClientInv, CallFits, LandingsFit
  <1>5. CopyFresh(d)'
    <2>1. op[d].at \in {"commit", "wait"} /\ ~calls[d].landed => op[d].base <= version
      BY <1>3 DEF ClientInv, CopyFresh
    <2> QED
      BY <1>1, <1>2, <2>1 DEF CopyFresh
  <1>6. LandedStored(d)'
    <2>1. op[d].at = "wait" /\ calls[d].landed => op[d].base < version
      BY <1>3 DEF ClientInv, LandedStored
    <2> QED
      BY <1>1, <1>2, <2>1 DEF LandedStored
  <1> QED
    BY <1>4, <1>5, <1>6 DEF ClientInv

LEMMA LandKeeps ==
    ASSUME IInv, NEW c \in Clients, Land(c)
    PROVE  IInv'
  <1>1. /\ op[c] \in CommitState /\ op[c].at = "wait" /\ op[c].base = version
        /\ version' = version + 1 /\ book' = op[c].copy /\ OneCommandAway(book')
        /\ op[c].landings = 0
    BY LandIsOneCommand
  <1>2. /\ op' = [op EXCEPT ![c].landings = @ + 1]
        /\ calls' = [calls EXCEPT ![c].landed = TRUE] /\ late' = {} /\ reply' = reply
    BY DEF Land, Store!Land
  <1>3. calls[c] \in [expected : Nat, content : Logbook, landed : BOOLEAN]
    <2>1. calls[c] # NoCall
      BY DEF Land, Store!Land
    <2> QED
      BY <2>1 DEF IInv, TypeOK
  <1> DEFINE s == [op[c] EXCEPT !.landings = op[c].landings + 1]
             call == [calls[c] EXCEPT !.landed = TRUE]
  <1>4. s \in CommitState
    BY <1>1 DEF CommitState
  <1>5. /\ s.at = "wait" /\ s.cmd = op[c].cmd /\ s.landings = 1
        /\ s.base = op[c].base /\ s.copy = op[c].copy
    BY <1>1 DEF CommitState
  <1>6. /\ call \in [expected : Nat, content : Logbook, landed : BOOLEAN]
        /\ call.expected = calls[c].expected /\ call.content = calls[c].content /\ call.landed
    BY <1>3
  <1>7. op' = [op EXCEPT ![c] = s] /\ calls' = [calls EXCEPT ![c] = call]
    BY <1>2 DEF IInv, TypeOK
  <1> HIDE DEF s, call
  <1>8. /\ op'[c] = s /\ calls'[c] = call
        /\ \A d \in Clients \ {c} : op'[d] = op[d] /\ calls'[d] = calls[d]
    BY <1>7 DEF IInv, TypeOK
  <1>9. SoundBook(book')
    BY <1>1, OneCommandAwaySound DEF IInv
  <1>10. s \in Op
    BY <1>4 DEF Op, CommitState
  <1>11. TypeOK'
    <2>1. TypeOK
      BY DEF IInv
    <2>2. version' \in Nat /\ book' \in Logbook /\ reply' \in Store!Replies
      BY <1>1, <1>2, <1>9, <2>1 DEF TypeOK, SoundBook
    <2>3. op' \in [Clients -> Op]
      BY <1>7, <1>10, <2>1 DEF TypeOK
    <2>4. calls' \in [Clients -> {NoCall} \cup [expected : Nat, content : Logbook,
                                                landed : BOOLEAN]]
      BY <1>6, <1>7, <2>1 DEF TypeOK
    <2> QED
      BY <1>2, <2>2, <2>3, <2>4 DEF TypeOK
  <1>12. StoredSound' /\ LateFresh'
    BY <1>2, <1>9 DEF StoredSound, SoundBook, LateFresh
  <1>13. ClientInv(c)'
    <2>1. /\ op[c].cmd \in CommandsOf[c] /\ calls[c].expected = op[c].base
          /\ calls[c].content = op[c].copy
      BY <1>1 DEF IInv, ClientInv, CallFits
    <2>2. version \in Nat
      BY DEF IInv, TypeOK
    <2>3. LandedStored(c)'
      BY <1>1, <1>5, <1>8, <2>2 DEF LandedStored
    <2> QED
      BY <1>5, <1>6, <1>8, <2>1, <2>3 DEF ClientInv, CallFits, CopyFresh, LandingsFit
  <1> QED
    BY <1>1, <1>8, <1>11, <1>12, <1>13, OthersOutdated DEF IInv

\* A call that timed out lands on the logbook its copy was made from, too.
LEMMA StraggleKeeps ==
    ASSUME IInv, Straggle
    PROVE  IInv' /\ OneCommandAway(book')
  <1>1. PICK call \in late : Store!LandLate(call)
    BY DEF Straggle
  <1>2. /\ call.expected = version /\ version' = version + 1 /\ book' = call.content
        /\ late' = {} /\ UNCHANGED <<calls, reply, op>>
    BY <1>1 DEF Store!LandLate, Straggle
  <1>3. OneCommandAway(book')
    BY <1>2 DEF IInv, LateFresh
  <1>4. SoundBook(book')
    BY <1>3, OneCommandAwaySound DEF IInv
  <1>5. TypeOK' /\ StoredSound' /\ LateFresh'
    BY <1>2, <1>4 DEF IInv, TypeOK, StoredSound, SoundBook, LateFresh
  <1>6. \A d \in Clients : ClientInv(d)'
    BY <1>2, OthersOutdated
  <1> QED
    BY <1>3, <1>5, <1>6 DEF IInv

\* An answer ends the call; a failed one that did not land may leave it behind.
LEMMA ReturnProperties ==
    ASSUME IInv, NEW c \in Clients, op[c].at = "wait",
           NEW answer \in {"ok", "conflict", "failed"}, Store!Return(c, answer)
    PROVE  /\ calls' = [calls EXCEPT ![c] = NoCall]
           /\ UNCHANGED <<version, book>> /\ reply' \in Store!Replies
           /\ late' \subseteq [expected : Nat, content : Logbook]
           /\ LateFresh'
           /\ answer = "conflict" => op[c].landings = 0
  <1>1. /\ calls' = [calls EXCEPT ![c] = NoCall] /\ UNCHANGED <<version, book>>
        /\ reply' = answer /\ calls[c] # NoCall
        /\ answer = "conflict" => ~calls[c].landed
    BY DEF Store!Return
  <1>2. \/ late' = late
        \/ /\ ~calls[c].landed
           /\ late' = late \cup {[expected |-> calls[c].expected,
                                  content |-> calls[c].content]}
    BY DEF Store!Return
  <1>3. calls[c] \in [expected : Nat, content : Logbook, landed : BOOLEAN]
    BY <1>1 DEF IInv, TypeOK
  <1>4. /\ calls[c].expected = op[c].base /\ calls[c].content = op[c].copy
        /\ op[c].landings = IF calls[c].landed THEN 1 ELSE 0
    BY DEF IInv, ClientInv, CallFits, LandingsFit
  <1>5. ~calls[c].landed => /\ calls[c].expected <= version
                            /\ calls[c].expected = version => OneCommandAway(calls[c].content)
    BY <1>4 DEF IInv, ClientInv, CopyFresh
  <1>6. LateFresh'
    <2>1. ASSUME NEW call \in late'
          PROVE  call.expected <= version /\ (call.expected = version =>
                                                  OneCommandAway(call.content))
      BY <1>2, <1>5, <2>1 DEF IInv, LateFresh
    <2> QED
      BY <1>1, <2>1 DEF LateFresh, OneCommandAway
  <1>7. late' \subseteq [expected : Nat, content : Logbook]
    BY <1>2, <1>3 DEF IInv, TypeOK
  <1> QED
    BY <1>1, <1>4, <1>6, <1>7 DEF Store!Replies

LEMMA ReturnKeeps ==
    ASSUME IInv, NEW c \in Clients, Committed(c) \/ CommitFails(c)
    PROVE  IInv'
  <1>1. PICK answer \in {"ok", "conflict", "failed"} :
            /\ Store!Return(c, answer)
            /\ Ends(c) \/ (answer = "conflict" /\ op[c].attempt = 1 /\ Again(c))
    BY DEF Committed, CommitFails, Retries
  <1>2. op[c].at = "wait"
    BY DEF Committed, CommitFails, At
  <1>3. /\ calls' = [calls EXCEPT ![c] = NoCall]
        /\ UNCHANGED <<version, book>> /\ reply' \in Store!Replies
        /\ late' \subseteq [expected : Nat, content : Logbook]
        /\ LateFresh'
        /\ answer = "conflict" => op[c].landings = 0
    BY <1>1, <1>2, ReturnProperties
  <1>4. calls'[c] = NoCall
    BY <1>3 DEF IInv, TypeOK
  <1>5. CASE Ends(c)
    <2>1. Idle \in Op /\ Idle.at = "idle"
      BY DEF Idle, Op
    <2>2. op'[c] = Idle
      BY <1>5 DEF Ends, IInv, TypeOK
    <2>3. ClientInv(c)'
      BY <1>4, <2>1, <2>2 DEF ClientInv, CallFits, CopyFresh, LandedStored, LandingsFit
    <2> QED
      BY <1>3, <1>5, <2>1, <2>3, CallStep DEF Ends
  <1>6. CASE answer = "conflict" /\ op[c].attempt = 1 /\ Again(c)
    <2> DEFINE s == [at |-> "read", cmd |-> op[c].cmd, attempt |-> 2,
                     landings |-> op[c].landings]
    <2>1. op[c] \in CommitState /\ op[c].cmd \in CommandsOf[c]
      BY <1>2, OpFields DEF IInv, TypeOK, ClientInv, CallFits
    <2>2. s \in Op
      <3>1. s \in ReadState
        BY <2>1 DEF ReadState, CommitState
      <3> QED
        BY <3>1 DEF Op, ReadState
    <2>3. s.at = "read" /\ s.cmd = op[c].cmd /\ s.landings = 0
      BY <1>3, <1>6
    <2>4. op' = [op EXCEPT ![c] = s]
      <3>1. op[c].attempt + 1 = 2
        BY <1>6
      <3> QED
        BY <1>6, <3>1 DEF Again
    <2> HIDE DEF s
    <2>5. op'[c] = s
      BY <2>4 DEF IInv, TypeOK
    <2>6. ClientInv(c)'
      BY <1>4, <2>1, <2>3, <2>5 DEF ClientInv, CallFits, CopyFresh, LandedStored, LandingsFit
    <2> QED
      BY <1>3, <2>2, <2>4, <2>6, CallStep
  <1> QED
    BY <1>1, <1>5, <1>6

----------------------------------------------------------------------------
(* The invariant, and what follows from it. *)

LEMMA InitKeeps == Init => IInv
  <1> SUFFICES ASSUME Init PROVE IInv
    OBVIOUS
  <1>1. /\ version = 0 /\ book = NewLogbook /\ late = {} /\ reply = "none"
        /\ calls = [c \in Clients |-> NoCall] /\ op = [c \in Clients |-> Idle]
    BY DEF Init, Store!Init
  <1>2. Idle \in Op /\ Idle.at = "idle"
    BY DEF Idle, Op
  <1>3. TypeOK
    BY <1>1, <1>2, NewLogbookSound DEF TypeOK, Store!Replies
  <1>4. StoredSound /\ LateFresh
    BY <1>1, NewLogbookSound DEF StoredSound, LateFresh
  <1>5. \A c \in Clients : ClientInv(c)
    BY <1>1, <1>2 DEF ClientInv, CallFits, CopyFresh, LandedStored, LandingsFit
  <1> QED
    BY <1>3, <1>4, <1>5 DEF IInv

THEOREM DevicesSoundness == Spec => []IInv
  <1>1. IInv /\ [Next]_vars => IInv'
    <2> SUFFICES ASSUME IInv, [Next]_vars
                 PROVE  IInv'
      OBVIOUS
    <2>1. ASSUME NEW c \in Clients, ClientNext(c)
          PROVE  IInv'
      BY <2>1, BeginKeeps, ApplyKeeps, GiveUpKeeps, CommitKeeps, LandKeeps, ReturnKeeps
      DEF ClientNext
    <2>2. CASE UNCHANGED vars
      BY <2>2 DEF vars, store, IInv, TypeOK, StoredSound, LateFresh, ClientInv, CallFits,
                  CopyFresh, LandedStored, LandingsFit, OneCommandAway
    <2> QED
      BY <2>1, <2>2, StraggleKeeps DEF Next
  <1> QED
    BY <1>1, InitKeeps, PTL DEF Spec

\* Every variable keeps its type.
THEOREM DevicesTyped == Spec => []TypeOK
  <1>1. IInv => TypeOK
    BY DEF IInv
  <1> QED
    BY <1>1, DevicesSoundness, PTL

\* Whatever is stored obeys the rules of a logbook: no two spans overlap, one timer runs
\* at most, and every reference resolves, although clients commit copies they made
\* without knowing of each other (validate in commit, and every command, see to it).
THEOREM StoredAlwaysSound == Spec => []StoredSound
  <1>1. IInv => StoredSound
    BY DEF IInv
  <1> QED
    BY <1>1, DevicesSoundness, PTL

\* A command takes effect at most once, also when mutate tries it again, and a client
\* that is told ok or conflict is told the truth.
THEOREM TakesEffectOnce == Spec => []NeverTwice
  <1>1. IInv => NeverTwice
    BY DEF IInv, NeverTwice, ClientInv, LandingsFit, At
  <1> QED
    BY <1>1, DevicesSoundness, PTL

\* The snapshot mutate hands back, made before the commit and never read again, is what
\* the store holds at the version it is handed back with.
THEOREM HandsBackWhatIsStored == Spec => []ReturnedIsStored
  <1>1. IInv => ReturnedIsStored
    BY AppAssumption DEF IInv, ReturnedIsStored, ClientInv, LandedStored, At, Returned
  <1> QED
    BY <1>1, DevicesSoundness, PTL

\* Clients that read, apply and commit copies of one store, some of them twice, implement
\* one logbook to which whole commands are applied one after the other.
THEOREM ClientsShareOneLogbook == Spec => ImplementsSharedLogbook
  <1>1. Init => Shared!Init
    BY DEF Init, Store!Init, Shared!Init
  <1>2. IInv /\ [Next]_vars => [Shared!Next]_book
    <2> SUFFICES ASSUME IInv, [Next]_vars
                 PROVE  [Shared!Next]_book
      OBVIOUS
    <2>1. OneCommandAway(book') => Shared!Next
      <3> SUFFICES ASSUME NEW d \in Clients, NEW cmd \in CommandsOf[d], NEW now \in Instants,
                          book' \in Outcomes(book, cmd, now)
                   PROVE  Shared!Next
        BY DEF OneCommandAway
      <3>1. cmd \in UNION {CommandsOf[c] : c \in Clients}
        OBVIOUS
      <3> QED
        BY <3>1 DEF Shared!Next
    <2>2. ASSUME NEW c \in Clients, ClientNext(c), ~Land(c)
          PROVE  UNCHANGED book
      BY <2>2 DEF ClientNext, Begin, Apply, ApplyFails, ReadFails, Abort, Commit,
                  CommitRefused, Committed, CommitFails, store, Store!Submit, Store!Return
    <2>3. UNCHANGED vars => UNCHANGED book
      BY DEF vars, store
    <2> QED
      BY <2>1, <2>2, <2>3, LandIsOneCommand, StraggleKeeps DEF Next
  <1> QED
    BY <1>1, <1>2, DevicesSoundness, PTL DEF Spec, ImplementsSharedLogbook, Shared!Spec
=============================================================================
