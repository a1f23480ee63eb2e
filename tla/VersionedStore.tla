--------------------------- MODULE VersionedStore ---------------------------
(***************************************************************************)
(* What StorageProvider promises (storage.rs): a store with a version and  *)
(* a content, and commits that land only against the version they expect.  *)
(*                                                                         *)
(* A call that lands raises the version by one, exactly once, and nothing  *)
(* else changes the store.  `ok` means it landed, `conflict` means it did  *)
(* not; `failed`, any other error, leaves it open, and such a call may    *)
(* even land later, but like any other only at the version it expects.    *)
(***************************************************************************)
EXTENDS Naturals

CONSTANTS Callers, Contents, EmptyContent, NoCall,
          Versions          \* what a caller may expect

VARIABLES version, content, calls,
          reply,            \* the last answer given, whoever got it
          late              \* calls that failed and may still land

vars == <<version, content, calls, reply, late>>

Replies == {"none", "ok", "conflict", "failed"}

Init ==
    /\ version = 0
    /\ content = EmptyContent
    /\ calls = [c \in Callers |-> NoCall]
    /\ reply = "none"
    /\ late = {}

Submit(c, expected, new) ==
    /\ calls[c] = NoCall
    /\ calls' = [calls EXCEPT ![c] = [expected |-> expected, content |-> new,
                                      landed |-> FALSE]]
    /\ UNCHANGED <<version, content, reply, late>>

\* The commit takes effect. No late call expects the version it leaves behind.
Land(c) ==
    /\ calls[c] # NoCall
    /\ ~calls[c].landed
    /\ calls[c].expected = version
    /\ version' = version + 1
    /\ content' = calls[c].content
    /\ calls' = [calls EXCEPT ![c].landed = TRUE]
    /\ late' = {}
    /\ UNCHANGED reply

Return(c, answer) ==
    /\ calls[c] # NoCall
    /\ answer = "ok" => calls[c].landed
    /\ answer = "conflict" => ~calls[c].landed
    /\ calls' = [calls EXCEPT ![c] = NoCall]
    /\ reply' = answer
    /\ \/ UNCHANGED late
       \/ /\ answer = "failed"
          /\ ~calls[c].landed
          /\ late' = late \cup {[expected |-> calls[c].expected,
                                content |-> calls[c].content]}
    /\ UNCHANGED <<version, content>>

LandLate(call) ==
    /\ call.expected = version
    /\ version' = version + 1
    /\ content' = call.content
    /\ late' = {}
    /\ UNCHANGED <<calls, reply>>

\* A late call may also never arrive.
Forget ==
    /\ late' = {}
    /\ UNCHANGED <<version, content, calls, reply>>

Next ==
    \/ \E c \in Callers :
           \/ \E expected \in Versions, new \in Contents : Submit(c, expected, new)
           \/ Land(c)
           \/ \E answer \in Replies \ {"none"} : Return(c, answer)
    \/ \E call \in late : LandLate(call)
    \/ Forget

Spec == Init /\ [][Next]_vars
=============================================================================
