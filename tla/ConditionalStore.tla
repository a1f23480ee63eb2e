-------------------------- MODULE ConditionalStore --------------------------
(***************************************************************************)
(* What BlobStore promises (blob.rs): one object, whole reads, and puts    *)
(* that take effect at one instant and only on the object they expect.     *)
(*                                                                         *)
(* A put takes effect once at most, and not after it has ended.  Provider  *)
(* takes no more than this for granted of its blob.                        *)
(***************************************************************************)
CONSTANTS Clients, Objects,
          Absent            \* there is no object; none of Objects

VARIABLES stored,
          calls,            \* the put a client is in
          seen              \* what a client knows to have been stored

vars == <<stored, calls, seen>>

NoCall == [base |-> Absent, object |-> Absent]

Init ==
    /\ stored = Absent
    /\ calls = [c \in Clients |-> NoCall]
    /\ seen = [c \in Clients |-> Absent]

Ends(c) == calls' = [calls EXCEPT ![c] = NoCall]

Read(c) ==
    /\ calls[c] = NoCall
    /\ seen' = [seen EXCEPT ![c] = stored]
    /\ UNCHANGED <<stored, calls>>

\* IfMatch of what the client has seen, or IfAbsent.
Begin(c, base, object) ==
    /\ calls[c] = NoCall
    /\ calls' = [calls EXCEPT ![c] = [base |-> base, object |-> object]]
    /\ seen' = [seen EXCEPT ![c] = Absent]
    /\ UNCHANGED stored

\* The put takes effect. The client learns that it has, unless it does not ask.
Land(c) ==
    /\ calls[c] # NoCall
    /\ stored = calls[c].base
    /\ stored' = calls[c].object
    /\ Ends(c)
    /\ \E known \in {calls[c].object, Absent} : seen' = [seen EXCEPT ![c] = known]

\* A conflict or any other error: there was no effect, and the client learns nothing.
Fail(c) ==
    /\ calls[c] # NoCall
    /\ Ends(c)
    /\ UNCHANGED <<stored, seen>>

\* A client that dies forgets everything; its put has landed by now, or never will.
Crash(c) ==
    /\ Ends(c)
    /\ seen' = [seen EXCEPT ![c] = Absent]
    /\ UNCHANGED stored

Next ==
    \E c \in Clients :
        \/ Read(c)
        \/ \E base \in {seen[c], Absent}, object \in Objects : Begin(c, base, object)
        \/ Land(c) \/ Fail(c) \/ Crash(c)

Spec == Init /\ [][Next]_vars
=============================================================================
