--------------------------- MODULE SharedLogbook ----------------------------
(***************************************************************************)
(* What the clients of one store promise together: a single logbook to    *)
(* which whole commands are applied, one after the other.  However many    *)
(* devices read, mutate and commit at once, every change of the stored     *)
(* logbook is one command applied to the logbook as it was just before.    *)
(***************************************************************************)
CONSTANTS
    Offered,             \* the commands the clients give
    Clock,               \* the instants their clocks may show
    Outcomes(_, _, _),   \* what a command may make of a logbook at an instant
    NewLogbook           \* the logbook before the first command

VARIABLE book

Init == book = NewLogbook

Next == \E cmd \in Offered, now \in Clock : book' \in Outcomes(book, cmd, now)

Spec == Init /\ [][Next]_book
=============================================================================
