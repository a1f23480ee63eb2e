----------------------------- MODULE MCDevices ------------------------------
(* An app and a CLI on one logbook, with commands that disturb each other. *)
EXTENDS Devices

CONSTANTS phone, laptop, project, tag, note

\* "ss" and "SS" differ only in case; casefold, unlike to_lowercase, takes "sz" for "ss".
MCLower == [n \in Names |-> IF n = "SS" THEN "ss" ELSE n]
MCFold == [n \in Names |-> "ss"]

Ids == [named |-> FALSE, project |-> project, tags |-> {}]
Typed(p, t) == [named |-> TRUE, project |-> p, tag |-> t]

PhoneCommands ==
    {[op |-> "start", what |-> Ids, at |-> None, text |-> None],
     [op |-> "stop", at |-> None, text |-> None],
     [op |-> "switch", what |-> [Ids EXCEPT !.project = None], at |-> 1, text |-> None],
     [op |-> "cancel", named |-> FALSE],
     [op |-> "edit", span |-> 1, from |-> None, to |-> 1, project |-> None, tags |-> {},
      unassign |-> TRUE, text |-> note]}

LaptopCommands ==
    {[op |-> "start", what |-> Typed("SS", None), at |-> 0, text |-> note],
     [op |-> "stop", at |-> 1, text |-> note],
     [op |-> "resume", span |-> -1, at |-> 1, text |-> None],
     [op |-> "cancel", named |-> TRUE],
     [op |-> "add", what |-> Typed(None, "ss"), from |-> 0, to |-> 1, text |-> None],
     [op |-> "remove", span |-> -1],
     [op |-> "archiveProject", named |-> TRUE, item |-> "sz", name |-> "sz", text |-> None,
      archived |-> TRUE]}

MCCommandsOf == [c \in Clients |-> IF c \in Apps THEN PhoneCommands ELSE LaptopCommands]
=============================================================================
