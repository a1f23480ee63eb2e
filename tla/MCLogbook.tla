----------------------------- MODULE MCLogbook ------------------------------
(* Instances of Logbook for TLC. *)
EXTENDS LogbookCommands, Reports, TLC

\* "ss" and "SS" differ only in case; casefold, unlike to_lowercase, takes "sz" for "ss".
MCLower == [n \in Names |-> IF n = "SS" THEN "ss" ELSE n]
MCFold == [n \in Names |-> IF n \in {"SS", "sz"} THEN "ss" ELSE n]

\* Projects are interchangeable, and so are tags: only span ids have an order.
MCSymmetry == Permutations(ProjectIds) \cup Permutations(TagIds)

\* The timeline alone, on a catalogue that is already there.
TimelineInit ==
    book = [NewLogbook EXCEPT
        !.projects = [p \in ProjectIds |-> [name |-> CHOOSE n \in Names : TRUE,
                                            client |-> None, archived |-> FALSE]],
        !.tags = [t \in TagIds |-> [name |-> CHOOSE n \in Names : TRUE,
                                    archived |-> FALSE]]]
TimelineSpec == TimelineInit /\ [][TimelineNext]_book

----------------------------------------------------------------------------
(* The commands tried on each logbook. *)

\* Two instants are enough to fall before, into and after a span that is there.
Whens == {1, 3} \cap Instants
Refs == {None, -1, -2} \cup SpanIds
Whats == {what : what \in ByIds \cup ByNames}

TimelineCommands == {cmd : cmd \in
    [op : {"start", "switch"}, what : Whats, at : Whens, text : {None}]
    \cup [op : {"stop"}, at : Whens, text : {None}]
    \cup [op : {"resume"}, span : Refs, at : Whens, text : {None}]
    \cup CancelCommand
    \cup [op : {"add"}, what : Whats, from : Whens, to : Whens, text : {None}]
    \cup [op : {"edit"}, span : SpanIds, from : OrNone(Whens), to : OrNone(Whens),
          project : OrNone(ProjectIds), tags : {{}}, unassign : {FALSE}, text : {None}]
    \cup [op : {"cliEdit"}, span : Refs, from : {None}, to : OrNone(Whens),
          what : {what \in ByNames : what.project = None}, untag : {None}, unassign : {TRUE}, text : {None}]
    \cup [op : {"remove"}, span : Refs \ {None}]}

\* The commands that are several mutations, by the app and by the CLI: each with every
\* project and tag, and once with every text.
Picks == [named : {FALSE}, project : OrNone(ProjectIds), tags : {{}, TagIds}]
Nothing == [named |-> TRUE, project |-> None, tag |-> None]
AppEdit == [op |-> "edit", span |-> 1, from |-> None, to |-> None, project |-> None,
            tags |-> {}, unassign |-> FALSE, text |-> None]
CliEdit == [op |-> "cliEdit", span |-> -1, from |-> None, to |-> None, what |-> Nothing,
            untag |-> None, unassign |-> FALSE, text |-> None]

CatalogueCommands ==
    [op : {"start"}, what : ByNames \cup Picks, at : {0}, text : {None}]
    \cup [op : {"start"}, what : {Nothing}, at : {0}, text : Texts]
    \cup [op : {"switch"}, what : Picks, at : {1}, text : {None}]
    \cup [op : {"add"}, what : Picks, from : {0}, to : {1}, text : {None}]
    \cup {edit \in {[AppEdit EXCEPT !.project = p, !.tags = ts, !.unassign = u] :
                        p \in OrNone(ProjectIds), ts \in {{}, {{}}, {TagIds}}, u \in BOOLEAN} :
              edit \in EditCommand}
    \cup {[AppEdit EXCEPT !.to = to, !.text = text] : to \in {None, 1}, text \in Texts}
    \cup {edit \in {[CliEdit EXCEPT !.what = what, !.unassign = u] : what \in ByNames, u \in BOOLEAN} :
              edit \in CliEditCommand}
    \cup {[CliEdit EXCEPT !.what.tag = tag, !.untag = untag] : tag \in OrNone(Names), untag \in Names}

----------------------------------------------------------------------------
(* Reports: two instants to a day. *)

MCDay == [t \in Instants |-> t \div 2]
MCMidnight == [d \in {MCDay[t] : t \in Instants} \cup {MCDay[t] + 1 : t \in Instants} |-> 2 * d]

\* Everything, a shortcut, and ranges that begin or end within a span and within a day.
Everything == [range |-> None, from |-> None, to |-> None, projects |-> {}, tags |-> {},
               ignore_projects |-> {}, ignore_tags |-> {}, include_current |-> TRUE]
Queries == {[filters |-> f, now |-> 3] :
    f \in {Everything, [Everything EXCEPT !.range = "day"], [Everything EXCEPT !.range = "week"],
           [Everything EXCEPT !.from = 1, !.to = 3, !.include_current = FALSE],
           [Everything EXCEPT !.from = 1, !.projects = Names],
           [Everything EXCEPT !.to = 4, !.ignore_projects = Names]}}
=============================================================================
