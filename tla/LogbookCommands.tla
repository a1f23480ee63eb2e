-------------------------- MODULE LogbookCommands ---------------------------
(***************************************************************************)
(* The commands of the clients, given to every logbook that the mutations  *)
(* can build: what a whole command does, although each of its mutations    *)
(* only knows about itself.                                                *)
(***************************************************************************)
EXTENDS Logbook, Commands

CONSTANTS Given,    \* the commands tried on each logbook
          Clock     \* the instants the client's clock may show

ASSUME GivenAssumption == Given \subseteq Command /\ Clock \subseteq Instants

Made(cmd) == UNION {Outcomes(book, cmd, now) : now \in Clock}

\* No command leaves a logbook that breaks the rules: each mutation keeps them, but a
\* command builds on what it created and changed itself (start: the project and the tag
\* of names it has just added; edit: the span it has just unassigned).
CommandsKeepSound ==
    \A cmd \in Given : \A c \in Made(cmd) : Sound(c)

----------------------------------------------------------------------------
(* The spans a command is pointed at, without the CLI's sorted list: -1 is a span that *)
(* no other starts after, -2 one that at most one other starts after, and so on.       *)

StartLater(b, i) == {j \in DOMAIN b.spans : b.spans[i].started_at < b.spans[j].started_at}
StartNoSooner(b, i) == {j \in DOMAIN b.spans : b.spans[i].started_at <= b.spans[j].started_at}

PointedAt(b, ref) ==
    {i \in DOMAIN b.spans :
        \/ i = ref
        \/ /\ ref = None
           /\ i = b.active_span_id \/ (b.active_span_id = None /\ StartLater(b, i) = {})
        \/ /\ ref # None
           /\ Cardinality(StartLater(b, i)) < -ref
           /\ -ref <= Cardinality(StartNoSooner(b, i))}

Targets(b, cmd) == IF cmd.op \in {"edit", "cliEdit", "remove"} THEN PointedAt(b, cmd.span) ELSE {}

\* Time that has been recorded is lost only when it is removed, and moved only when it
\* is edited: no start, stop, switch, resume or cancel touches a span that has stopped,
\* and an edit or a remove touches no other span than the one it is pointed at, by an
\* id, by a recency index or by nothing (resolve_span).
RecordedTimeSurvives ==
    \A cmd \in Given : \A c \in Made(cmd) :
        \A i \in DOMAIN book.spans \ Targets(book, cmd) :
            book.spans[i].stopped_at # None =>
                i \in DOMAIN c.spans /\ c.spans[i] = book.spans[i]

----------------------------------------------------------------------------
(* What an edit asks of a span.  The app names projects and tags by id and replaces the *)
(* whole tag set; the CLI names them and adds or takes away one tag.                    *)

Called(m, k, name) == name # None /\ Fold[m[k].name] = Fold[name]

ProjectAsAsked(cmd, c, old, new) ==
    LET asked == IF cmd.op = "edit" THEN cmd.project ELSE cmd.what.project
    IN  \/ cmd.unassign /\ new.project_id = None
        \/ ~cmd.unassign /\ asked = None /\ new.project_id = old.project_id
        \/ /\ ~cmd.unassign /\ asked # None
           /\ IF cmd.op = "edit" THEN new.project_id = asked
              ELSE new.project_id # None /\ Called(c.projects, new.project_id, asked)

TagsAsAsked(cmd, c, old, new) ==
    IF cmd.op = "edit"
    THEN new.tag_ids = IF cmd.tags = {} THEN old.tag_ids ELSE UNION cmd.tags
    ELSE /\ \A k \in new.tag_ids \ old.tag_ids : Called(c.tags, k, cmd.what.tag)
         /\ \A k \in old.tag_ids \ new.tag_ids : Called(c.tags, k, cmd.untag)
         /\ cmd.what.tag # None =>
                \/ \E k \in new.tag_ids : Called(c.tags, k, cmd.what.tag)
                \/ cmd.untag # None /\ Fold[cmd.untag] = Fold[cmd.what.tag]

\* An edit leaves on its span everything it was asked for and nothing else, in whatever
\* order its mutations run: none of them (unassign, create, edit, describe) undoes what
\* another has just done, and "keep" is never taken for "clear" although the core knows
\* both as None (edit_span of CoswStore, edit of the CLI).
EditsDoWhatIsAsked ==
    \A cmd \in {e \in Given : e.op \in {"edit", "cliEdit"}} : \A c \in Made(cmd) :
        \E i \in Targets(book, cmd) :
            LET old == book.spans[i]
                new == c.spans[i]
            IN  /\ new.started_at = Or(cmd.from, old.started_at)
                /\ new.stopped_at = Or(cmd.to, old.stopped_at)
                /\ new.description = IF cmd.text = None THEN old.description
                                     ELSE Normalized(cmd.text)
                /\ ProjectAsAsked(cmd, c, old, new)
                /\ TagsAsAsked(cmd, c, old, new)
=============================================================================
