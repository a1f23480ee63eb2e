------------------------------ MODULE Commands ------------------------------
(***************************************************************************)
(* The commands a client applies to a logbook it has read: the methods of  *)
(* CoswStore (contextswitch-uniffi, what the Android app calls) and the    *)
(* commands of `cosw` (the CLI).  A command is several mutations of Domain *)
(* in a row, some on what an earlier one created; it works on a copy, so   *)
(* an error in the middle leaves nothing behind.                           *)
(*                                                                         *)
(* Outcomes(b, cmd, now) is the set of logbooks cmd can make of b: one per *)
(* choice of fresh ids, none when the command fails.  `now` is the client's *)
(* clock.  A record with named = TRUE is the CLI's and refers to projects  *)
(* and tags by name; the other is the app's and refers to them by id.      *)
(***************************************************************************)
EXTENDS Domain

CONSTANT Fold       \* Fold[n] is n.casefold(), what the CLI compares names by

ASSUME SpanRefAssumption == SpanIds \subseteq Nat

UnusedSpanIds(b) == SpanIds \ DOMAIN b.spans
UnusedProjectIds(b) == ProjectIds \ DOMAIN b.projects
UnusedTagIds(b) == TagIds \ DOMAIN b.tags

----------------------------------------------------------------------------
(* What a command says about a span. *)

\* project = None leaves the span unassigned. Bound: the CLI gives at most one tag.
ByIds == [named : {FALSE}, project : OrNone(ProjectIds), tags : SUBSET TagIds]
ByNames == [named : {TRUE}, project : OrNone(Names), tag : OrNone(Names)]

\* _find_by_name
Named(m, name) == {k \in DOMAIN m : Fold[m[k].name] = Fold[name]}

\* resolve_project_id: an archived project is refused, an unknown one created. The ids
\* are random, so the first of several matches is any of them.
ResolveProject(b, name) ==
    IF name = None THEN {[book |-> b, project |-> None]}
    ELSE IF Named(b.projects, name) # {}
    THEN {[book |-> b, project |-> k] :
              k \in {i \in Named(b.projects, name) : ~b.projects[i].archived}}
    ELSE {[book |-> ProjectAdded(b, k, name, None), project |-> k] :
              k \in {i \in UnusedProjectIds(b) : CanAddProject(b, name)}}

\* resolve_tag_ids, for at most one name.
ResolveTag(b, name) ==
    IF name = None THEN {[book |-> b, tags |-> {}]}
    ELSE IF Named(b.tags, name) # {}
    THEN {[book |-> b, tags |-> {k}] :
              k \in {i \in Named(b.tags, name) : ~b.tags[i].archived}}
    ELSE {[book |-> TagAdded(b, k, name), tags |-> {k}] :
              k \in {i \in UnusedTagIds(b) : CanAddTag(b, name)}}

\* The logbook after the names have been resolved, and what they stand for.
Classified(b, what) ==
    IF what.named
    THEN UNION {{[book |-> t.book, project |-> p.project, tags |-> t.tags] :
                     t \in ResolveTag(p.book, what.tag)} :
                p \in ResolveProject(b, what.project)}
    ELSE {[book |-> b, project |-> what.project, tags |-> what.tags]}

\* Mutant of Recency: the list is read from its other end.
RecencyFromFirst(b, i) == Cardinality({j \in DOMAIN b.spans : ~SortsBefore(b, i, j)})

\* `-1` is the span that started last, `-2` the one before it.
Recency(b, i) == Cardinality({j \in DOMAIN b.spans : ~SortsBefore(b, j, i)})

\* resolve_span: an id, a recency index, or nothing for the active or latest span.
Resolve(b, ref) ==
    IF ref = None /\ b.active_span_id # None THEN {b.active_span_id}
    ELSE IF ref = None THEN {i \in DOMAIN b.spans : Recency(b, i) = 1}
    ELSE {i \in DOMAIN b.spans : i = ref \/ -Recency(b, i) = ref}

\* set_span_description, or apply_description: a text of None was not given.
Describe(b, id, text) ==
    IF text = None THEN {b}
    ELSE {Described(c, id, text) : c \in {d \in {b} : CanDescribe(d, id, text)}}

----------------------------------------------------------------------------
(* The timer. at = None means the clock as it is when the command is applied; *)
(* the app's switch reads it once, before the first attempt: it gives `at`. *)

StartOutcomes(b, cmd, at) ==
    UNION {Describe(Started(c.book, id, at, c.project, c.tags), id, cmd.text) :
               c \in {d \in Classified(b, cmd.what) : CanStart(d.book, at, d.project, d.tags)},
               id \in UnusedSpanIds(b)}

\* Only the CLI describes, and it does so before it stops.
StopOutcomes(b, cmd, at) ==
    IF b.active_span_id = None THEN {}
    ELSE {Stopped(c, at) :
              c \in {d \in Describe(b, b.active_span_id, cmd.text) : CanStop(d, at)}}

SwitchOutcomes(b, cmd, at) ==
    UNION {Describe(Switched(c.book, id, at, c.project, c.tags), id, cmd.text) :
               c \in {d \in Classified(b, cmd.what) : CanSwitch(d.book, at, d.project, d.tags)},
               id \in UnusedSpanIds(b)}

\* Mutant of ResumeOutcomes: the copy is started without the checks of start_timer.
ResumeOutcomesUnchecked(b, cmd, at) ==
    UNION {{Started(b, id, at, b.spans[i].project_id, b.spans[i].tag_ids) :
                id \in UnusedSpanIds(b)} : i \in Resolve(b, cmd.span)}

\* Starts a copy of an earlier span; its description is copied unless one is given.
ResumeOutcomes(b, cmd, at) ==
    UNION {LET old == b.spans[i]
           IN  UNION {Describe(Started(b, id, at, old.project_id, old.tag_ids), id,
                               Or(cmd.text, old.description)) :
                          id \in {k \in UnusedSpanIds(b) :
                                     CanStart(b, at, old.project_id, old.tag_ids)}} :
           i \in Resolve(b, cmd.span)}

\* With no active timer the app's cancel commits the logbook as it is; the CLI refuses.
CancelOutcomes(b, cmd) ==
    IF b.active_span_id # None THEN {Removed(b, b.active_span_id)}
    ELSE IF cmd.named THEN {} ELSE {b}

----------------------------------------------------------------------------
(* The history. *)

AddOutcomes(b, cmd) ==
    UNION {Describe(Added(c.book, id, cmd.from, cmd.to, c.project, c.tags), id, cmd.text) :
               c \in {d \in Classified(b, cmd.what) :
                         CanAdd(d.book, cmd.from, cmd.to, d.project, d.tags)},
               id \in UnusedSpanIds(b)}

\* Mutant of EditOutcomes: "keep the project", passed on as None, is taken for "clear".
EditOutcomesClearing(b, cmd) ==
    IF ~CanEdit(b, cmd.span, cmd.from, cmd.to, cmd.project, cmd.tags) THEN {}
    ELSE LET edited == Edited(b, cmd.span, cmd.from, cmd.to, cmd.project, cmd.tags)
         IN  Describe(IF cmd.project = None THEN Unassigned(edited, cmd.span) ELSE edited,
                      cmd.span, cmd.text)

\* CoswStore::edit_span: edit, then unassign, then describe.
EditOutcomes(b, cmd) ==
    IF ~CanEdit(b, cmd.span, cmd.from, cmd.to, cmd.project, cmd.tags) THEN {}
    ELSE LET edited == Edited(b, cmd.span, cmd.from, cmd.to, cmd.project, cmd.tags)
         IN  Describe(IF cmd.unassign THEN Unassigned(edited, cmd.span) ELSE edited,
                      cmd.span, cmd.text)

\* The tag set `cosw edit` passes on: nothing when no tag was named; the tag taken
\* away must be one the span has by then.
Retagged(b, id, what, added, untag) ==
    LET tags == b.spans[id].tag_ids \cup added
    IN  IF untag = None THEN {IF what.tag = None THEN {} ELSE {tags}}
        ELSE {{tags \ {k}} : k \in Named(b.tags, untag) \cap tags}

\* `cosw edit`: unassign, resolve, edit, describe.
CliEditOutcomes(b, cmd) ==
    UNION {LET base == IF cmd.unassign THEN Unassigned(b, i) ELSE b
           IN  UNION {UNION {EditOutcomes(c.book, [span |-> i, from |-> cmd.from, to |-> cmd.to,
                                                  project |-> c.project, tags |-> newTags,
                                                  unassign |-> FALSE, text |-> cmd.text]) :
                                 newTags \in Retagged(c.book, i, cmd.what, c.tags, cmd.untag)} :
                      c \in Classified(base, cmd.what)} :
           i \in Resolve(b, cmd.span)}

RemoveOutcomes(b, cmd) == {Removed(b, i) : i \in Resolve(b, cmd.span)}

----------------------------------------------------------------------------
(* The catalogue: the app names an entry by id, the CLI by name. *)

Meant(m, cmd) == IF cmd.named THEN Named(m, cmd.item) ELSE {cmd.item} \cap DOMAIN m

AddProjectOutcomes(b, cmd) ==
    {ProjectAdded(b, k, cmd.name, cmd.text) :
         k \in {i \in UnusedProjectIds(b) : CanAddProject(b, cmd.name)}}

RenameProjectOutcomes(b, cmd) ==
    {ProjectRenamed(b, k, cmd.name) :
         k \in {i \in Meant(b.projects, cmd) : CanRenameProject(b, i, cmd.name)}}

ClientOutcomes(b, cmd) == {ProjectClientSet(b, k, cmd.text) : k \in Meant(b.projects, cmd)}

ArchiveProjectOutcomes(b, cmd) ==
    {ProjectArchivedSet(b, k, cmd.archived) : k \in Meant(b.projects, cmd)}

AddTagOutcomes(b, cmd) ==
    {TagAdded(b, k, cmd.name) : k \in {i \in UnusedTagIds(b) : CanAddTag(b, cmd.name)}}

RenameTagOutcomes(b, cmd) ==
    {TagRenamed(b, k, cmd.name) :
         k \in {i \in Meant(b.tags, cmd) : CanRenameTag(b, i, cmd.name)}}

ArchiveTagOutcomes(b, cmd) == {TagArchivedSet(b, k, cmd.archived) : k \in Meant(b.tags, cmd)}

----------------------------------------------------------------------------
(* The commands. *)

StartCommand == [op : {"start", "switch"}, what : ByIds \cup ByNames, at : OrNone(Instants),
                 text : OrNone(Texts)]
StopCommand == [op : {"stop"}, at : OrNone(Instants), text : OrNone(Texts)]
ResumeCommand == [op : {"resume"}, span : OrNone(Int), at : OrNone(Instants),
                  text : OrNone(Texts)]
CancelCommand == [op : {"cancel"}, named : BOOLEAN]
AddCommand == [op : {"add"}, what : ByIds \cup ByNames, from : Instants, to : Instants,
               text : OrNone(Texts)]
\* A ProjectEdit keeps (project = None), sets or clears (unassign).
EditCommand ==
    {cmd \in [op : {"edit"}, span : SpanIds, from : OrNone(Instants), to : OrNone(Instants),
              project : OrNone(ProjectIds), tags : {{}} \cup {{ts} : ts \in SUBSET TagIds},
              unassign : BOOLEAN, text : OrNone(Texts)] : cmd.unassign => cmd.project = None}
\* A command line that asks for nothing, or to assign and unassign, is refused.
CliEditCommand ==
    {cmd \in [op : {"cliEdit"}, span : OrNone(Int), from : OrNone(Instants),
              to : OrNone(Instants), what : ByNames, untag : OrNone(Names),
              unassign : BOOLEAN, text : OrNone(Texts)] :
        /\ cmd.what.project # None => ~cmd.unassign
        /\ \/ cmd.unassign
           \/ \E given \in {cmd.from, cmd.to, cmd.what.project, cmd.what.tag, cmd.untag,
                            cmd.text} : given # None}
RemoveCommand == [op : {"remove"}, span : Int]
AddEntryCommand == [op : {"addProject", "addTag"}, name : Names, text : OrNone(Texts)]

\* An entry of the catalogue, by id or by name.
EntryCommand ==
    [op : {"renameProject", "renameTag", "client", "archiveProject", "archiveTag"},
     named : BOOLEAN, item : ProjectIds \cup TagIds \cup Names, name : Names,
     text : OrNone(Texts), archived : BOOLEAN]

Command == StartCommand \cup StopCommand \cup ResumeCommand \cup CancelCommand
               \cup AddCommand \cup EditCommand \cup CliEditCommand \cup RemoveCommand
               \cup AddEntryCommand \cup EntryCommand

Outcomes(b, cmd, now) ==
    CASE cmd.op = "start" -> StartOutcomes(b, cmd, Or(cmd.at, now))
      [] cmd.op = "stop" -> StopOutcomes(b, cmd, Or(cmd.at, now))
      [] cmd.op = "switch" -> SwitchOutcomes(b, cmd, Or(cmd.at, now))
      [] cmd.op = "resume" -> ResumeOutcomes(b, cmd, Or(cmd.at, now))
      [] cmd.op = "cancel" -> CancelOutcomes(b, cmd)
      [] cmd.op = "add" -> AddOutcomes(b, cmd)
      [] cmd.op = "edit" -> EditOutcomes(b, cmd)
      [] cmd.op = "cliEdit" -> CliEditOutcomes(b, cmd)
      [] cmd.op = "remove" -> RemoveOutcomes(b, cmd)
      [] cmd.op = "addProject" -> AddProjectOutcomes(b, cmd)
      [] cmd.op = "renameProject" -> RenameProjectOutcomes(b, cmd)
      [] cmd.op = "client" -> ClientOutcomes(b, cmd)
      [] cmd.op = "archiveProject" -> ArchiveProjectOutcomes(b, cmd)
      [] cmd.op = "addTag" -> AddTagOutcomes(b, cmd)
      [] cmd.op = "renameTag" -> RenameTagOutcomes(b, cmd)
      [] cmd.op = "archiveTag" -> ArchiveTagOutcomes(b, cmd)
=============================================================================
