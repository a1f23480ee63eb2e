------------------------------ MODULE Logbook -------------------------------
(***************************************************************************)
(* One logbook in memory and every mutation a client can apply to it       *)
(* (`impl Logbook` in domain.rs).  A mutation runs under &mut self, so it  *)
(* is one step; when it returns an error nothing changes, so no step.      *)
(* The callers choose instants freely: `cosw` accepts --at and back-dated  *)
(* history, so nothing makes `at` monotonic.                               *)
(***************************************************************************)
EXTENDS Domain

VARIABLE book

FreshSpanIds == SpanIds \ DOMAIN book.spans      \* Uuid::new_v4
FreshProjectIds == ProjectIds \ DOMAIN book.projects
FreshTagIds == TagIds \ DOMAIN book.tags

\* What a caller may pass for a project, the tags, a text.
ProjectArgs == OrNone(ProjectIds)
TagArgs == SUBSET TagIds
TextArgs == OrNone(Texts)

Init == book = NewLogbook

----------------------------------------------------------------------------
StartTimer == \E id \in FreshSpanIds, at \in Instants, p \in ProjectArgs, ts \in TagArgs :
    /\ CanStart(book, at, p, ts)
    /\ book' = Started(book, id, at, p, ts)

StopTimer == \E at \in Instants :
    /\ CanStop(book, at)
    /\ book' = Stopped(book, at)

SwitchTimer == \E id \in FreshSpanIds, at \in Instants, p \in ProjectArgs, ts \in TagArgs :
    /\ CanSwitch(book, at, p, ts)
    /\ book' = Switched(book, id, at, p, ts)

EditSpan == \E id \in SpanIds, start, stop \in OrNone(Instants), p \in ProjectArgs,
               newTags \in {{}} \cup {{ts} : ts \in TagArgs} :
    /\ CanEdit(book, id, start, stop, p, newTags)
    /\ book' = Edited(book, id, start, stop, p, newTags)

AddSpan == \E id \in FreshSpanIds, start, stop \in Instants, p \in ProjectArgs, ts \in TagArgs :
    /\ CanAdd(book, start, stop, p, ts)
    /\ book' = Added(book, id, start, stop, p, ts)

RemoveSpan == \E id \in SpanIds :
    /\ CanRemove(book, id)
    /\ book' = Removed(book, id)

SetSpanDescription == \E id \in SpanIds, text \in TextArgs :
    /\ CanDescribe(book, id, text)
    /\ book' = Described(book, id, text)

UnassignSpan == \E id \in SpanIds :
    /\ CanUnassign(book, id)
    /\ book' = Unassigned(book, id)

TimelineNext == StartTimer \/ StopTimer \/ SwitchTimer \/ EditSpan \/ AddSpan
                    \/ RemoveSpan \/ SetSpanDescription \/ UnassignSpan

----------------------------------------------------------------------------
AddProject == \E id \in FreshProjectIds, name \in Names, client \in TextArgs :
    /\ CanAddProject(book, name)
    /\ book' = ProjectAdded(book, id, name, client)

RenameProject == \E id \in ProjectIds, name \in Names :
    /\ CanRenameProject(book, id, name)
    /\ book' = ProjectRenamed(book, id, name)

SetProjectClient == \E id \in DOMAIN book.projects, client \in TextArgs :
    book' = ProjectClientSet(book, id, client)

SetProjectArchived == \E id \in DOMAIN book.projects, archived \in BOOLEAN :
    book' = ProjectArchivedSet(book, id, archived)

AddTag == \E id \in FreshTagIds, name \in Names :
    /\ CanAddTag(book, name)
    /\ book' = TagAdded(book, id, name)

RenameTag == \E id \in TagIds, name \in Names :
    /\ CanRenameTag(book, id, name)
    /\ book' = TagRenamed(book, id, name)

SetTagArchived == \E id \in DOMAIN book.tags, archived \in BOOLEAN :
    book' = TagArchivedSet(book, id, archived)

CatalogueNext == AddProject \/ RenameProject \/ SetProjectClient \/ SetProjectArchived
                     \/ AddTag \/ RenameTag \/ SetTagArchived

Next == TimelineNext \/ CatalogueNext

Spec == Init /\ [][Next]_book

----------------------------------------------------------------------------
(* What the logbook promises. *)

\* Every field holds a value of its type; in particular no stored description is
\* blank or over-long and no stored client is blank, whatever the caller typed
\* (normalize_description, normalize_client).
TypeOK == book \in Logbook

\* The instants a span accounts for: [started_at, stopped_at), unbounded while active.
Covers(span) == {t \in Instants : span.started_at <= t /\ EndsAfter(span.stopped_at, t)}

\* No instant is recorded by two spans, whatever mix of starts, switches, back-dated
\* additions and edits built the logbook (check_overlap in every mutation that moves
\* a boundary; stated on instants, not on the code's interval comparison).
NoDoubleRecording ==
    \A i, j \in DOMAIN book.spans :
        i # j => Covers(book.spans[i]) \cap Covers(book.spans[j]) = {}

\* At most one span is running, and active_span_id names exactly it: no mutation may
\* orphan a running span or leave the pointer at a stopped or removed one.
OneActiveTimer == ActivePointerConsistent(book)

\* Spans only refer to projects and tags the logbook has, project names and tag names
\* are unique up to case, and no span stops before it starts: the rest of what
\* validate demands of a logbook before it is committed.
CatalogueConsistent == CatalogueSound(book)

\* The inductive invariant behind the theorems: disjointness is stated on the code's
\* interval comparison, which is stronger than NoDoubleRecording for empty spans.
IInv == TypeOK /\ Sound(book)

\* Two spans that start at the same instant: then one of them is empty.
SomeStartsTie ==
    \E i, j \in DOMAIN book.spans :
        i # j /\ book.spans[i].started_at = book.spans[j].started_at

\* What the mutations let through, the provider's validate accepts, so a commit of it
\* cannot be refused: except when two spans start at one instant, where validate's
\* answer depends on the order of the ids.
MutationsStayCommittable == SomeStartsTie \/ Validates(book)

\* A span that was stopped never runs again: no edit, add or switch reopens it.
StoppedStaysStopped ==
    [][\A i \in DOMAIN book.spans \cap DOMAIN book'.spans :
           book.spans[i].stopped_at # None => book'.spans[i].stopped_at # None]_book

\* When the active timer passes from one span to another, the old span survives and
\* stops at the very instant the new one starts: a switch leaves neither gap nor overlap.
SwitchIsSeamless ==
    [][LET old == book.active_span_id
           new == book'.active_span_id
       IN  old # None /\ new # None /\ old # new =>
               /\ old \in DOMAIN book'.spans
               /\ book'.spans[old].stopped_at = book'.spans[new].started_at]_book

----------------------------------------------------------------------------
\* validate's comment and CONTEXT.md say an overlap "always shows up between adjacent
\* spans" and that "touching boundaries are allowed": every logbook the mutations
\* build should validate, ties included.
MutationsAlwaysValidate == Validates(book)
=============================================================================
