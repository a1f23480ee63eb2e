------------------------------- MODULE Domain -------------------------------
(***************************************************************************)
(* The logbook domain of contextswitch-core (domain.rs) as pure operators  *)
(* on a logbook record: every mutation of `impl Logbook` is a pair         *)
(*   CanXxx(b, args)  the checks the method makes before it changes b,     *)
(*   Xxxed(b, args)   the logbook it leaves behind,                        *)
(* and Validates(b) is Logbook::validate.  A method that returns an error  *)
(* leaves the logbook as it was, so an error is simply ~CanXxx.            *)
(*                                                                         *)
(* Abstractions.  Ids are the fresh UUIDs; span ids are integers because   *)
(* the order of the UUIDs is the iteration order of the BTreeMap, which    *)
(* validate's stable sort can observe.  Instants are integers.  Texts are  *)
(* opaque; BlankTexts are those that trim to nothing, LongTexts those over *)
(* MAX_DESCRIPTION_CHARS, and Lower[n] is n.to_lowercase().  created_at    *)
(* and updated_at are left out: no check reads them.                       *)
(***************************************************************************)
EXTENDS Integers, FiniteSets

CONSTANTS SpanIds, ProjectIds, TagIds, Instants,
          Names, Lower, Texts, BlankTexts, LongTexts, None

ASSUME IdAssumption == SpanIds \subseteq Int
ASSUME InstantAssumption == Instants \subseteq Int
ASSUME NoneAssumption == /\ None \notin SpanIds \cup Instants
                         /\ None \notin ProjectIds \cup Texts
ASSUME TextAssumption == /\ BlankTexts \subseteq Texts
                         /\ LongTexts \subseteq Texts \ BlankTexts

OrNone(S) == S \cup {None}

----------------------------------------------------------------------------
(* The data model. *)

StoredDescription == OrNone(Texts \ (BlankTexts \cup LongTexts))
StoredClient == OrNone(Texts \ BlankTexts)

Span == [started_at : Instants, stopped_at : OrNone(Instants),
         project_id : OrNone(ProjectIds), tag_ids : SUBSET TagIds,
         description : StoredDescription]
Project == [name : Names, client : StoredClient, archived : BOOLEAN]
Tag == [name : Names, archived : BOOLEAN]

\* A BTreeMap from (some of) the keys to the values.
MapOf(K, V) == UNION {[D -> V] : D \in SUBSET K}

Logbook == [active_span_id : OrNone(SpanIds), projects : MapOf(ProjectIds, Project),
            tags : MapOf(TagIds, Tag), spans : MapOf(SpanIds, Span)]

EmptyMap == [k \in {} |-> None]
NewLogbook == [active_span_id |-> None, projects |-> EmptyMap,
               tags |-> EmptyMap, spans |-> EmptyMap]

\* BTreeMap::insert and BTreeMap::remove.
Insert(m, k, v) == [x \in DOMAIN m \cup {k} |-> IF x = k THEN v ELSE m[x]]
Remove(m, k) == [x \in DOMAIN m \ {k} |-> m[x]]

----------------------------------------------------------------------------
(* The checks the mutations share. *)

\* Does an interval that ends at e (None: never) end after instant t?
EndsAfter(e, t) == e = None \/ t < e

IntervalsOverlap(s1, e1, s2, e2) == EndsAfter(e1, s2) /\ EndsAfter(e2, s1)

\* Mutation: check_overlap forgets the span that is still running.
IsFreeOfStopped(b, s, e, except) ==
    \A i \in {k \in DOMAIN b.spans : b.spans[k].stopped_at # None} \ except :
        ~IntervalsOverlap(s, e, b.spans[i].started_at, b.spans[i].stopped_at)

\* check_overlap, seen from the caller: [s, e) is free of every span outside `except`.
IsFree(b, s, e, except) ==
    \A i \in DOMAIN b.spans \ except :
        ~IntervalsOverlap(s, e, b.spans[i].started_at, b.spans[i].stopped_at)

ProjectRefOk(b, p) == p \in OrNone(DOMAIN b.projects)
TagsOk(b, ts) == ts \subseteq DOMAIN b.tags

\* Mutation: names are compared as typed.
NameFreeAsTyped(m, name, except) == \A k \in DOMAIN m \ except : m[k].name # name

NameFree(m, name, except) ==
    \A k \in DOMAIN m \ except : Lower[m[k].name] # Lower[name]

\* Mutation: the text is stored as typed.
StoredAsTyped(text) == text

Normalized(text) == IF text \in BlankTexts THEN None ELSE text

----------------------------------------------------------------------------
(* The timer: start, stop, switch. *)

CanStart(b, at, p, ts) ==
    /\ b.active_span_id = None
    /\ ProjectRefOk(b, p)
    /\ TagsOk(b, ts)
    /\ IsFree(b, at, None, {})

NewSpan(at, p, ts) == [started_at |-> at, stopped_at |-> None, project_id |-> p,
                       tag_ids |-> ts, description |-> None]

Started(b, id, at, p, ts) ==
    [b EXCEPT !.spans = Insert(@, id, NewSpan(at, p, ts)), !.active_span_id = id]

\* The active span can be closed at `at`: the part stop_timer and switch share.
CanClose(b, at) ==
    /\ b.active_span_id \in DOMAIN b.spans
    /\ b.spans[b.active_span_id].started_at <= at
    /\ IsFree(b, b.spans[b.active_span_id].started_at, at, {b.active_span_id})

CanStop(b, at) == b.active_span_id # None /\ CanClose(b, at)

Stopped(b, at) ==
    [b EXCEPT !.spans = [@ EXCEPT ![b.active_span_id].stopped_at = at],
              !.active_span_id = None]

CanSwitch(b, at, p, ts) ==
    /\ ProjectRefOk(b, p)
    /\ TagsOk(b, ts)
    /\ b.active_span_id # None => CanClose(b, at)
    /\ IsFree(b, at, None, {b.active_span_id})

\* Mutation: the switch keeps the old span running for one more instant.
SwitchedLate(b, id, at, p, ts) ==
    Started(IF b.active_span_id = None \/ at + 1 \notin Instants
            THEN b ELSE Stopped(b, at + 1), id, at, p, ts)

Switched(b, id, at, p, ts) ==
    Started(IF b.active_span_id = None THEN b ELSE Stopped(b, at), id, at, p, ts)

----------------------------------------------------------------------------
(* The history: edit, add, remove, describe, unassign. *)

\* Option::or and Option::unwrap_or
Or(new, old) == IF new = None THEN old ELSE new

\* Mutation: the tags are not looked up.
CanEditAnyTags(b, id, start, stop, p, newTags) ==
    /\ ProjectRefOk(b, p)
    /\ id \in DOMAIN b.spans
    /\ stop # None => b.spans[id].stopped_at # None
    /\ LET s == Or(start, b.spans[id].started_at)
           e == Or(stop, b.spans[id].stopped_at)
       IN  (e # None => s <= e) /\ IsFree(b, s, e, {id})

\* `None` for a field leaves it alone; newTags is {} or a singleton {tag set}.
CanEdit(b, id, start, stop, p, newTags) ==
    /\ ProjectRefOk(b, p)
    /\ \A ts \in newTags : TagsOk(b, ts)
    /\ id \in DOMAIN b.spans
    /\ stop # None => b.spans[id].stopped_at # None
    /\ LET s == Or(start, b.spans[id].started_at)
           e == Or(stop, b.spans[id].stopped_at)
       IN  /\ e # None => s <= e
           /\ IsFree(b, s, e, {id})

\* Mutation: an absent stop time clears the recorded one.
EditedClearingStop(b, id, start, stop, p, newTags) ==
    [b EXCEPT !.spans[id].started_at = Or(start, @), !.spans[id].stopped_at = stop]

Edited(b, id, start, stop, p, newTags) ==
    LET old == b.spans[id]
    IN  [b EXCEPT !.spans[id] =
            [old EXCEPT !.started_at = Or(start, old.started_at),
                        !.stopped_at = Or(stop, old.stopped_at),
                        !.project_id = Or(p, old.project_id),
                        !.tag_ids = IF newTags = {} THEN old.tag_ids ELSE UNION newTags]]

\* Mutation: the order of the two instants is not checked.
CanAddReversed(b, start, stop, p, ts) ==
    ProjectRefOk(b, p) /\ TagsOk(b, ts) /\ IsFree(b, start, stop, {})

CanAdd(b, start, stop, p, ts) ==
    /\ ProjectRefOk(b, p)
    /\ TagsOk(b, ts)
    /\ start <= stop
    /\ IsFree(b, start, stop, {})

Added(b, id, start, stop, p, ts) ==
    [b EXCEPT !.spans = Insert(@, id, [NewSpan(start, p, ts) EXCEPT !.stopped_at = stop])]

CanRemove(b, id) == id \in DOMAIN b.spans

\* Mutation: removing the running span leaves the pointer behind.
RemovedKeepingPointer(b, id) == [b EXCEPT !.spans = Remove(@, id)]

Removed(b, id) ==
    [b EXCEPT !.spans = Remove(@, id),
              !.active_span_id = IF @ = id THEN None ELSE @]

CanDescribe(b, id, text) ==
    /\ text \notin LongTexts
    /\ id \in DOMAIN b.spans

Described(b, id, text) == [b EXCEPT !.spans[id].description = Normalized(text)]

CanUnassign(b, id) == id \in DOMAIN b.spans

Unassigned(b, id) == [b EXCEPT !.spans[id].project_id = None]

----------------------------------------------------------------------------
(* The catalogue of projects and tags. *)

CanAddProject(b, name) == NameFree(b.projects, name, {})

ProjectAdded(b, id, name, client) ==
    [b EXCEPT !.projects = Insert(@, id,
        [name |-> name, client |-> Normalized(client), archived |-> FALSE])]

CanRenameProject(b, id, name) ==
    NameFree(b.projects, name, {id}) /\ id \in DOMAIN b.projects

ProjectRenamed(b, id, name) == [b EXCEPT !.projects[id].name = name]

ProjectClientSet(b, id, client) == [b EXCEPT !.projects[id].client = Normalized(client)]

ProjectArchivedSet(b, id, archived) == [b EXCEPT !.projects[id].archived = archived]

CanAddTag(b, name) == NameFree(b.tags, name, {})

TagAdded(b, id, name) ==
    [b EXCEPT !.tags = Insert(@, id, [name |-> name, archived |-> FALSE])]

CanRenameTag(b, id, name) == NameFree(b.tags, name, {id}) /\ id \in DOMAIN b.tags

TagRenamed(b, id, name) == [b EXCEPT !.tags[id].name = name]

TagArchivedSet(b, id, archived) == [b EXCEPT !.tags[id].archived = archived]

----------------------------------------------------------------------------
(* Logbook::validate.  The spans are sorted by start, ties in id order (the *)
(* sort is stable over the BTreeMap's iteration), and only neighbours are   *)
(* compared.                                                                *)

SortsBefore(b, i, j) ==
    LET s == b.spans[i].started_at
        t == b.spans[j].started_at
    IN  s < t \/ (s = t /\ i < j)

Neighbours(b, i, j) ==
    /\ SortsBefore(b, i, j)
    /\ ~\E k \in DOMAIN b.spans : SortsBefore(b, i, k) /\ SortsBefore(b, k, j)

Unstopped(b) == {i \in DOMAIN b.spans : b.spans[i].stopped_at = None}

ReferencesResolve(b) ==
    \A i \in DOMAIN b.spans :
        ProjectRefOk(b, b.spans[i].project_id) /\ TagsOk(b, b.spans[i].tag_ids)

TimeRangesOk(b) ==
    \A i \in DOMAIN b.spans :
        b.spans[i].stopped_at # None => b.spans[i].started_at <= b.spans[i].stopped_at

\* find_duplicate finds nothing: no two keys of the map carry the same folded name.
NoDuplicateName(m) ==
    \A k, l \in DOMAIN m : Lower[m[k].name] = Lower[m[l].name] => k = l

ActivePointerConsistent(b) ==
    Unstopped(b) = IF b.active_span_id = None THEN {} ELSE {b.active_span_id}

NeighboursDoNotOverlap(b) ==
    \A i, j \in DOMAIN b.spans :
        Neighbours(b, i, j) => ~EndsAfter(b.spans[i].stopped_at, b.spans[j].started_at)

Validates(b) ==
    /\ ReferencesResolve(b)
    /\ TimeRangesOk(b)
    /\ NoDuplicateName(b.projects)
    /\ NoDuplicateName(b.tags)
    /\ ActivePointerConsistent(b)
    /\ NeighboursDoNotOverlap(b)

----------------------------------------------------------------------------
(* What a logbook must be like for its time records to mean anything.  The  *)
(* mutations are supposed to keep it, and validate to recognise it.         *)

SpansDisjoint(b) ==
    \A i, j \in DOMAIN b.spans :
        i # j => ~IntervalsOverlap(b.spans[i].started_at, b.spans[i].stopped_at,
                                   b.spans[j].started_at, b.spans[j].stopped_at)

\* Spans refer only to what the logbook has, names are unique up to case and no span
\* stops before it starts.
CatalogueSound(b) ==
    /\ ReferencesResolve(b)
    /\ TimeRangesOk(b)
    /\ NoDuplicateName(b.projects)
    /\ NoDuplicateName(b.tags)

Sound(b) == SpansDisjoint(b) /\ ActivePointerConsistent(b) /\ CatalogueSound(b)
=============================================================================
