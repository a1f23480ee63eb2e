--------------------------- MODULE LogbookProofs ----------------------------
(***************************************************************************)
(* The invariants of Logbook, for every set of ids, instants, names and    *)
(* texts: IInv is inductive, and NoDoubleRecording, OneActiveTimer and     *)
(* CatalogueConsistent follow from it. The second half is about Reports:   *)
(* on a logbook that satisfies IInv the totals count every instant once.   *)
(***************************************************************************)
EXTENDS LogbookCommands, Reports, CommandsProofs, FiniteSetTheorems, WellFoundedInduction

\* An empty logbook is sound.
LEMMA InitSound == Init => IInv
  BY NewLogbookSound DEF Init, IInv, TypeOK

\* The timer and the history keep the logbook sound.
LEMMA TimelineKeepsSound ==
    ASSUME IInv, TimelineNext
    PROVE  IInv'
  <1>0. book \in Logbook /\ Sound(book)
    BY DEF IInv, TypeOK
  <1>1. CASE StartTimer
    <2>1. PICK id \in FreshSpanIds, at \in Instants, p \in ProjectArgs, ts \in TagArgs :
              CanStart(book, at, p, ts) /\ book' = Started(book, id, at, p, ts)
      BY <1>1 DEF StartTimer
    <2> QED
      BY <1>0, <2>1, StartKeepsSound DEF FreshSpanIds, TagArgs, IInv, TypeOK
  <1>2. CASE StopTimer
    <2>1. PICK at \in Instants : CanStop(book, at) /\ book' = Stopped(book, at)
      BY <1>2 DEF StopTimer
    <2> QED
      BY <1>0, <2>1, StopKeepsSound DEF CanStop, IInv, TypeOK
  <1>3. CASE SwitchTimer
    <2>1. PICK id \in FreshSpanIds, at \in Instants, p \in ProjectArgs, ts \in TagArgs :
              CanSwitch(book, at, p, ts) /\ book' = Switched(book, id, at, p, ts)
      BY <1>3 DEF SwitchTimer
    <2> QED
      BY <1>0, <2>1, SwitchKeepsSound DEF FreshSpanIds, TagArgs, IInv, TypeOK
  <1>4. CASE EditSpan
    <2>1. PICK id \in SpanIds, start \in OrNone(Instants), stop \in OrNone(Instants),
               p \in ProjectArgs, newTags \in {{}} \cup {{ts} : ts \in TagArgs} :
              /\ CanEdit(book, id, start, stop, p, newTags)
              /\ book' = Edited(book, id, start, stop, p, newTags)
      BY <1>4 DEF EditSpan
    <2> QED
      BY <1>0, <2>1, EditKeepsSound DEF ProjectArgs, TagArgs, IInv, TypeOK
  <1>5. CASE AddSpan
    <2>1. PICK id \in FreshSpanIds, start \in Instants, stop \in Instants,
               p \in ProjectArgs, ts \in TagArgs :
              CanAdd(book, start, stop, p, ts) /\ book' = Added(book, id, start, stop, p, ts)
      BY <1>5 DEF AddSpan
    <2> QED
      BY <1>0, <2>1, AddKeepsSound DEF FreshSpanIds, TagArgs, IInv, TypeOK
  <1>6. CASE RemoveSpan
    <2>1. PICK id \in SpanIds : CanRemove(book, id) /\ book' = Removed(book, id)
      BY <1>6 DEF RemoveSpan
    <2> QED
      BY <1>0, <2>1, RemoveKeepsSound DEF IInv, TypeOK
  <1>7. CASE SetSpanDescription
    <2>1. PICK id \in SpanIds, text \in TextArgs :
              CanDescribe(book, id, text) /\ book' = Described(book, id, text)
      BY <1>7 DEF SetSpanDescription
    <2> QED
      BY <1>0, <2>1, DescribeKeepsSound DEF TextArgs, IInv, TypeOK
  <1>8. CASE UnassignSpan
    <2>1. PICK id \in SpanIds : CanUnassign(book, id) /\ book' = Unassigned(book, id)
      BY <1>8 DEF UnassignSpan
    <2> QED
      BY <1>0, <2>1, UnassignKeepsSound DEF IInv, TypeOK
  <1> QED
    BY <1>1, <1>2, <1>3, <1>4, <1>5, <1>6, <1>7, <1>8 DEF TimelineNext

\* The catalogue operations keep the logbook sound.
LEMMA CatalogueNextKeepsSound ==
    ASSUME IInv, CatalogueNext
    PROVE  IInv'
  <1>0. book \in Logbook /\ Sound(book)
    BY DEF IInv, TypeOK
  <1>1. CASE AddProject
    <2>1. PICK id \in FreshProjectIds, name \in Names, client \in TextArgs :
              CanAddProject(book, name) /\ book' = ProjectAdded(book, id, name, client)
      BY <1>1 DEF AddProject
    <2> QED
      BY <1>0, <2>1, AddProjectKeepsSound DEF FreshProjectIds, TextArgs, IInv, TypeOK
  <1>2. CASE RenameProject
    <2>1. PICK id \in ProjectIds, name \in Names :
              CanRenameProject(book, id, name) /\ book' = ProjectRenamed(book, id, name)
      BY <1>2 DEF RenameProject
    <2> QED
      BY <1>0, <2>1, ProjectEditsKeepSound DEF CanRenameProject, IInv, TypeOK
  <1>3. CASE SetProjectClient
    BY <1>0, <1>3, ProjectEditsKeepSound DEF SetProjectClient, TextArgs, IInv, TypeOK
  <1>4. CASE SetProjectArchived
    BY <1>0, <1>4, ProjectEditsKeepSound DEF SetProjectArchived, IInv, TypeOK
  <1>5. CASE AddTag
    <2>1. PICK id \in FreshTagIds, name \in Names :
              CanAddTag(book, name) /\ book' = TagAdded(book, id, name)
      BY <1>5 DEF AddTag
    <2> QED
      BY <1>0, <2>1, AddTagKeepsSound DEF FreshTagIds, IInv, TypeOK
  <1>6. CASE RenameTag
    <2>1. PICK id \in TagIds, name \in Names :
              CanRenameTag(book, id, name) /\ book' = TagRenamed(book, id, name)
      BY <1>6 DEF RenameTag
    <2> QED
      BY <1>0, <2>1, TagEditsKeepSound DEF CanRenameTag, IInv, TypeOK
  <1>7. CASE SetTagArchived
    BY <1>0, <1>7, TagEditsKeepSound DEF SetTagArchived, IInv, TypeOK
  <1> QED
    BY <1>1, <1>2, <1>3, <1>4, <1>5, <1>6, <1>7 DEF CatalogueNext

\* The inductive invariant: every reachable logbook is well typed and sound.
THEOREM Soundness == Spec => []IInv
  <1>1. Init => IInv
    BY InitSound
  <1>2. IInv /\ [Next]_book => IInv'
    <2>1. IInv /\ TimelineNext => IInv'
      BY TimelineKeepsSound
    <2>2. IInv /\ CatalogueNext => IInv'
      BY CatalogueNextKeepsSound
    <2>3. IInv /\ UNCHANGED book => IInv'
      BY DEF IInv, TypeOK
    <2> QED
      BY <2>1, <2>2, <2>3 DEF Next
  <1> QED
    BY <1>1, <1>2, PTL DEF Spec

\* Disjoint intervals record no instant twice.
LEMMA DisjointRecordsOnce ==
    ASSUME TypeOK, SpansDisjoint(book)
    PROVE  NoDoubleRecording
  <1> SUFFICES ASSUME NEW i \in DOMAIN book.spans, NEW j \in DOMAIN book.spans, i # j,
                      NEW t \in Covers(book.spans[i]) \cap Covers(book.spans[j])
               PROVE  FALSE
    BY DEF NoDoubleRecording
  <1>1. book.spans[i] \in Span /\ book.spans[j] \in Span
    BY LogbookFields DEF TypeOK
  <1>2. ~IntervalsOverlap(book.spans[i].started_at, book.spans[i].stopped_at,
                          book.spans[j].started_at, book.spans[j].stopped_at)
    BY DEF SpansDisjoint
  \* A span that covers t ends after every instant up to t.
  <1>3. ASSUME NEW span \in Span, t \in Covers(span), NEW s \in Instants, s <= t
        PROVE  EndsAfter(span.stopped_at, s)
    <2>1. CASE span.stopped_at = None
      BY <2>1 DEF EndsAfter
    <2>2. CASE span.stopped_at # None
      <3>1. span.stopped_at \in Instants /\ t \in Instants /\ t < span.stopped_at
        BY <1>3, <2>2 DEF Covers, EndsAfter, Span, OrNone
      <3>2. span.stopped_at \in Int /\ t \in Int /\ s \in Int
        BY <3>1, InstantAssumption
      <3>3. s < span.stopped_at
        BY <1>3, <3>1, <3>2
      <3> QED
        BY <3>3 DEF EndsAfter
    <2> QED
      BY <2>1, <2>2
  <1>4. /\ t \in Covers(book.spans[i]) /\ t \in Covers(book.spans[j])
        /\ book.spans[i].started_at \in Instants /\ book.spans[i].started_at <= t
        /\ book.spans[j].started_at \in Instants /\ book.spans[j].started_at <= t
    BY <1>1 DEF Covers, Span
  <1>5. EndsAfter(book.spans[i].stopped_at, book.spans[j].started_at)
    BY <1>1, <1>3, <1>4
  <1>6. EndsAfter(book.spans[j].stopped_at, book.spans[i].started_at)
    BY <1>1, <1>3, <1>4
  <1> QED
    BY <1>2, <1>5, <1>6 DEF IntervalsOverlap

\* The logbook is always well typed: in particular no stored text is blank or too long.
THEOREM TypeCorrectness == Spec => []TypeOK
  <1>1. IInv => TypeOK
    BY DEF IInv
  <1> QED
    BY <1>1, Soundness, PTL

\* No instant is ever recorded by two spans.
THEOREM RecordsOnce == Spec => []NoDoubleRecording
  <1>1. IInv => NoDoubleRecording
    BY DisjointRecordsOnce DEF IInv, Sound
  <1> QED
    BY <1>1, Soundness, PTL

\* active_span_id always names exactly the running span.
THEOREM ActiveTimerUnique == Spec => []OneActiveTimer
  <1>1. IInv => OneActiveTimer
    BY DEF IInv, Sound, OneActiveTimer
  <1> QED
    BY <1>1, Soundness, PTL

\* References resolve, names are unique up to case and time ranges are in order.
THEOREM CatalogueAlwaysConsistent == Spec => []CatalogueConsistent
  <1>1. IInv => CatalogueConsistent
    BY DEF IInv, Sound, CatalogueConsistent
  <1> QED
    BY <1>1, Soundness, PTL

\* Every command of the app and of the CLI makes a sound logbook of every logbook the
\* mutations build, whatever it creates, resolves and changes on the way.
THEOREM CommandsSoundness == Spec => []CommandsKeepSound
  <1>1. IInv => CommandsKeepSound
    <2> SUFFICES ASSUME IInv, NEW cmd \in Given, NEW c \in Made(cmd)
                 PROVE  Sound(c)
      BY DEF CommandsKeepSound
    <2>1. PICK now \in Clock : c \in Outcomes(book, cmd, now)
      BY DEF Made
    <2>2. cmd \in Command /\ now \in Instants
      BY <2>1, GivenAssumption
    <2>3. SoundBook(book)
      BY DEF SoundBook, IInv, TypeOK
    <2> QED
      BY <2>1, <2>2, <2>3, OutcomesSound DEF SoundBook
  <1> QED
    BY <1>1, Soundness, PTL

\* A sound logbook passes validate's comparison of neighbours, unless two of its spans
\* start at one instant: of neighbours the one that starts first must have stopped by then.
LEMMA SoundValidates ==
    ASSUME IInv, ~SomeStartsTie
    PROVE  Validates(book)
  <1>1. ASSUME NEW i \in DOMAIN book.spans, NEW j \in DOMAIN book.spans,
               Neighbours(book, i, j)
        PROVE  ~EndsAfter(book.spans[i].stopped_at, book.spans[j].started_at)
    <2> DEFINE s == book.spans[i]
               t == book.spans[j]
    <2>1. s \in Span /\ t \in Span /\ i \in Int
      BY LogbookFields, IdAssumption DEF IInv, TypeOK
    <2>2. /\ s.started_at \in Int /\ t.started_at \in Int
          /\ t.stopped_at = None \/ t.stopped_at \in Int
      BY <2>1, InstantAssumption DEF Span, OrNone
    <2>3. SortsBefore(book, i, j)
      BY <1>1 DEF Neighbours
    <2>4. i # j
      BY <2>1, <2>2, <2>3 DEF SortsBefore
    <2>5. s.started_at < t.started_at
      BY <2>3, <2>4 DEF SortsBefore, SomeStartsTie
    <2>6. EndsAfter(t.stopped_at, s.started_at)
      <3>1. t.stopped_at # None => t.started_at <= t.stopped_at
        BY DEF IInv, Sound, CatalogueSound, TimeRangesOk
      <3> QED
        BY <2>2, <2>5, <3>1 DEF EndsAfter
    <2>7. ~IntervalsOverlap(s.started_at, s.stopped_at, t.started_at, t.stopped_at)
      BY <2>4 DEF IInv, Sound, SpansDisjoint
    <2> QED
      BY <2>6, <2>7 DEF IntervalsOverlap
  <1>2. NeighboursDoNotOverlap(book)
    BY <1>1 DEF NeighboursDoNotOverlap
  <1> QED
    BY <1>2 DEF Validates, IInv, Sound, CatalogueSound

\* The operations only build logbooks that the provider takes: except when two spans start
\* at one instant, no commit of a client is ever refused by validate.
THEOREM MutationsCommit == Spec => []MutationsStayCommittable
  <1>1. IInv => MutationsStayCommittable
    BY SoundValidates DEF MutationsStayCommittable
  <1> QED
    BY <1>1, Soundness, PTL

----------------------------------------------------------------------------
(* What a step does to the spans and to the active pointer: one of six things. *)

\* The catalogue operations leave both alone.
Untouched == book'.spans = book.spans /\ book'.active_span_id = book.active_span_id

\* start_timer, add_span, and switch with nothing active: one new span.
OneMore == \E id \in SpanIds \ DOMAIN book.spans, span \in Span :
    /\ book'.spans = Insert(book.spans, id, span)
    /\ \/ book'.active_span_id = book.active_span_id
       \/ book.active_span_id = None /\ book'.active_span_id = id

\* The spans after the active one is stopped.
SpansStoppedAt(at) == [book.spans EXCEPT ![book.active_span_id] =
                           [book.spans[book.active_span_id] EXCEPT !.stopped_at = at]]

\* stop_timer
OneStopped == \E at \in Instants :
    /\ book.active_span_id \in DOMAIN book.spans
    /\ book'.spans = SpansStoppedAt(at)
    /\ book'.active_span_id = None

\* switch: the old span stops and the new one starts at one instant.
OnePassedOn == \E id \in SpanIds \ DOMAIN book.spans, at \in Instants, span \in Span :
    /\ book.active_span_id \in DOMAIN book.spans
    /\ span.started_at = at
    /\ book'.spans = Insert(SpansStoppedAt(at), id, span)
    /\ book'.active_span_id = id

\* edit_span, set_span_description, unassign_span: one span changes, but runs or not as before.
OneChanged == \E id \in DOMAIN book.spans, span \in Span :
    /\ span.stopped_at = None <=> book.spans[id].stopped_at = None
    /\ book'.spans = [book.spans EXCEPT ![id] = span]
    /\ book'.active_span_id = book.active_span_id

\* remove_span
OneLess == \E id \in DOMAIN book.spans :
    /\ book'.spans = Remove(book.spans, id)
    /\ book'.active_span_id \in {None, book.active_span_id}

\* A new span has the types of its parts.
LEMMA NewSpanTyped ==
    ASSUME NEW b \in Logbook, NEW at \in Instants, NEW p, ProjectRefOk(b, p),
           NEW ts \in SUBSET TagIds
    PROVE  NewSpan(at, p, ts) \in Span /\ NewSpan(at, p, ts).started_at = at
  <1>1. p \in OrNone(ProjectIds)
    BY LogbookFields DEF ProjectRefOk, OrNone
  <1> QED
    BY <1>1, TextAssumption, NoneAssumption
    DEF NewSpan, Span, OrNone, StoredDescription

\* The timer operations are of these kinds.
LEMMA TimerShapes ==
    ASSUME IInv, StartTimer \/ StopTimer \/ SwitchTimer
    PROVE  OneMore \/ OneStopped \/ OnePassedOn
  <1>0. book \in Logbook
    BY DEF IInv, TypeOK
  <1>1. CASE StartTimer
    <2>1. PICK id \in FreshSpanIds, at \in Instants, p \in ProjectArgs, ts \in TagArgs :
              CanStart(book, at, p, ts) /\ book' = Started(book, id, at, p, ts)
      BY <1>1 DEF StartTimer
    <2>2. NewSpan(at, p, ts) \in Span
      BY <1>0, <2>1, NewSpanTyped DEF CanStart, TagArgs
    <2>3. /\ book'.spans = Insert(book.spans, id, NewSpan(at, p, ts))
          /\ book'.active_span_id = id
      BY <1>0, <2>1 DEF Started, Logbook
    <2> QED
      BY <2>1, <2>2, <2>3 DEF OneMore, FreshSpanIds, CanStart
  <1>2. CASE StopTimer
    <2>1. PICK at \in Instants : CanStop(book, at) /\ book' = Stopped(book, at)
      BY <1>2 DEF StopTimer
    <2> QED
      BY <1>0, <2>1, StopKeepsSound DEF CanStop, CanClose, OneStopped, SpansStoppedAt, IInv
  <1>3. CASE SwitchTimer
    <2>1. PICK id \in FreshSpanIds, at \in Instants, p \in ProjectArgs, ts \in TagArgs :
              CanSwitch(book, at, p, ts) /\ book' = Switched(book, id, at, p, ts)
      BY <1>3 DEF SwitchTimer
    <2>2. NewSpan(at, p, ts) \in Span /\ NewSpan(at, p, ts).started_at = at
      BY <1>0, <2>1, NewSpanTyped DEF CanSwitch, TagArgs
    <2>3. CASE book.active_span_id = None
      <3>1. /\ book'.spans = Insert(book.spans, id, NewSpan(at, p, ts))
            /\ book'.active_span_id = id
        BY <1>0, <2>1, <2>3 DEF Switched, Started, Logbook
      <3> QED
        BY <2>2, <2>3, <3>1 DEF OneMore, FreshSpanIds
    <2>4. CASE book.active_span_id # None
      <3>1. CanClose(book, at)
        BY <2>1, <2>4 DEF CanSwitch
      <3>2. /\ Stopped(book, at) \in Logbook
            /\ Stopped(book, at).spans = SpansStoppedAt(at)
        BY <1>0, <2>4, <3>1, StopKeepsSound DEF IInv, SpansStoppedAt
      <3>3. book' = Started(Stopped(book, at), id, at, p, ts)
        BY <2>1, <2>4 DEF Switched
      <3>4. /\ book'.spans = Insert(SpansStoppedAt(at), id, NewSpan(at, p, ts))
            /\ book'.active_span_id = id
        BY <3>2, <3>3 DEF Started, Logbook
      <3> QED
        BY <2>2, <3>1, <3>4 DEF OnePassedOn, FreshSpanIds, CanClose
    <2> QED
      BY <2>3, <2>4
  <1> QED
    BY <1>1, <1>2, <1>3

\* The history operations are of these kinds.
LEMMA HistoryShapes ==
    ASSUME IInv, EditSpan \/ AddSpan \/ RemoveSpan \/ SetSpanDescription \/ UnassignSpan
    PROVE  OneMore \/ OneChanged \/ OneLess
  <1>0. book \in Logbook /\ IInv'
    BY TimelineKeepsSound DEF IInv, TypeOK, TimelineNext
  \* A span assigned in place has its type, since the logbook keeps its own.
  <1>1. ASSUME NEW id \in DOMAIN book.spans, NEW span,
               book'.spans = [book.spans EXCEPT ![id] = span]
        PROVE  span \in Span
    <2>1. book' \in Logbook
      BY <1>0 DEF IInv, TypeOK
    <2>2. book.spans \in [DOMAIN book.spans -> Span]
      BY <1>0, LogbookFields, MapOfDef
    <2>3. book'.spans[id] = span /\ id \in DOMAIN book'.spans
      BY <1>1, <2>2
    <2> QED
      BY <2>1, <2>3, LogbookFields
  <1>2. CASE EditSpan
    <2>1. PICK id \in SpanIds, start \in OrNone(Instants), stop \in OrNone(Instants),
               p \in ProjectArgs, newTags \in {{}} \cup {{ts} : ts \in TagArgs} :
              /\ CanEdit(book, id, start, stop, p, newTags)
              /\ book' = Edited(book, id, start, stop, p, newTags)
      BY <1>2 DEF EditSpan
    <2> DEFINE old == book.spans[id]
               span == [old EXCEPT !.started_at = Or(start, old.started_at),
                                   !.stopped_at = Or(stop, old.stopped_at),
                                   !.project_id = Or(p, old.project_id),
                                   !.tag_ids = IF newTags = {} THEN old.tag_ids
                                               ELSE UNION newTags]
    <2>2. id \in DOMAIN book.spans /\ old \in Span
      BY <1>0, <2>1, LogbookFields DEF CanEdit
    <2>3. span.stopped_at = Or(stop, old.stopped_at)
      BY <2>2 DEF Span
    <2>4. span.stopped_at = None <=> old.stopped_at = None
      BY <2>1, <2>3 DEF Or, CanEdit
    <2>5. book' = [book EXCEPT !.spans[id] = span]
      BY <2>1 DEF Edited
    <2> HIDE DEF span
    <2>6. /\ book'.spans = [book.spans EXCEPT ![id] = span]
          /\ book'.active_span_id = book.active_span_id
      BY <1>0, <2>5 DEF Logbook
    <2> QED
      BY <1>1, <2>2, <2>4, <2>6 DEF OneChanged
  <1>3. CASE AddSpan
    <2>1. PICK id \in FreshSpanIds, start \in Instants, stop \in Instants,
               p \in ProjectArgs, ts \in TagArgs :
              CanAdd(book, start, stop, p, ts) /\ book' = Added(book, id, start, stop, p, ts)
      BY <1>3 DEF AddSpan
    <2> DEFINE span == [NewSpan(start, p, ts) EXCEPT !.stopped_at = stop]
    <2>2. span \in Span
      <3>1. NewSpan(start, p, ts) \in Span
        BY <1>0, <2>1, NewSpanTyped DEF CanAdd, TagArgs
      <3> QED
        BY <2>1, <3>1 DEF Span, OrNone
    <2>3. book' = [book EXCEPT !.spans = Insert(book.spans, id, span)]
      BY <2>1 DEF Added
    <2> HIDE DEF span
    <2>4. /\ book'.spans = Insert(book.spans, id, span)
          /\ book'.active_span_id = book.active_span_id
      BY <1>0, <2>3 DEF Logbook
    <2> QED
      BY <2>2, <2>4 DEF OneMore, FreshSpanIds
  <1>4. CASE RemoveSpan
    <2>1. PICK id \in SpanIds : CanRemove(book, id) /\ book' = Removed(book, id)
      BY <1>4 DEF RemoveSpan
    <2>2. /\ book'.spans = Remove(book.spans, id)
          /\ book'.active_span_id \in {None, book.active_span_id}
      BY <1>0, <2>1 DEF Removed, Logbook
    <2> QED
      BY <2>1, <2>2 DEF OneLess, CanRemove
  <1>5. CASE SetSpanDescription
    <2>1. PICK id \in SpanIds, text \in TextArgs :
              CanDescribe(book, id, text) /\ book' = Described(book, id, text)
      BY <1>5 DEF SetSpanDescription
    <2> DEFINE span == [book.spans[id] EXCEPT !.description = Normalized(text)]
    <2>2. id \in DOMAIN book.spans /\ book.spans[id] \in Span
      BY <1>0, <2>1, LogbookFields DEF CanDescribe
    <2>3. span.stopped_at = book.spans[id].stopped_at
      BY <2>2 DEF Span
    <2>4. book' = [book EXCEPT !.spans[id] = span]
      BY <1>0, <2>1, <2>2 DEF Described, Logbook
    <2> HIDE DEF span
    <2>5. /\ book'.spans = [book.spans EXCEPT ![id] = span]
          /\ book'.active_span_id = book.active_span_id
      BY <1>0, <2>4 DEF Logbook
    <2> QED
      BY <1>1, <2>2, <2>3, <2>5 DEF OneChanged
  <1>6. CASE UnassignSpan
    <2>1. PICK id \in SpanIds : CanUnassign(book, id) /\ book' = Unassigned(book, id)
      BY <1>6 DEF UnassignSpan
    <2> DEFINE span == [book.spans[id] EXCEPT !.project_id = None]
    <2>2. id \in DOMAIN book.spans /\ book.spans[id] \in Span
      BY <1>0, <2>1, LogbookFields DEF CanUnassign
    <2>3. span.stopped_at = book.spans[id].stopped_at
      BY <2>2 DEF Span
    <2>4. book' = [book EXCEPT !.spans[id] = span]
      BY <1>0, <2>1, <2>2 DEF Unassigned, Logbook
    <2> HIDE DEF span
    <2>5. /\ book'.spans = [book.spans EXCEPT ![id] = span]
          /\ book'.active_span_id = book.active_span_id
      BY <1>0, <2>4 DEF Logbook
    <2> QED
      BY <1>1, <2>2, <2>3, <2>5 DEF OneChanged
  <1> QED
    BY <1>2, <1>3, <1>4, <1>5, <1>6

\* The catalogue operations are of these kinds.
LEMMA CatalogueShapes ==
    ASSUME IInv, CatalogueNext
    PROVE  Untouched
  BY DEF IInv, TypeOK, Logbook, CatalogueNext, AddProject, RenameProject, SetProjectClient,
         SetProjectArchived, AddTag, RenameTag, SetTagArchived, ProjectAdded,
         ProjectRenamed, ProjectClientSet, ProjectArchivedSet, TagAdded, TagRenamed,
         TagArchivedSet, Untouched

\* Every step is of one of the six kinds.
LEMMA StepShapes ==
    ASSUME IInv, Next
    PROVE  Untouched \/ OneMore \/ OneStopped \/ OnePassedOn \/ OneChanged \/ OneLess
  BY TimerShapes, HistoryShapes, CatalogueShapes DEF Next, TimelineNext

\* No step reopens a stopped span.
THEOREM NeverReopened == Spec => StoppedStaysStopped
  <1> DEFINE Kept == \A i \in DOMAIN book.spans \cap DOMAIN book'.spans :
                        book.spans[i].stopped_at # None => book'.spans[i].stopped_at # None
  <1>1. ASSUME IInv, Next
        PROVE  Kept
    <2> SUFFICES ASSUME NEW i \in DOMAIN book.spans, i \in DOMAIN book'.spans,
                        book.spans[i].stopped_at # None
                 PROVE  book'.spans[i].stopped_at # None
      OBVIOUS
    <2>1. book.spans \in [DOMAIN book.spans -> Span] /\ book.spans \in MapOf(SpanIds, Span)
      BY <1>1, LogbookFields, MapOfDef DEF IInv, TypeOK
    \* The active span aside, stopping leaves the spans alone; it gets an end.
    <2>2. ASSUME NEW at \in Instants, book.active_span_id \in DOMAIN book.spans
          PROVE  SpansStoppedAt(at)[i].stopped_at # None /\ i \in DOMAIN SpansStoppedAt(at)
      <3>1. at # None
        BY NoneAssumption
      <3> QED
        BY <2>1, <2>2, <3>1 DEF SpansStoppedAt, Span
    <2>3. CASE Untouched
      BY <2>3 DEF Untouched
    <2>4. CASE OneMore
      BY <2>4 DEF OneMore, Insert
    <2>5. CASE OneStopped
      BY <2>2, <2>5 DEF OneStopped
    <2>6. CASE OnePassedOn
      <3>1. PICK id \in SpanIds \ DOMAIN book.spans, at \in Instants, span \in Span :
                /\ book.active_span_id \in DOMAIN book.spans
                /\ book'.spans = Insert(SpansStoppedAt(at), id, span)
        BY <2>6 DEF OnePassedOn
      <3> QED
        BY <2>2, <3>1 DEF Insert
    <2>7. CASE OneChanged
      BY <2>1, <2>7 DEF OneChanged
    <2>8. CASE OneLess
      BY <2>8 DEF OneLess, Remove
    <2> QED
      BY <1>1, <2>3, <2>4, <2>5, <2>6, <2>7, <2>8, StepShapes
  <1>2. IInv /\ [Next]_book => [Kept]_book
    BY <1>1
  <1> QED
    BY <1>2, Soundness, PTL DEF Spec, StoppedStaysStopped

\* When the timer passes from one span to another, it does so at one instant.
THEOREM SwitchesSeamlessly == Spec => SwitchIsSeamless
  <1> DEFINE old == book.active_span_id
             new == book'.active_span_id
             Seamless == old # None /\ new # None /\ old # new =>
                             /\ old \in DOMAIN book'.spans
                             /\ book'.spans[old].stopped_at = book'.spans[new].started_at
  <1>1. ASSUME IInv, Next
        PROVE  Seamless
    <2> SUFFICES ASSUME old # None, new # None, old # new
                 PROVE  /\ old \in DOMAIN book'.spans
                        /\ book'.spans[old].stopped_at = book'.spans[new].started_at
      OBVIOUS
    <2>1. OnePassedOn
      BY <1>1, StepShapes DEF Untouched, OneMore, OneStopped, OneChanged, OneLess
    <2>2. PICK id \in SpanIds \ DOMAIN book.spans, at \in Instants, span \in Span :
              /\ old \in DOMAIN book.spans
              /\ span.started_at = at
              /\ book'.spans = Insert(SpansStoppedAt(at), id, span)
              /\ new = id
      BY <2>1 DEF OnePassedOn
    <2>3. book.spans \in [DOMAIN book.spans -> Span]
      BY <1>1, LogbookFields, MapOfDef DEF IInv, TypeOK
    <2>4. DOMAIN SpansStoppedAt(at) = DOMAIN book.spans
            /\ SpansStoppedAt(at)[old].stopped_at = at
      BY <2>2, <2>3 DEF SpansStoppedAt, Span
    <2> QED
      BY <2>2, <2>4 DEF Insert
  <1>2. IInv /\ [Next]_book => [Seamless]_book
    BY <1>1
  <1> QED
    BY <1>2, Soundness, PTL DEF Spec, SwitchIsSeamless

----------------------------------------------------------------------------
(* Induction. *)

\* Among finite sets there is a smallest one.
LEMMA SmallestSet ==
    ASSUME NEW F, F # {}, \A s \in F : IsFiniteSet(s)
    PROVE  \E s \in F : \A t \in F : t \subseteq s => t = s
  <1> DEFINE S == UNION F
             R == StrictSubsetOrdering(S)
  <1>1. F \subseteq FiniteSubsetsOf(S)
    BY DEF FiniteSubsetsOf
  <1>2. IsWellFoundedOn(R, FiniteSubsetsOf(S))
    BY FS_StrictSubsetOrderingWellFounded
  <1>3. \E s \in F : \A t \in F : ~(<<t, s>> \in R)
    <2> HIDE DEF R, S
    <2> QED
      BY <1>1, <1>2, WFMin
  <1>4. \A s, t \in F : t \subseteq s /\ t # s => <<t, s>> \in R
    BY DEF StrictSubsetOrdering
  <1> QED
    BY <1>3, <1>4

----------------------------------------------------------------------------
(* What a sum of lengths counts. *)

\* The instants of a row, and of rows together.
Within(r) == r.from..(r.to - 1)
Covered(rows) == UNION {Within(r) : r \in rows}

\* Rows that are not empty, and of which no two share an instant.
Intervals(rows) == \A r \in rows : r.from \in Int /\ r.to \in Int /\ r.from < r.to
Apart(rows) == \A r, q \in rows : r # q => Within(r) \cap Within(q) = {}

\* Finitely many rows cover finitely many instants.
LEMMA CoveredFinite ==
    ASSUME NEW rows, IsFiniteSet(rows), Intervals(rows)
    PROVE  IsFiniteSet(Covered(rows)) /\ Cardinality(Covered(rows)) \in Nat
  <1>1. IsFiniteSet({Within(r) : r \in rows})
    <2> DEFINE T == {Within(r) : r \in rows}
               f == [r \in rows |-> Within(r)]
    <2>1. f \in Surjection(rows, T)
      BY DEF Surjection
    <2> HIDE DEF T, f
    <2>2. IsFiniteSet(T)
      BY <2>1, FS_Surjection
    <2> QED
      BY <2>2 DEF T
  <1>2. \A r \in rows : IsFiniteSet(Within(r))
    BY FS_Interval DEF Within, Intervals
  <1>3. IsFiniteSet(Covered(rows))
    BY <1>1, <1>2, FS_UNION DEF Covered
  <1> QED
    BY <1>3, FS_CardinalityType

\* A row adds its length to what the others cover.
LEMMA CoveredAdds ==
    ASSUME NEW rows, IsFiniteSet(rows), Intervals(rows), Apart(rows), NEW r \in rows
    PROVE  Cardinality(Covered(rows)) = (r.to - r.from) + Cardinality(Covered(rows \ {r}))
  <1> DEFINE rest == Covered(rows \ {r})
  <1>1. IsFiniteSet(rest) /\ Cardinality(rest) \in Nat
    <2>1. IsFiniteSet(rows \ {r}) /\ Intervals(rows \ {r})
      BY FS_RemoveElement DEF Intervals
    <2> QED
      BY <2>1, CoveredFinite
  <1>2. IsFiniteSet(Within(r)) /\ Cardinality(Within(r)) = r.to - r.from
    BY FS_Interval DEF Within, Intervals
  <1>3. Covered(rows) = Within(r) \cup rest
    BY DEF Covered
  <1>4. Within(r) \cap rest = {}
    BY DEF Covered, Apart
  <1>5. r.to - r.from \in Int
    BY DEF Intervals
  <1>6. Cardinality(Within(r) \cap rest) = 0
    BY <1>4, FS_EmptySet
  <1> HIDE DEF rest
  <1>7. Cardinality(Covered(rows)) = Cardinality(Within(r)) + Cardinality(rest)
                                         - Cardinality(Within(r) \cap rest)
    BY <1>1, <1>2, <1>3, FS_Union
  <1> QED
    BY <1>1, <1>2, <1>5, <1>6, <1>7 DEF rest

\* The sum of the lengths of rows is how many instants they cover: the fold that adds them
\* up is a function of the subsets of the rows, and Cardinality(Covered(s)) satisfies its
\* equation; where the two differed, they would differ on a smallest subset.
LEMMA SecondsCount ==
    ASSUME NEW rows, IsFiniteSet(rows), Intervals(rows), Apart(rows)
    PROVE  Seconds(rows) = Cardinality(Covered(rows))
  <1> DEFINE Lasts(r) == r.to - r.from
             Body(g, s) == IF s = {} THEN 0
                           ELSE LET x == CHOOSE y \in s : TRUE IN Lasts(x) + g[s \ {x}]
             Iter == CHOOSE g : g = [s \in SUBSET rows |-> Body(g, s)]
             count == [s \in SUBSET rows |-> Cardinality(Covered(s))]
  <1>1. \A s \in SUBSET rows : IsFiniteSet(s) /\ Intervals(s) /\ Apart(s)
    BY FS_Subset DEF Intervals, Apart
  <1>2. \A s \in SUBSET rows : \A x \in s :
            count[s] = Lasts(x) + count[s \ {x}] /\ s \ {x} \in SUBSET rows
    BY <1>1, CoveredAdds
  <1>3. count[{}] = 0
    BY FS_EmptySet DEF Covered
  <1>4. \A s \in SUBSET rows : count[s] = Body(count, s)
    BY <1>2, <1>3
  <1>5. count = [s \in SUBSET rows |-> Body(count, s)]
    BY <1>4
  <1>6. Iter = [s \in SUBSET rows |-> Body(Iter, s)]
    <2> HIDE DEF Body, count
    <2> QED
    BY <1>5
  <1>7. \A s \in SUBSET rows : Iter[s] = count[s]
    <2> SUFFICES ASSUME NEW z \in SUBSET rows, Iter[z] # count[z] PROVE FALSE
      OBVIOUS
    <2> HIDE DEF Iter, count
    <2> DEFINE F == {s \in SUBSET rows : Iter[s] # count[s]}
    <2>0. F # {} /\ \A s \in F : IsFiniteSet(s)
      BY <1>1
    <2>1. PICK s \in F : \A t \in F : t \subseteq s => t = s
      <3> HIDE DEF F
      <3> QED
        BY <2>0, SmallestSet
    <2>2. Iter[s] = Body(Iter, s)
      BY <1>6
    <2>3. s # {}
      BY <2>2, <1>3
    <2>4. DEFINE x == CHOOSE y \in s : TRUE
    <2>5. x \in s
      BY <2>3
    <2>6. s \ {x} \notin F
      BY <2>1, <2>5
    <2>7. Iter[s \ {x}] = count[s \ {x}]
      BY <2>6
    <2> QED
      BY <2>2, <2>3, <2>5, <2>7, <1>2
  <1>8. Seconds(rows) = Iter[rows]
    BY DEF Seconds, MapThenSumSet, MapThenFoldSet
  <1> QED
    BY <1>7, <1>8

----------------------------------------------------------------------------
(* The calendar. *)

\* What the assumptions say of the date of an instant.
LEMMA CalendarFacts ==
    ASSUME NEW t \in Instants
    PROVE  /\ t \in Int /\ Day[t] \in Int
           /\ Midnight[Day[t]] \in Int /\ Midnight[Day[t] + 1] \in Int
           /\ Midnight[Day[t]] <= t /\ t < Midnight[Day[t] + 1]
           /\ Day[t] \in Dates /\ Day[t] + 1 \in Dates /\ Day[t] - (Day[t] % 7) \in Dates
  <1>1. Day[t] \in Dates /\ Day[t] + 1 \in Dates /\ Day[t] - (Day[t] % 7) \in Dates
    BY DEF Dates
  <1> QED
    BY <1>1, CalendarAssumption, InstantAssumption

\* Later dates begin later, so an instant has one date only.
LEMMA DatesInOrder ==
    ASSUME NEW t \in Instants, NEW u \in Instants, Day[t] < Day[u]
    PROVE  Midnight[Day[t] + 1] <= Midnight[Day[u]] /\ t < u
  <1>1. /\ t \in Int /\ u \in Int /\ Day[t] \in Int /\ Day[u] \in Int
        /\ Day[t] + 1 \in Dates /\ Day[u] \in Dates
        /\ Midnight[Day[t] + 1] \in Int /\ Midnight[Day[u]] \in Int
        /\ t < Midnight[Day[t] + 1] /\ Midnight[Day[u]] <= u
    BY CalendarFacts
  <1>2. CASE Day[t] + 1 = Day[u]
    BY <1>1, <1>2
  <1>3. CASE Day[t] + 1 < Day[u]
    <2>1. Midnight[Day[t] + 1] <= Midnight[Day[u]]
      BY <1>1, <1>3, CalendarAssumption
    <2> QED
      BY <1>1, <2>1
  <1> QED
    BY <1>1, <1>2, <1>3

\* The instants from one midnight to the next have one date.
LEMMA DateOf ==
    ASSUME NEW t \in Instants, NEW u \in Instants,
           Midnight[Day[t]] <= u, u < Midnight[Day[t] + 1]
    PROVE  Day[u] = Day[t]
  <1>1. /\ t \in Int /\ u \in Int /\ Day[t] \in Int /\ Day[u] \in Int
        /\ Midnight[Day[t]] \in Int /\ Midnight[Day[t] + 1] \in Int
        /\ Midnight[Day[u]] \in Int /\ Midnight[Day[u] + 1] \in Int
        /\ Midnight[Day[u]] <= u /\ u < Midnight[Day[u] + 1]
    BY CalendarFacts
  <1>2. CASE Day[u] < Day[t]
    BY <1>1, <1>2, DatesInOrder
  <1>3. CASE Day[t] < Day[u]
    BY <1>1, <1>3, DatesInOrder
  <1> QED
    BY <1>1, <1>2, <1>3

----------------------------------------------------------------------------
(* The segments of a row. *)

\* The part of a row, from t on, that belongs to date d.
Segment(row, t, d) == [span |-> row.span, from |-> Later(t, Midnight[d]),
                       to |-> Earlier(row.to, Midnight[d + 1])]

\* The dates of the instants of a row, and the segments they cut it into.
DatesIn(from, to) == {Day[u] : u \in from..(to - 1)}

SegmentsFrom(row, t) == {Segment(row, t, d) : d \in DatesIn(t, row.to)}

\* Cut off the first date; the rest are the segments from its end on.
LEMMA FirstSegment ==
    ASSUME NEW row, NEW t \in Instants, row.to \in Instants, t < row.to,
           NEW end, end = Earlier(row.to, Midnight[Day[t] + 1])
    PROVE  /\ end \in Instants /\ t < end /\ end <= row.to
           /\ SegmentsFrom(row, t)
                  = {[span |-> row.span, from |-> t, to |-> end]} \cup SegmentsFrom(row, end)
  <1>1. /\ t \in Int /\ row.to \in Int /\ Day[t] \in Int
        /\ Midnight[Day[t]] \in Int /\ Midnight[Day[t] + 1] \in Int
        /\ Midnight[Day[t]] <= t /\ t < Midnight[Day[t] + 1]
    BY CalendarFacts
  <1>2. end \in Int /\ t < end /\ end <= row.to /\ end <= Midnight[Day[t] + 1]
        /\ (end = row.to \/ end = Midnight[Day[t] + 1])
    BY <1>1 DEF Earlier
  <1>3. \A u \in t..row.to : u \in Instants
    BY ClockAssumption
  <1>4. end \in Instants
    BY <1>1, <1>2, <1>3
  <1>5. Segment(row, t, Day[t]) = [span |-> row.span, from |-> t, to |-> end]
    BY <1>1 DEF Segment, Later, Earlier
  <1>6. \A u \in t..(row.to - 1) : u < end => Day[u] = Day[t]
    BY <1>1, <1>2, <1>3, DateOf
  <1>7. ASSUME NEW u \in end..(row.to - 1)
        PROVE  Segment(row, t, Day[u]) = Segment(row, end, Day[u])
    <2>1. u \in Instants /\ u \in Int /\ end = Midnight[Day[t] + 1] /\ end <= u
      BY <1>1, <1>2, <1>3
    <2>2. /\ Day[u] \in Int /\ Midnight[Day[u]] \in Int /\ Midnight[Day[u] + 1] \in Int
          /\ u < Midnight[Day[u] + 1]
      BY <2>1, CalendarFacts
    <2>3. Day[t] < Day[u]
      <3>1. CASE Day[u] = Day[t]
        BY <1>1, <2>1, <2>2, <3>1
      <3>2. CASE Day[u] < Day[t]
        BY <1>1, <1>2, <2>1, <3>2, DatesInOrder
      <3> QED
        BY <1>1, <2>2, <3>1, <3>2
    <2>4. end <= Midnight[Day[u]] /\ t < Midnight[Day[u]]
      BY <1>1, <1>2, <2>1, <2>2, <2>3, DatesInOrder
    <2> QED
      BY <1>1, <1>2, <2>2, <2>4 DEF Segment, Later
  <1>8. t..(row.to - 1) = (t..(end - 1)) \cup (end..(row.to - 1)) /\ t \in t..(end - 1)
    BY <1>1, <1>2
  <1>9. ASSUME NEW s \in SegmentsFrom(row, t)
        PROVE  s = Segment(row, t, Day[t]) \/ s \in SegmentsFrom(row, end)
    <2>1. PICK u \in t..(row.to - 1) : s = Segment(row, t, Day[u])
      BY <1>9 DEF SegmentsFrom, DatesIn
    <2> QED
      BY <1>6, <1>7, <1>8, <1>1, <1>2, <2>1 DEF SegmentsFrom, DatesIn
  <1>10. Segment(row, t, Day[t]) \in SegmentsFrom(row, t)
    BY <1>8 DEF SegmentsFrom, DatesIn
  <1>11. ASSUME NEW s \in SegmentsFrom(row, end)
         PROVE  s \in SegmentsFrom(row, t)
    <2>1. PICK u \in end..(row.to - 1) : s = Segment(row, end, Day[u])
      BY <1>11 DEF SegmentsFrom, DatesIn
    <2>2. s = Segment(row, t, Day[u]) /\ u \in t..(row.to - 1)
      BY <1>7, <1>8, <2>1
    <2> QED
      BY <2>2 DEF SegmentsFrom, DatesIn
  <1> QED
    BY <1>2, <1>4, <1>5, <1>9, <1>10, <1>11

\* What the recursion of day_segments comes to.
LEMMA DaySegmentsAre ==
    ASSUME NEW row, row.from \in Instants, row.to \in Instants
    PROVE  DaySegments(row) = SegmentsFrom(row, row.from)
  <1> DEFINE Body(g, t) ==
                 IF t >= row.to THEN {}
                 ELSE LET end == Earlier(row.to, Midnight[Day[t] + 1])
                      IN  {[span |-> row.span, from |-> t, to |-> end]} \cup g[end]
             After == CHOOSE g : g = [t \in Instants |-> Body(g, t)]
             cut == [t \in Instants |-> SegmentsFrom(row, t)]
  <1>1. row.to \in Int /\ \A t \in Instants : t \in Int
    BY InstantAssumption
  <1>2. \A t \in Instants : cut[t] = Body(cut, t)
    <2> SUFFICES ASSUME NEW t \in Instants PROVE cut[t] = Body(cut, t)
      OBVIOUS
    <2>1. CASE t >= row.to
      <3>1. t..(row.to - 1) = {}
        BY <1>1, <2>1
      <3> QED
        BY <2>1, <3>1 DEF SegmentsFrom, DatesIn
    <2>2. CASE t < row.to
      BY <1>1, <2>2, FirstSegment
    <2> QED
      BY <1>1, <2>1, <2>2
  <1>3. After = [t \in Instants |-> Body(After, t)]
    <2>1. cut = [t \in Instants |-> Body(cut, t)]
      BY <1>2
    <2> HIDE DEF Body, cut
    <2> QED
      BY <2>1
  <1>4. \A t \in Instants : After[t] = cut[t]
    <2> SUFFICES ASSUME NEW z \in Instants, After[z] # cut[z] PROVE FALSE
      OBVIOUS
    <2> HIDE DEF After, cut
    <2> DEFINE Wrong == {t \in Instants : After[t] # cut[t]}
               F == {t..row.to : t \in Wrong}
    <2>1. F # {} /\ \A s \in F : IsFiniteSet(s)
      <3>1. \A t \in Instants : IsFiniteSet(t..row.to)
        BY <1>1, FS_Interval
      <3>2. z..row.to \in F
        OBVIOUS
      <3> QED
        BY <3>1, <3>2
    <2>2. PICK s \in F : \A v \in F : v \subseteq s => v = s
      <3> HIDE DEF F
      <3> QED
        BY <2>1, SmallestSet
    <2>3. PICK t \in Wrong : s = t..row.to
      OBVIOUS
    <2>4. After[t] = Body(After, t) /\ cut[t] = Body(cut, t)
      BY <1>2, <1>3
    <2>5. t < row.to
      BY <1>1, <2>4
    <2> DEFINE end == Earlier(row.to, Midnight[Day[t] + 1])
    <2>6. end \in Instants /\ t < end
      BY <2>5, FirstSegment
    <2>7. After[end] # cut[end]
      BY <2>4
    <2>8. end..row.to \in F
      BY <2>6, <2>7
    <2>9. end..row.to \subseteq s /\ t \in s /\ t \notin end..row.to
      BY <1>1, <2>3, <2>5, <2>6
    <2> QED
      BY <2>2, <2>8, <2>9
  <1>5. DaySegments(row) = After[row.from]
    BY DEF DaySegments
  <1> QED
    BY <1>4, <1>5

\* A row that a report may have.
IsRow(r) == r.from \in Instants /\ r.to \in Instants /\ r.from < r.to

\* A row covers instants.
LEMMA RowInstants ==
    ASSUME NEW r, IsRow(r)
    PROVE  Within(r) \subseteq Instants
  <1>1. r.from \in Int /\ r.to \in Int
    BY InstantAssumption DEF IsRow
  <1>2. Within(r) \subseteq r.from..r.to
    BY <1>1 DEF Within
  <1> QED
    BY <1>2, ClockAssumption DEF IsRow

\* The segments of a row cover what it covers, none of them twice, each on one date.
LEMMA SegmentFacts ==
    ASSUME NEW row, IsRow(row), NEW s \in DaySegments(row)
    PROVE  /\ s.span = row.span
           /\ s.from \in Instants /\ s.from \in Int /\ s.to \in Int /\ s.from < s.to
           /\ Within(s) \subseteq Within(row)
           /\ \A t \in Within(s) : Day[t] = Day[s.from]
           /\ s = Segment(row, row.from, Day[s.from])
  <1>1. row.from \in Int /\ row.to \in Int /\ row.from < row.to
    BY InstantAssumption DEF IsRow
  <1>2. PICK u \in row.from..(row.to - 1) : s = Segment(row, row.from, Day[u])
    BY DaySegmentsAre DEF IsRow, SegmentsFrom, DatesIn
  <1>3. row.from..row.to \subseteq Instants
    BY ClockAssumption DEF IsRow
  <1>4. u \in Instants /\ u \in Int /\ row.from <= u /\ u < row.to
    BY <1>1, <1>3
  <1>5. /\ Midnight[Day[u]] \in Int /\ Midnight[Day[u] + 1] \in Int
        /\ Midnight[Day[u]] <= u /\ u < Midnight[Day[u] + 1]
    BY <1>4, CalendarFacts
  <1>6. /\ s.span = row.span
        /\ s.from = Later(row.from, Midnight[Day[u]])
        /\ s.to = Earlier(row.to, Midnight[Day[u] + 1])
    BY <1>2 DEF Segment
  <1>7. /\ s.from \in Int /\ row.from <= s.from /\ s.from <= u /\ Midnight[Day[u]] <= s.from
        /\ s.to \in Int /\ u < s.to /\ s.to <= row.to /\ s.to <= Midnight[Day[u] + 1]
    BY <1>1, <1>4, <1>5, <1>6 DEF Later, Earlier
  <1>8. Within(s) \subseteq Within(row) /\ s.from \in Within(s)
    BY <1>1, <1>7 DEF Within
  <1>9. ASSUME NEW t \in Within(s) PROVE t \in Instants /\ Day[t] = Day[u]
    <2>1. t \in Int /\ s.from <= t /\ t < s.to
      BY <1>7, <1>9 DEF Within
    <2>2. t \in row.from..row.to
      BY <1>1, <1>7, <2>1
    <2>3. t \in Instants
      BY <1>3, <2>2
    <2>4. Midnight[Day[u]] <= t /\ t < Midnight[Day[u] + 1]
      BY <1>5, <1>7, <2>1
    <2> QED
      BY <1>4, <2>3, <2>4, DateOf
  <1> QED
    BY <1>2, <1>6, <1>7, <1>8, <1>9

\* The segments of a row are finitely many, apart, and cover the row.
LEMMA SegmentsPartition ==
    ASSUME NEW row, IsRow(row)
    PROVE  /\ IsFiniteSet(DaySegments(row))
           /\ Apart(DaySegments(row))
           /\ Covered(DaySegments(row)) = Within(row)
  <1>1. row.from \in Int /\ row.to \in Int /\ row.from < row.to
    BY InstantAssumption DEF IsRow
  <1> DEFINE T == row.from..(row.to - 1)
             f == [u \in T |-> Segment(row, row.from, Day[u])]
  <1>2. DaySegments(row) = {f[u] : u \in T}
    <2>1. DaySegments(row) = {Segment(row, row.from, d) : d \in {Day[u] : u \in T}}
      BY DaySegmentsAre DEF IsRow, SegmentsFrom, DatesIn
    <2>2. \A s \in DaySegments(row) : \E u \in T : s = f[u]
      BY <2>1
    <2>3. \A u \in T : f[u] \in DaySegments(row)
      BY <2>1
    <2> HIDE DEF f, T
    <2> QED
      BY <2>2, <2>3
  <1>3. IsFiniteSet(DaySegments(row))
    <2>1. f \in Surjection(T, DaySegments(row))
      BY <1>2 DEF Surjection
    <2>2. IsFiniteSet(T)
      BY <1>1, FS_Interval
    <2> HIDE DEF f, T
    <2> QED
      BY <2>1, <2>2, FS_Surjection
  <1>4. Apart(DaySegments(row))
    <2> SUFFICES ASSUME NEW r \in DaySegments(row), NEW q \in DaySegments(row),
                        NEW t \in Within(r), t \in Within(q)
                 PROVE  r = q
      BY DEF Apart
    <2> QED
      BY SegmentFacts
  <1>5. Covered(DaySegments(row)) \subseteq Within(row)
    BY SegmentFacts DEF Covered
  <1>6. ASSUME NEW u \in Within(row) PROVE u \in Covered(DaySegments(row))
    <2>1. u \in T /\ u \in Int
      BY <1>1, <1>6 DEF Within
    <2>2. u \in Instants
      BY <1>1, <2>1, ClockAssumption DEF IsRow
    <2>3. /\ Midnight[Day[u]] \in Int /\ Midnight[Day[u] + 1] \in Int
          /\ Midnight[Day[u]] <= u /\ u < Midnight[Day[u] + 1]
      BY <2>2, CalendarFacts
    <2> DEFINE s == Segment(row, row.from, Day[u])
    <2>4. s \in DaySegments(row)
      BY <1>2, <2>1
    <2>5. s.from <= u /\ u < s.to /\ s.from \in Int /\ s.to \in Int
      BY <1>1, <2>1, <2>3 DEF Segment, Later, Earlier
    <2>6. u \in Within(s)
      BY <2>1, <2>5 DEF Within
    <2> QED
      BY <2>4, <2>6 DEF Covered
  <1> QED
    BY <1>3, <1>4, <1>5, <1>6

\* What the rows of a query are together.
IsReport(rows) == IsFiniteSet(rows) /\ Apart(rows) /\ \A r \in rows : IsRow(r)

\* Some of the rows of a report are a report.
LEMMA ReportIntervals ==
    ASSUME NEW rows, IsReport(rows), NEW some \in SUBSET rows
    PROVE  IsReport(some) /\ Intervals(some)
  BY FS_Subset, InstantAssumption DEF IsReport, IsRow, Apart, Intervals

\* The segments of all the rows are finitely many and apart.
LEMMA SegmentsOfReport ==
    ASSUME NEW rows, IsReport(rows)
    PROVE  /\ IsFiniteSet(Segments(rows)) /\ Intervals(Segments(rows)) /\ Apart(Segments(rows))
           /\ \A s \in Segments(rows) :
                  \E r \in rows : s \in DaySegments(r)
  <1>1. \A r \in rows : IsRow(r)
    BY DEF IsReport
  <1>2. \A s \in Segments(rows) : \E r \in rows : s \in DaySegments(r)
    BY DEF Segments
  <1>3. IsFiniteSet(Segments(rows))
    <2> DEFINE T == {DaySegments(r) : r \in rows}
               f == [r \in rows |-> DaySegments(r)]
    <2>1. f \in Surjection(rows, T)
      BY DEF Surjection
    <2>2. \A t \in T : IsFiniteSet(t)
      BY <1>1, SegmentsPartition
    <2>3. Segments(rows) = UNION T
      BY DEF Segments
    <2> HIDE DEF T, f
    <2>4. IsFiniteSet(T)
      BY <2>1, FS_Surjection DEF IsReport
    <2> QED
      BY <2>2, <2>3, <2>4, FS_UNION
  <1>4. Intervals(Segments(rows))
    BY <1>1, <1>2, SegmentFacts DEF Intervals
  <1>5. Apart(Segments(rows))
    <2> SUFFICES ASSUME NEW s \in Segments(rows), NEW v \in Segments(rows),
                        NEW t \in Within(s), t \in Within(v)
                 PROVE  s = v
      BY DEF Apart
    <2>1. PICK r \in rows : s \in DaySegments(r)
      BY <1>2
    <2>2. PICK q \in rows : v \in DaySegments(q)
      BY <1>2
    <2>3. t \in Within(r) /\ t \in Within(q)
      BY <1>1, <2>1, <2>2, SegmentFacts
    <2>4. r = q
      BY <2>3 DEF IsReport, Apart
    <2> QED
      BY <1>1, <2>1, <2>2, <2>4, SegmentsPartition DEF Apart
  <1> QED
    BY <1>2, <1>3, <1>4, <1>5

----------------------------------------------------------------------------
(* The rows of a query. *)

\* The range of a query begins and ends at a time or is open.
LEMMA AskFacts ==
    ASSUME NEW ask \in Asked
    PROVE  /\ ask.now \in Instants
           /\ RangeFrom(ask.filters, ask.now) \in Int \cup {None}
           /\ RangeTo(ask.filters) \in Int \cup {None}
  <1> DEFINE f == ask.filters
             now == ask.now
  <1>1. f \in Filters /\ now \in Instants
    BY AskedAssumption
  <1>2. f.from \in OrNone(Instants) /\ f.to \in OrNone(Instants)
    BY <1>1 DEF Filters
  <1>3. Midnight[Day[now]] \in Int /\ Midnight[Day[now] - (Day[now] % 7)] \in Int
    BY <1>1, CalendarFacts, CalendarAssumption
  <1>4. f.from \in Int \cup {None} /\ f.to \in Int \cup {None}
    BY <1>2, InstantAssumption DEF OrNone
  <1> HIDE DEF f, now
  <1>5. RangeFrom(f, now) \in Int \cup {None}
    BY <1>3, <1>4 DEF RangeFrom
  <1>6. RangeTo(f) \in Int \cup {None}
    BY <1>4 DEF RangeTo
  <1> QED
    BY <1>1, <1>5, <1>6 DEF f, now

\* Where a span begins and ends for a report.
LEMMA SpanFacts ==
    ASSUME NEW b \in Logbook, NEW i \in DOMAIN b.spans, NEW now \in Instants
    PROVE  /\ b.spans[i].started_at \in Instants
           /\ b.spans[i].stopped_at \in Instants \cup {None}
           /\ Or(b.spans[i].stopped_at, now) \in Instants
  <1>1. b.spans[i] \in Span
    BY LogbookFields
  <1> QED
    BY <1>1 DEF Span, OrNone, Or

\* A row is the instants of its span, as seen now, that lie in the range.
LEMMA RowFacts ==
    ASSUME NEW b \in Logbook, NEW ask \in Asked, NEW i \in DOMAIN b.spans,
           NEW row, row = Clipped(b, ask.filters, ask.now, i)
    PROVE  /\ row.span = i
           /\ row.from < row.to => IsRow(row)
           /\ \A t \in Instants :
                  t \in Within(row) <=>
                      /\ b.spans[i].started_at <= t
                      /\ t < Or(b.spans[i].stopped_at, ask.now)
                      /\ RangeFrom(ask.filters, ask.now) # None =>
                             RangeFrom(ask.filters, ask.now) <= t
                      /\ RangeTo(ask.filters) # None => t < RangeTo(ask.filters)
  <1> DEFINE start == b.spans[i].started_at
             stop == Or(b.spans[i].stopped_at, ask.now)
             from == RangeFrom(ask.filters, ask.now)
             to == RangeTo(ask.filters)
  <1>1. /\ start \in Instants /\ stop \in Instants
        /\ from \in Int \cup {None} /\ to \in Int \cup {None}
    BY AskFacts, SpanFacts
  <1>2. /\ row.span = i
        /\ row.from = IF from = None THEN start ELSE Later(start, from)
        /\ row.to = IF to = None THEN stop ELSE Earlier(stop, to)
    BY DEF Clipped
  <1> HIDE DEF start, stop, from, to
  <1>3. start \in Int /\ stop \in Int
    BY <1>1, InstantAssumption
  <1>4. row.from \in Int /\ start <= row.from /\ row.to \in Int /\ row.to <= stop
    BY <1>1, <1>2, <1>3 DEF Later, Earlier
  <1>5. ASSUME row.from < row.to PROVE IsRow(row)
    <2>1. row.from \in start..stop /\ row.to \in start..stop
      BY <1>3, <1>4, <1>5
    <2> QED
      BY <1>1, <1>5, <2>1, ClockAssumption DEF IsRow
  <1>6. ASSUME NEW t \in Instants
        PROVE  t \in Within(row) <=>
                   /\ start <= t /\ t < stop
                   /\ from # None => from <= t
                   /\ to # None => t < to
    <2>1. t \in Int
      BY InstantAssumption
    <2>2. t \in Within(row) <=> row.from <= t /\ t < row.to
      BY <1>4, <2>1 DEF Within
    <2>3. row.from <= t <=> start <= t /\ (from # None => from <= t)
      BY <1>1, <1>2, <1>3, <2>1 DEF Later
    <2>4. t < row.to <=> t < stop /\ (to # None => t < to)
      BY <1>1, <1>2, <1>3, <2>1 DEF Earlier
    <2> QED
      BY <2>2, <2>3, <2>4
  <1> QED
    BY <1>2, <1>5, <1>6 DEF start, stop, from, to

\* The rows of a query cover no instant twice, because the spans do not.
LEMMA RowsAreReport ==
    ASSUME NEW b \in Logbook, SpansDisjoint(b), IsFiniteSet(DOMAIN b.spans), NEW ask \in Asked
    PROVE  IsReport(MatchingSpans(b, ask.filters, ask.now))
  <1> DEFINE clip(i) == Clipped(b, ask.filters, ask.now, i)
             rows == MatchingSpans(b, ask.filters, ask.now)
  <1>1. \A r \in rows : \E i \in DOMAIN b.spans : r = clip(i) /\ r.from < r.to
    BY DEF MatchingSpans
  <1>2. \A r \in rows : IsRow(r)
    BY <1>1, RowFacts
  <1>3. IsFiniteSet(rows)
    <2> DEFINE T == {clip(i) : i \in DOMAIN b.spans}
               f == [i \in DOMAIN b.spans |-> clip(i)]
    <2>1. f \in Surjection(DOMAIN b.spans, T)
      BY DEF Surjection
    <2>2. rows \in SUBSET T
      BY <1>1
    <2> HIDE DEF T, f, rows, clip
    <2>3. IsFiniteSet(T)
      BY <2>1, FS_Surjection
    <2> QED
      BY <2>2, <2>3, FS_Subset
  <1>4. Apart(rows)
    <2> SUFFICES ASSUME NEW r \in rows, NEW q \in rows, NEW t \in Within(r), t \in Within(q)
                 PROVE  r = q
      BY DEF Apart
    <2>1. PICK i \in DOMAIN b.spans : r = clip(i)
      BY <1>1
    <2>2. PICK j \in DOMAIN b.spans : q = clip(j)
      BY <1>1
    <2>3. t \in Instants
      BY <1>2, RowInstants
    <2>4. /\ b.spans[i].started_at <= t /\ t < Or(b.spans[i].stopped_at, ask.now)
          /\ b.spans[j].started_at <= t /\ t < Or(b.spans[j].stopped_at, ask.now)
      BY <2>1, <2>2, <2>3, RowFacts
    <2>5. /\ b.spans[i].started_at \in Int /\ b.spans[i].stopped_at \in Int \cup {None}
          /\ b.spans[j].started_at \in Int /\ b.spans[j].stopped_at \in Int \cup {None}
          /\ ask.now \in Int /\ t \in Int
      BY <2>3, SpanFacts, AskFacts, InstantAssumption
    <2>6. IntervalsOverlap(b.spans[i].started_at, b.spans[i].stopped_at,
                           b.spans[j].started_at, b.spans[j].stopped_at)
      BY <2>4, <2>5 DEF IntervalsOverlap, EndsAfter, Or
    <2>7. i = j
      BY <2>6 DEF SpansDisjoint
    <2> QED
      BY <2>1, <2>2, <2>7
  <1> QED
    BY <1>2, <1>3, <1>4 DEF IsReport

\* The rows, or segments, of a project.
RowsOf(b, rows, name) == {row \in rows : ProjectName(b, b.spans[row.span]) = name}

\* An instant counts for a project exactly when a row of the project covers it.
LEMMA RowsCount ==
    ASSUME NEW b \in Logbook, NEW ask \in Asked, NEW name, NEW t \in Instants
    PROVE  Counts(b, ask.filters, ask.now, t, name) <=>
               t \in Covered(RowsOf(b, MatchingSpans(b, ask.filters, ask.now), name))
  <1> DEFINE rows == MatchingSpans(b, ask.filters, ask.now)
             clip(i) == Clipped(b, ask.filters, ask.now, i)
  <1>1. ASSUME NEW i \in DOMAIN b.spans, t \in Within(clip(i))
        PROVE  clip(i).from < clip(i).to
    <2>1. t \in Int
      BY InstantAssumption
    <2>2. /\ clip(i).from \in Int /\ clip(i).to \in Int
      <3>1. /\ b.spans[i].started_at \in Int /\ Or(b.spans[i].stopped_at, ask.now) \in Int
            /\ RangeFrom(ask.filters, ask.now) \in Int \cup {None}
            /\ RangeTo(ask.filters) \in Int \cup {None}
        BY SpanFacts, AskFacts, InstantAssumption
      <3> QED
        BY <3>1 DEF Clipped, Later, Earlier
    <2> HIDE DEF clip
    <2> QED
      BY <1>1, <2>1, <2>2 DEF Within
  <1>2. ASSUME Counts(b, ask.filters, ask.now, t, name)
        PROVE  t \in Covered(RowsOf(b, rows, name))
    <2>1. PICK i \in DOMAIN b.spans :
              /\ b.spans[i].started_at <= t /\ t < Or(b.spans[i].stopped_at, ask.now)
              /\ ProjectName(b, b.spans[i]) = name
              /\ Passes(b, ask.filters, b.spans[i])
      BY <1>2 DEF Counts
    <2>2. t \in Within(clip(i)) /\ clip(i).span = i
      BY <1>2, <2>1, RowFacts DEF Counts
    <2>3. clip(i) \in rows
      BY <1>1, <2>1, <2>2 DEF MatchingSpans
    <2>4. clip(i) \in RowsOf(b, rows, name)
      BY <2>1, <2>2, <2>3 DEF RowsOf
    <2> QED
      BY <2>2, <2>4 DEF Covered
  <1>3. ASSUME t \in Covered(RowsOf(b, rows, name))
        PROVE  Counts(b, ask.filters, ask.now, t, name)
    <2>1. PICK row \in rows : t \in Within(row) /\ ProjectName(b, b.spans[row.span]) = name
      BY <1>3 DEF Covered, RowsOf
    <2>2. PICK i \in DOMAIN b.spans : row = clip(i) /\ Passes(b, ask.filters, b.spans[i])
      BY <2>1 DEF MatchingSpans
    <2>3. /\ row.span = i
          /\ b.spans[i].started_at <= t /\ t < Or(b.spans[i].stopped_at, ask.now)
          /\ RangeFrom(ask.filters, ask.now) # None => RangeFrom(ask.filters, ask.now) <= t
          /\ RangeTo(ask.filters) # None => t < RangeTo(ask.filters)
      BY <2>1, <2>2, RowFacts
    <2> QED
      BY <2>1, <2>2, <2>3 DEF Counts
  <1> QED
    BY <1>2, <1>3

\* The segments of a project on a date, and the instants its rows cover there.
SegmentsOn(b, rows, name, day) ==
    RowsOf(b, {seg \in Segments(rows) : Day[seg.from] = day}, name)
InstantsOn(b, rows, name, day) == {t \in Covered(RowsOf(b, rows, name)) : Day[t] = day}

\* The instants that the rows of a project cover on a date are those its segments cover.
LEMMA SegmentsOfDate ==
    ASSUME NEW b, NEW rows, IsReport(rows), NEW name, NEW day
    PROVE  Covered(SegmentsOn(b, rows, name, day)) = InstantsOn(b, rows, name, day)
  <1> DEFINE segs == SegmentsOn(b, rows, name, day)
             mine == RowsOf(b, rows, name)
  <1>1. \A r \in rows : IsRow(r)
    BY DEF IsReport
  <1>2. ASSUME NEW s \in segs, NEW t \in Within(s)
        PROVE  t \in Covered(mine) /\ Day[t] = day
    <2>1. s \in Segments(rows) /\ Day[s.from] = day /\ ProjectName(b, b.spans[s.span]) = name
      BY DEF SegmentsOn, RowsOf
    <2>2. PICK r \in rows : s \in DaySegments(r)
      BY <2>1 DEF Segments
    <2>3. s.span = r.span /\ t \in Within(r) /\ Day[t] = Day[s.from]
      BY <1>1, <2>2, SegmentFacts
    <2>4. r \in mine
      BY <2>1, <2>3 DEF RowsOf
    <2> QED
      BY <2>1, <2>3, <2>4 DEF Covered
  <1>3. ASSUME NEW r \in mine, NEW t \in Within(r), Day[t] = day
        PROVE  t \in Covered(segs)
    <2>1. r \in rows /\ ProjectName(b, b.spans[r.span]) = name
      BY DEF RowsOf
    <2>2. PICK s \in DaySegments(r) : t \in Within(s)
      BY <1>1, <2>1, SegmentsPartition DEF Covered
    <2>3. s.span = r.span /\ Day[s.from] = day
      BY <1>1, <1>3, <2>1, <2>2, SegmentFacts
    <2>4. s \in segs
      BY <2>1, <2>2, <2>3 DEF SegmentsOn, RowsOf, Segments
    <2> QED
      BY <2>2, <2>4 DEF Covered
  <1> QED
    BY <1>2, <1>3 DEF Covered, InstantsOn

\* The total of a project on a date is how many of its instants have that date.
LEMMA DateCount ==
    ASSUME NEW b, NEW rows, IsReport(rows), NEW name, NEW day
    PROVE  TotalsByDay(b, rows, day, name) = Cardinality(InstantsOn(b, rows, name, day))
  <1> DEFINE segs == SegmentsOn(b, rows, name, day)
  <1>1. TotalsByDay(b, rows, day, name) = Seconds(segs)
    BY DEF TotalsByDay, TotalsByProject, SegmentsOn, RowsOf
  <1>2. segs \in SUBSET Segments(rows)
    BY DEF SegmentsOn, RowsOf
  <1>3. Covered(segs) = InstantsOn(b, rows, name, day)
    BY SegmentsOfDate
  <1> HIDE DEF segs
  <1>4. IsFiniteSet(segs) /\ Intervals(segs) /\ Apart(segs)
    BY <1>2, SegmentsOfReport, FS_Subset DEF Intervals, Apart
  <1> QED
    BY <1>1, <1>3, <1>4, SecondsCount

\* On a logbook that records nothing twice, reports count every recorded instant once.
LEMMA SoundReportsCount ==
    ASSUME TypeOK, SpansDisjoint(book), IsFiniteSet(DOMAIN book.spans)
    PROVE  ReportsCountOnce
  <1> SUFFICES ASSUME NEW ask \in Asked, NEW name
               PROVE  LET rows == MatchingSpans(book, ask.filters, ask.now)
                          counted == {t \in Instants :
                                         Counts(book, ask.filters, ask.now, t, name)}
                      IN  /\ TotalsByProject(book, rows, name) = Cardinality(counted)
                          /\ \A day : TotalsByDay(book, rows, day, name)
                                          = Cardinality({t \in counted : Day[t] = day})
    BY DEF ReportsCountOnce
  <1> DEFINE rows == MatchingSpans(book, ask.filters, ask.now)
             counted == {t \in Instants : Counts(book, ask.filters, ask.now, t, name)}
             mine == RowsOf(book, rows, name)
  <1>1. IsReport(rows)
    BY RowsAreReport DEF TypeOK
  <1>2. mine \in SUBSET rows
    BY DEF RowsOf
  <1>3. IsReport(mine) /\ Intervals(mine)
    <2> HIDE DEF rows, mine
    <2> QED
      BY <1>1, <1>2, ReportIntervals
  <1>4. Covered(mine) \subseteq Instants
    BY <1>3, RowInstants DEF Covered, IsReport
  <1>5. counted = Covered(mine)
    BY <1>4, RowsCount DEF TypeOK
  <1>6. TotalsByProject(book, rows, name) = Cardinality(Covered(mine))
    <2>1. TotalsByProject(book, rows, name) = Seconds(mine)
      BY DEF TotalsByProject, RowsOf
    <2> HIDE DEF rows, mine
    <2> QED
      BY <1>3, <2>1, SecondsCount DEF IsReport
  <1>7. ASSUME NEW day
        PROVE  TotalsByDay(book, rows, day, name)
                   = Cardinality({t \in Covered(mine) : Day[t] = day})
    <2>1. TotalsByDay(book, rows, day, name) = Cardinality(InstantsOn(book, rows, name, day))
      <3> HIDE DEF rows
      <3> QED
        BY <1>1, DateCount
    <2> QED
      BY <2>1 DEF InstantsOn
  <1> QED
    BY <1>5, <1>6, <1>7

\* A logbook has finitely many spans, though there may be infinitely many ids: every step
\* adds at most one. (The totals are sums over the spans.)
THEOREM SpansStayFinite == Spec => []IsFiniteSet(DOMAIN book.spans)
  <1> DEFINE Finite == IsFiniteSet(DOMAIN book.spans)
  <1>1. Init => Finite
    BY FS_EmptySet DEF Init, NewLogbook, EmptyMap
  <1>2. ASSUME IInv, Finite, Next
        PROVE  Finite'
    <2>1. ASSUME NEW id, DOMAIN book'.spans \subseteq DOMAIN book.spans \cup {id}
          PROVE  Finite'
      BY <1>2, <2>1, FS_AddElement, FS_Subset
    <2>2. book.spans \in [DOMAIN book.spans -> Span]
      BY <1>2, LogbookFields, MapOfDef DEF IInv, TypeOK
    <2>3. \A at : DOMAIN SpansStoppedAt(at) = DOMAIN book.spans
      BY <2>2 DEF SpansStoppedAt
    <2>4. \E id : DOMAIN book'.spans \subseteq DOMAIN book.spans \cup {id}
      <3>1. CASE Untouched
        BY <3>1 DEF Untouched
      <3>2. CASE OneMore
        BY <3>2 DEF OneMore, Insert
      <3>3. CASE OneStopped
        BY <2>3, <3>3 DEF OneStopped
      <3>4. CASE OnePassedOn
        BY <2>3, <3>4 DEF OnePassedOn, Insert
      <3>5. CASE OneChanged
        BY <3>5 DEF OneChanged
      <3>6. CASE OneLess
        BY <3>6 DEF OneLess, Remove
      <3> QED
        BY <1>2, <3>1, <3>2, <3>3, <3>4, <3>5, <3>6, StepShapes
    <2> QED
      BY <2>1, <2>4
  <1>3. IInv /\ Finite /\ [Next]_book => Finite'
    BY <1>2
  <1> QED
    BY <1>1, <1>3, Soundness, PTL DEF Spec

\* For every calendar, set of queries and logbook that the mutations build: the totals of a
\* report are the recorded instants in its range, each counted once and on its own date.
THEOREM ReportsAreExact == Spec => []ReportsCountOnce
  <1>1. IInv /\ IsFiniteSet(DOMAIN book.spans) => ReportsCountOnce
    BY SoundReportsCount DEF IInv, Sound
  <1> QED
    BY <1>1, Soundness, SpansStayFinite, PTL

----------------------------------------------------------------------------
(* The targets of the commands. *)

\* What resolve_span finds in the sorted list is what the reference points at.
LEMMA ResolvePoints ==
    ASSUME IInv, IsFiniteSet(DOMAIN book.spans),
           NEW ref, ref = None \/ ref \in Int, NEW i \in Resolve(book, ref)
    PROVE  i \in PointedAt(book, ref)
  <1> DEFINE R == {j \in DOMAIN book.spans : ~SortsBefore(book, j, i)}
  <1>1. i \in DOMAIN book.spans
    BY ResolveFinds DEF SoundBook, IInv, TypeOK
  <1>2. \A j \in DOMAIN book.spans : j \in Int /\ book.spans[j].started_at \in Int
    <2>1. \A j \in DOMAIN book.spans : j \in SpanIds /\ book.spans[j] \in Span
      BY LogbookFields DEF IInv, TypeOK
    <2> QED
      BY <2>1, IdAssumption, InstantAssumption DEF Span
  <1>3. /\ i \in R
        /\ StartLater(book, i) \subseteq R \ {i}
        /\ R \subseteq StartNoSooner(book, i)
    BY <1>1, <1>2 DEF SortsBefore, StartLater, StartNoSooner
  <1>4. /\ IsFiniteSet(R) /\ IsFiniteSet(R \ {i}) /\ IsFiniteSet(StartNoSooner(book, i))
        /\ IsFiniteSet(StartLater(book, i))
    BY <1>3, FS_Subset DEF StartNoSooner
  <1>5. /\ Cardinality(R) \in Nat /\ Cardinality(StartLater(book, i)) \in Nat
        /\ Cardinality(StartNoSooner(book, i)) \in Nat
        /\ Cardinality(R \ {i}) = Cardinality(R) - 1
    BY <1>3, <1>4, FS_CardinalityType, FS_RemoveElement
  <1>6. /\ Cardinality(StartLater(book, i)) <= Cardinality(R \ {i})
        /\ Cardinality(R) <= Cardinality(StartNoSooner(book, i))
    BY <1>3, <1>4, FS_Subset
  <1>7. Recency(book, i) = Cardinality(R)
    BY Zenon DEF Recency
  <1> HIDE DEF R
  <1>8. CASE ref = None /\ book.active_span_id # None
    BY <1>1, <1>8 DEF Resolve, PointedAt
  <1>9. CASE ref = None /\ book.active_span_id = None
    <2>1. Cardinality(R) = 1
      BY <1>7, <1>9 DEF Resolve
    <2>2. Cardinality(StartLater(book, i)) = 0
      BY <1>5, <1>6, <2>1
    <2>3. StartLater(book, i) = {}
      BY <1>4, <2>2, FS_EmptySet
    <2> QED
      BY <1>1, <1>9, <2>3 DEF PointedAt
  <1>10. CASE ref # None
    <2>1. ref \in Int /\ (i = ref \/ -Recency(book, i) = ref)
      BY <1>10 DEF Resolve
    <2>2. CASE -Recency(book, i) = ref
      <3>1. /\ Cardinality(StartLater(book, i)) < -ref
            /\ -ref <= Cardinality(StartNoSooner(book, i))
        BY <1>5, <1>6, <1>7, <2>1, <2>2
      <3> QED
        BY <1>1, <1>10, <3>1 DEF PointedAt
    <2>3. CASE i = ref
      BY <1>1, <2>3 DEF PointedAt
    <2> QED
      BY <2>1, <2>2, <2>3
  <1> QED
    BY <1>8, <1>9, <1>10

\* No command, given to any logbook the mutations build, touches recorded time other than
\* that of the span its reference points at.
THEOREM RecordedTimeIsSafe == Spec => []RecordedTimeSurvives
  <1>1. IInv /\ IsFiniteSet(DOMAIN book.spans) => RecordedTimeSurvives
    <2> SUFFICES ASSUME IInv, IsFiniteSet(DOMAIN book.spans),
                        NEW cmd \in Given, NEW c \in Made(cmd)
                 PROVE  RecordedStays(book, c, Targets(book, cmd))
      BY DEF RecordedTimeSurvives, RecordedStays
    <2>1. PICK now \in Clock : c \in Outcomes(book, cmd, now)
      BY DEF Made
    <2>2. cmd \in Command /\ now \in Instants
      BY <2>1, GivenAssumption
    <2>3. SoundBook(book)
      BY DEF SoundBook, IInv, TypeOK
    <2>4. RecordedStays(book, c, IF cmd.op \in {"edit", "cliEdit", "remove"}
                                 THEN Resolve(book, cmd.span) ELSE {})
      BY <2>1, <2>2, <2>3, OutcomesKeepRecorded
    <2>5. cmd.op \in {"edit", "cliEdit", "remove"} =>
              Resolve(book, cmd.span) \subseteq Targets(book, cmd)
      <3> SUFFICES ASSUME cmd.op \in {"edit", "cliEdit", "remove"}
                   PROVE  Resolve(book, cmd.span) \subseteq PointedAt(book, cmd.span)
        BY DEF Targets
      <3>1. cmd.span = None \/ cmd.span \in Int
        BY <2>2, CommandKinds, IdAssumption
        DEF EditCommand, CliEditCommand, RemoveCommand, OrNone
      <3> QED
        BY <3>1, ResolvePoints
    <2> QED
      BY <2>4, <2>5 DEF RecordedStays
  <1> QED
    BY <1>1, Soundness, SpansStayFinite, PTL

\* CoswStore::edit_span does what its arguments ask.
LEMMA EditDoesWhatIsAsked ==
    ASSUME IInv, NEW cmd \in EditCommand, cmd.op = "edit", NEW c \in EditOutcomes(book, cmd)
    PROVE  /\ cmd.span \in PointedAt(book, cmd.span)
           /\ c.spans[cmd.span] = SpanAfter(cmd, book.spans[cmd.span])
           /\ ProjectAsAsked(cmd, c, book.spans[cmd.span], c.spans[cmd.span])
           /\ TagsAsAsked(cmd, c, book.spans[cmd.span], c.spans[cmd.span])
  <1>1. /\ cmd.span \in DOMAIN book.spans
        /\ c.spans[cmd.span] = SpanAfter(cmd, book.spans[cmd.span])
    BY EditOutcomesFields DEF IInv, TypeOK, SoundBook
  <1>2. cmd.unassign \in BOOLEAN
    BY DEF EditCommand
  <1> QED
    BY <1>1, <1>2 DEF PointedAt, SpanAfter, ProjectAsAsked, TagsAsAsked, Or

\* The CLI's edit does, although it unassigns, creates and looks names up on the way.
LEMMA CliEditDoesWhatIsAsked ==
    ASSUME IInv, NEW cmd \in CliEditCommand, cmd.op = "cliEdit",
           NEW c \in CliEditOutcomes(book, cmd)
    PROVE  \E i \in Resolve(book, cmd.span) :
               LET old == book.spans[i]
                   new == c.spans[i]
               IN  /\ new.started_at = Or(cmd.from, old.started_at)
                   /\ new.stopped_at = Or(cmd.to, old.stopped_at)
                   /\ new.description = IF cmd.text = None THEN old.description
                                        ELSE Normalized(cmd.text)
                   /\ ProjectAsAsked(cmd, c, old, new)
                   /\ TagsAsAsked(cmd, c, old, new)
  <1> DEFINE Base(i) == IF cmd.unassign THEN Unassigned(book, i) ELSE book
             Rest(i, d, newTags) ==
                 [span |-> i, from |-> cmd.from, to |-> cmd.to, project |-> d.project,
                  tags |-> newTags, unassign |-> FALSE, text |-> cmd.text]
             Ends(i, d) == UNION {EditOutcomes(d.book, Rest(i, d, newTags)) :
                                      newTags \in Retagged(d.book, i, cmd.what, d.tags, cmd.untag)}
             Per(i) == UNION {Ends(i, d) : d \in Classified(Base(i), cmd.what)}
  <1>1. /\ cmd.what \in ByNames /\ cmd.unassign \in BOOLEAN
        /\ cmd.what.project # None => ~cmd.unassign
    BY DEF CliEditCommand
  <1>2. PICK i \in Resolve(book, cmd.span) : c \in Per(i)
    <2>1. CliEditOutcomes(book, cmd) = UNION {Per(k) : k \in Resolve(book, cmd.span)}
      BY Zenon DEF CliEditOutcomes
    <2> HIDE DEF Per
    <2> QED
      BY <2>1
  <1>3. SoundBook(book)
    BY DEF SoundBook, IInv, TypeOK
  <1>4. i \in DOMAIN book.spans /\ book.spans[i] \in Span
    BY <1>3, ResolveFinds
  <1>5. /\ SoundBook(Base(i)) /\ i \in DOMAIN Base(i).spans
        /\ Base(i).spans[i] = IF cmd.unassign THEN [book.spans[i] EXCEPT !.project_id = None]
                              ELSE book.spans[i]
    <2>1. SoundBook(Unassigned(book, i))
      BY <1>3, <1>4, UnassignKeepsSound DEF SoundBook, CanUnassign
    <2>2. /\ i \in DOMAIN Unassigned(book, i).spans
          /\ Unassigned(book, i).spans[i] = [book.spans[i] EXCEPT !.project_id = None]
      BY <1>3, <1>4 DEF Unassigned, SoundBook, Logbook
    <2> QED
      BY <1>3, <1>4, <2>1, <2>2
  <1> HIDE DEF Base
  <1>6. PICK d \in Classified(Base(i), cmd.what) : c \in Ends(i, d)
    <2> HIDE DEF Ends
    <2> QED
      BY <1>2
  <1>7. /\ SoundBook(d.book) /\ d.book.spans = Base(i).spans
        /\ d.project \in OrNone(ProjectIds)
    BY <1>1, <1>5, ClassifiedSound
  <1>8. /\ cmd.what.project = None => d.project = None
        /\ cmd.what.project # None =>
               /\ d.project \in DOMAIN d.book.projects
               /\ Fold[d.book.projects[d.project].name] = Fold[cmd.what.project]
        /\ cmd.what.tag = None => d.tags = {}
        /\ cmd.what.tag # None =>
               \E k \in DOMAIN d.book.tags :
                   d.tags = {k} /\ Fold[d.book.tags[k].name] = Fold[cmd.what.tag]
    BY <1>1, <1>5, ClassifiedNames
  <1>9. PICK newTags \in Retagged(d.book, i, cmd.what, d.tags, cmd.untag) :
            c \in EditOutcomes(d.book, Rest(i, d, newTags))
    BY <1>6
  <1> DEFINE rest == Rest(i, d, newTags)
             old == book.spans[i]
             new == c.spans[i]
  <1>10. /\ rest.span = i /\ rest.from = cmd.from /\ rest.to = cmd.to /\ rest.text = cmd.text
         /\ rest.project = d.project /\ rest.tags = newTags /\ ~rest.unassign
    OBVIOUS
  <1>11. c \in EditOutcomes(d.book, rest)
    BY <1>9
  <1> HIDE DEF rest
  <1>12. new = SpanAfter(rest, d.book.spans[i]) /\ SameCatalogue(d.book, c)
    BY <1>7, <1>10, <1>11, EditOutcomesFields
  <1>13. /\ d.book.spans[i].started_at = old.started_at
         /\ d.book.spans[i].stopped_at = old.stopped_at
         /\ d.book.spans[i].description = old.description
         /\ d.book.spans[i].tag_ids = old.tag_ids
         /\ d.book.spans[i].project_id = IF cmd.unassign THEN None ELSE old.project_id
    BY <1>4, <1>5, <1>7 DEF Span
  <1>14. /\ new.started_at = Or(cmd.from, old.started_at)
         /\ new.stopped_at = Or(cmd.to, old.stopped_at)
         /\ new.description = IF cmd.text = None THEN old.description ELSE Normalized(cmd.text)
         /\ new.project_id = Or(d.project, IF cmd.unassign THEN None ELSE old.project_id)
         /\ new.tag_ids = IF newTags = {} THEN old.tag_ids ELSE UNION newTags
    BY <1>10, <1>12, <1>13 DEF SpanAfter
  <1>15. ProjectAsAsked(cmd, c, old, new)
    <2>1. DOMAIN d.book.projects \subseteq ProjectIds
      BY <1>7, LogbookFields DEF SoundBook
    <2>2. None \notin DOMAIN d.book.projects
      BY <2>1, NoneAssumption
    <2> QED
      BY <1>1, <1>8, <1>12, <1>14, <2>2 DEF ProjectAsAsked, Called, SameCatalogue, Or
  <1>16. TagsAsAsked(cmd, c, old, new)
    <2>1. \/ cmd.untag = None /\ cmd.what.tag = None /\ newTags = {}
          \/ cmd.untag = None /\ cmd.what.tag # None /\ newTags = {old.tag_ids \cup d.tags}
          \/ /\ cmd.untag # None
             /\ \E k \in Named(d.book.tags, cmd.untag) \cap (old.tag_ids \cup d.tags) :
                    newTags = {(old.tag_ids \cup d.tags) \ {k}}
      BY <1>9, <1>13 DEF Retagged
    <2>2. CASE cmd.untag = None /\ cmd.what.tag = None /\ newTags = {}
      BY <1>14, <2>2 DEF TagsAsAsked
    <2>3. CASE cmd.untag = None /\ cmd.what.tag # None /\ newTags = {old.tag_ids \cup d.tags}
      <3>1. new.tag_ids = old.tag_ids \cup d.tags
        BY <1>14, <2>3
      <3> QED
        BY <1>8, <1>12, <2>3, <3>1 DEF TagsAsAsked, Called, SameCatalogue
    <2>4. CASE cmd.untag # None /\ \E k \in Named(d.book.tags, cmd.untag)
                                              \cap (old.tag_ids \cup d.tags) :
                                       newTags = {(old.tag_ids \cup d.tags) \ {k}}
      <3>1. PICK k \in Named(d.book.tags, cmd.untag) \cap (old.tag_ids \cup d.tags) :
                newTags = {(old.tag_ids \cup d.tags) \ {k}}
        BY <2>4
      <3>2. new.tag_ids = (old.tag_ids \cup d.tags) \ {k}
        BY <1>14, <3>1
      <3>3. Fold[d.book.tags[k].name] = Fold[cmd.untag]
        BY <3>1 DEF Named
      <3> QED
        BY <1>8, <1>12, <2>4, <3>2, <3>3 DEF TagsAsAsked, Called, SameCatalogue
    <2> QED
      BY <2>1, <2>2, <2>3, <2>4
  <1> QED
    BY <1>14, <1>15, <1>16

\* For every command to edit, of the app or of the CLI, on every logbook the mutations build:
\* the span it points at ends up as asked, and in nothing else than asked.
THEOREM EditsAreDone == Spec => []EditsDoWhatIsAsked
  <1>1. IInv /\ IsFiniteSet(DOMAIN book.spans) => EditsDoWhatIsAsked
    <2> SUFFICES ASSUME IInv, IsFiniteSet(DOMAIN book.spans), NEW cmd \in Given,
                        cmd.op \in {"edit", "cliEdit"}, NEW c \in Made(cmd)
                 PROVE  \E i \in PointedAt(book, cmd.span) :
                            LET old == book.spans[i]
                                new == c.spans[i]
                            IN  /\ new.started_at = Or(cmd.from, old.started_at)
                                /\ new.stopped_at = Or(cmd.to, old.stopped_at)
                                /\ new.description = IF cmd.text = None THEN old.description
                                                     ELSE Normalized(cmd.text)
                                /\ ProjectAsAsked(cmd, c, old, new)
                                /\ TagsAsAsked(cmd, c, old, new)
      BY DEF EditsDoWhatIsAsked, Targets
    <2>1. PICK now \in Clock : c \in Outcomes(book, cmd, now)
      BY DEF Made
    <2>2. cmd \in Command
      BY GivenAssumption
    <2>3. CASE cmd.op = "edit"
      <3>1. cmd \in EditCommand /\ c \in EditOutcomes(book, cmd)
        BY <2>1, <2>2, <2>3, CommandKinds DEF Outcomes
      <3>2. /\ cmd.span \in PointedAt(book, cmd.span)
            /\ c.spans[cmd.span] = SpanAfter(cmd, book.spans[cmd.span])
            /\ ProjectAsAsked(cmd, c, book.spans[cmd.span], c.spans[cmd.span])
            /\ TagsAsAsked(cmd, c, book.spans[cmd.span], c.spans[cmd.span])
        BY <2>3, <3>1, EditDoesWhatIsAsked
      <3>3. /\ c.spans[cmd.span].started_at = Or(cmd.from, book.spans[cmd.span].started_at)
            /\ c.spans[cmd.span].stopped_at = Or(cmd.to, book.spans[cmd.span].stopped_at)
            /\ c.spans[cmd.span].description =
                   IF cmd.text = None THEN book.spans[cmd.span].description
                   ELSE Normalized(cmd.text)
        BY <3>2 DEF SpanAfter
      <3> QED
        BY <3>2, <3>3
    <2>4. CASE cmd.op = "cliEdit"
      <3>1. cmd \in CliEditCommand /\ c \in CliEditOutcomes(book, cmd)
        BY <2>1, <2>2, <2>4, CommandKinds DEF Outcomes
      <3>2. cmd.span = None \/ cmd.span \in Int
        BY <3>1 DEF CliEditCommand, OrNone
      <3>3. Resolve(book, cmd.span) \subseteq PointedAt(book, cmd.span)
        BY <3>2, ResolvePoints
      <3> QED
        BY <2>4, <3>1, <3>3, CliEditDoesWhatIsAsked
    <2> QED
      BY <2>3, <2>4
  <1> QED
    BY <1>1, Soundness, SpansStayFinite, PTL
=============================================================================
