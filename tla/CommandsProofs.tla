--------------------------- MODULE CommandsProofs ---------------------------
(***************************************************************************)
(* Every command of the clients turns a sound logbook into a sound logbook *)
(* (or fails), and leaves alone the recorded time it is not given to       *)
(* change.  One lemma per kind of command, each resting on the lemmas      *)
(* about the mutations it is made of.                                      *)
(***************************************************************************)
EXTENDS Commands, DomainProofs

SoundBook(b) == b \in Logbook /\ Sound(b)

\* From b to c no span outside T changes or goes.
OthersStay(b, c, T) ==
    \A i \in DOMAIN b.spans \ T : i \in DOMAIN c.spans /\ c.spans[i] = b.spans[i]

\* From b to c no span that has stopped changes or goes, unless it is in T.
RecordedStays(b, c, T) ==
    \A i \in DOMAIN b.spans \ T :
        b.spans[i].stopped_at # None => i \in DOMAIN c.spans /\ c.spans[i] = b.spans[i]

----------------------------------------------------------------------------
(* What the mutations leave alone. *)

\* What is running or new has not been recorded yet.
LEMMA RunningIsNotRecorded ==
    ASSUME NEW b, SoundBook(b), NEW c, NEW S, OthersStay(b, c, S),
           S \cap DOMAIN b.spans \subseteq {b.active_span_id}
    PROVE  RecordedStays(b, c, {})
  <1>1. \A i \in S \cap DOMAIN b.spans : b.spans[i].stopped_at = None
    <2>1. None \notin DOMAIN b.spans
      BY LogbookFields, NoneAssumption DEF SoundBook
    <2> QED
      BY <2>1 DEF SoundBook, Sound, ActivePointerConsistent, Unstopped
  <1> QED
    BY <1>1 DEF OthersStay, RecordedStays

\* start, stop and switch touch the new span and the active one.
LEMMA TimerLeavesOthers ==
    ASSUME NEW b \in Logbook, NEW id, NEW at, NEW p, NEW ts
    PROVE  /\ OthersStay(b, Started(b, id, at, p, ts), {id})
           /\ OthersStay(b, Stopped(b, at), {b.active_span_id})
           /\ OthersStay(b, Switched(b, id, at, p, ts), {b.active_span_id, id})
  <1>1. Started(b, id, at, p, ts).spans = Insert(b.spans, id, NewSpan(at, p, ts))
    BY DEF Started, Logbook
  <1>2. OthersStay(b, Stopped(b, at), {b.active_span_id})
    BY DEF OthersStay, Stopped, Logbook
  <1>3. CASE b.active_span_id = None
    BY <1>1, <1>2, <1>3 DEF OthersStay, Insert, Switched
  <1>4. CASE b.active_span_id # None
    <2>1. Switched(b, id, at, p, ts).spans
              = Insert(Stopped(b, at).spans, id, NewSpan(at, p, ts))
      BY <1>4 DEF Switched, Started, Stopped, Logbook
    <2> QED
      BY <1>1, <1>2, <2>1 DEF OthersStay, Insert
  <1> QED
    BY <1>3, <1>4

\* The history's mutations touch the span they are given, or the new one.
LEMMA HistoryLeavesOthers ==
    ASSUME NEW b \in Logbook, NEW id
    PROVE  /\ \A start, stop, p, ts : OthersStay(b, Added(b, id, start, stop, p, ts), {id})
           /\ \A start, stop, p, newTags :
                  OthersStay(b, Edited(b, id, start, stop, p, newTags), {id})
           /\ OthersStay(b, Unassigned(b, id), {id})
           /\ OthersStay(b, Removed(b, id), {id})
           /\ \A text : /\ OthersStay(b, Described(b, id, text), {id})
                        /\ Described(b, id, text).active_span_id = b.active_span_id
  <1>1. \A start, stop, p, ts : OthersStay(b, Added(b, id, start, stop, p, ts), {id})
    BY DEF OthersStay, Added, Insert, Logbook
  <1>2. \A start, stop, p, newTags :
            OthersStay(b, Edited(b, id, start, stop, p, newTags), {id})
    BY DEF OthersStay, Edited, Logbook
  <1>3. OthersStay(b, Unassigned(b, id), {id})
    BY DEF OthersStay, Unassigned, Logbook
  <1>4. OthersStay(b, Removed(b, id), {id})
    BY DEF OthersStay, Removed, Remove, Logbook
  <1>5. \A text : /\ OthersStay(b, Described(b, id, text), {id})
                 /\ Described(b, id, text).active_span_id = b.active_span_id
    BY DEF OthersStay, Described, Logbook
  <1> QED
    BY <1>1, <1>2, <1>3, <1>4, <1>5

----------------------------------------------------------------------------
(* What the commands have in common. *)

\* A description is applied or left out, or the command fails.
LEMMA DescribeSound ==
    ASSUME NEW b, SoundBook(b), NEW id, NEW text \in OrNone(Texts),
           NEW c \in Describe(b, id, text)
    PROVE  /\ SoundBook(c) /\ OthersStay(b, c, {id})
           /\ c.active_span_id = b.active_span_id
  <1>1. CASE text = None
    BY <1>1 DEF Describe, OthersStay
  <1>2. CASE text # None
    <2>1. CanDescribe(b, id, text) /\ c = Described(b, id, text)
      BY <1>2 DEF Describe
    <2>2. SoundBook(c)
      BY <2>1, DescribeKeepsSound DEF SoundBook
    <2> QED
      BY <2>1, <2>2, HistoryLeavesOthers DEF SoundBook
  <1> QED
    BY <1>1, <1>2

\* A span reference stands for a span the logbook has: the active pointer does not dangle.
LEMMA ResolveFinds ==
    ASSUME NEW b, SoundBook(b), NEW ref, NEW i \in Resolve(b, ref)
    PROVE  i \in DOMAIN b.spans /\ i \in SpanIds /\ b.spans[i] \in Span
  <1>1. i \in DOMAIN b.spans
    <2>1. CASE b.active_span_id # None /\ i = b.active_span_id
      BY <2>1 DEF SoundBook, Sound, ActivePointerConsistent, Unstopped
    <2> QED
      BY <2>1 DEF Resolve
  <1> QED
    BY <1>1, LogbookFields DEF SoundBook

\* Resolving a project name leaves a sound logbook with the same spans.
LEMMA ResolveProjectSound ==
    ASSUME NEW b, SoundBook(b), NEW name \in OrNone(Names), NEW r \in ResolveProject(b, name)
    PROVE  /\ SoundBook(r.book) /\ r.book.spans = b.spans
           /\ r.project \in OrNone(ProjectIds)
  <1>1. CASE name = None
    BY <1>1 DEF ResolveProject, OrNone
  <1>2. CASE name # None /\ Named(b.projects, name) # {}
    <2>1. r.book = b /\ r.project \in DOMAIN b.projects
      BY <1>2 DEF ResolveProject, Named
    <2> QED
      BY <2>1, LogbookFields DEF SoundBook, OrNone
  <1>3. CASE name # None /\ Named(b.projects, name) = {}
    <2>1. PICK k \in UnusedProjectIds(b) :
              /\ CanAddProject(b, name)
              /\ r = [book |-> ProjectAdded(b, k, name, None), project |-> k]
      BY <1>3 DEF ResolveProject
    <2>2. k \in ProjectIds /\ k \notin DOMAIN b.projects /\ name \in Names
      BY <1>3 DEF UnusedProjectIds, OrNone
    <2>3. SoundBook(ProjectAdded(b, k, name, None))
      BY <2>1, <2>2, AddProjectKeepsSound DEF SoundBook, OrNone
    <2>4. ProjectAdded(b, k, name, None).spans = b.spans
      <3> DEFINE project == [name |-> name, client |-> Normalized(None), archived |-> FALSE]
                 m == Insert(b.projects, k, project)
      <3>1. ProjectAdded(b, k, name, None) = [b EXCEPT !.projects = m]
        BY Zenon DEF ProjectAdded
      <3> HIDE DEF m
      <3> QED
        BY <3>1 DEF SoundBook, Logbook
    <2> QED
      BY <2>1, <2>2, <2>3, <2>4 DEF OrNone
  <1> QED
    BY <1>1, <1>2, <1>3

\* Resolving a tag name leaves a sound logbook with the same spans.
LEMMA ResolveTagSound ==
    ASSUME NEW b, SoundBook(b), NEW name \in OrNone(Names), NEW r \in ResolveTag(b, name)
    PROVE  /\ SoundBook(r.book) /\ r.book.spans = b.spans
           /\ r.tags \in SUBSET TagIds
  <1>1. CASE name = None
    BY <1>1 DEF ResolveTag
  <1>2. CASE name # None /\ Named(b.tags, name) # {}
    <2>1. PICK k \in DOMAIN b.tags : r = [book |-> b, tags |-> {k}]
      BY <1>2 DEF ResolveTag, Named
    <2> QED
      BY <2>1, LogbookFields DEF SoundBook
  <1>3. CASE name # None /\ Named(b.tags, name) = {}
    <2>1. PICK k \in UnusedTagIds(b) :
              CanAddTag(b, name) /\ r = [book |-> TagAdded(b, k, name), tags |-> {k}]
      BY <1>3 DEF ResolveTag
    <2>2. k \in TagIds /\ k \notin DOMAIN b.tags /\ name \in Names
      BY <1>3 DEF UnusedTagIds, OrNone
    <2>3. SoundBook(TagAdded(b, k, name))
      BY <2>1, <2>2, AddTagKeepsSound DEF SoundBook
    <2>4. TagAdded(b, k, name).spans = b.spans
      <3> DEFINE tag == [name |-> name, archived |-> FALSE]
                 m == Insert(b.tags, k, tag)
      <3>1. TagAdded(b, k, name) = [b EXCEPT !.tags = m]
        BY Zenon DEF TagAdded
      <3> HIDE DEF m
      <3> QED
        BY <3>1 DEF SoundBook, Logbook
    <2> QED
      BY <2>1, <2>2, <2>3, <2>4
  <1> QED
    BY <1>1, <1>2, <1>3

\* Whatever a command says about a span, ids come out of it and the spans are untouched.
LEMMA ClassifiedSound ==
    ASSUME NEW b, SoundBook(b), NEW what \in ByIds \cup ByNames, NEW r \in Classified(b, what)
    PROVE  /\ SoundBook(r.book) /\ r.book.spans = b.spans
           /\ r.project \in OrNone(ProjectIds) /\ r.tags \in SUBSET TagIds
  <1>1. CASE what.named
    <2>1. what \in ByNames
      BY <1>1 DEF ByIds
    <2>2. what.project \in OrNone(Names) /\ what.tag \in OrNone(Names)
      BY <2>1 DEF ByNames
    <2>3. PICK p \in ResolveProject(b, what.project) :
              \E t \in ResolveTag(p.book, what.tag) :
                  r = [book |-> t.book, project |-> p.project, tags |-> t.tags]
      BY <1>1 DEF Classified
    <2>4. SoundBook(p.book) /\ p.book.spans = b.spans /\ p.project \in OrNone(ProjectIds)
      BY <2>2, ResolveProjectSound
    <2>5. PICK t \in ResolveTag(p.book, what.tag) :
              r = [book |-> t.book, project |-> p.project, tags |-> t.tags]
      BY <2>3
    <2>6. SoundBook(t.book) /\ t.book.spans = p.book.spans /\ t.tags \in SUBSET TagIds
      BY <2>2, <2>4, ResolveTagSound
    <2> QED
      BY <2>4, <2>5, <2>6
  <1>2. CASE ~what.named
    <2>1. what \in ByIds
      BY <1>2 DEF ByNames
    <2> QED
      BY <1>2, <2>1 DEF Classified, ByIds
  <1> QED
    BY <1>1, <1>2

\* The spans say which of them is active.
LEMMA SameSpansSameTimer ==
    ASSUME NEW b, SoundBook(b), NEW c, SoundBook(c), c.spans = b.spans
    PROVE  c.active_span_id = b.active_span_id
  BY DEF SoundBook, Sound, ActivePointerConsistent, Unstopped

----------------------------------------------------------------------------
(* The timer. *)

LEMMA StartOutcomesSound ==
    ASSUME NEW b, SoundBook(b), NEW cmd \in StartCommand, NEW at \in Instants,
           NEW c \in StartOutcomes(b, cmd, at)
    PROVE  SoundBook(c) /\ RecordedStays(b, c, {})
  <1>1. cmd.what \in ByIds \cup ByNames /\ cmd.text \in OrNone(Texts)
    BY DEF StartCommand
  <1>2. PICK d \in Classified(b, cmd.what), id \in UnusedSpanIds(b) :
            /\ CanStart(d.book, at, d.project, d.tags)
            /\ c \in Describe(Started(d.book, id, at, d.project, d.tags), id, cmd.text)
    BY DEF StartOutcomes
  <1>3. SoundBook(d.book) /\ d.book.spans = b.spans /\ d.tags \in SUBSET TagIds
    BY <1>1, ClassifiedSound
  <1>4. id \in SpanIds /\ id \notin DOMAIN d.book.spans
    BY <1>3 DEF UnusedSpanIds
  <1>5. SoundBook(Started(d.book, id, at, d.project, d.tags))
    BY <1>2, <1>3, <1>4, StartKeepsSound DEF SoundBook
  <1>6. OthersStay(d.book, Started(d.book, id, at, d.project, d.tags), {id})
    BY <1>3, TimerLeavesOthers DEF SoundBook
  <1>7. SoundBook(c) /\ OthersStay(Started(d.book, id, at, d.project, d.tags), c, {id})
    BY <1>1, <1>2, <1>5, DescribeSound
  <1>8. OthersStay(b, c, {id})
    BY <1>3, <1>6, <1>7 DEF OthersStay
  <1> QED
    BY <1>3, <1>4, <1>7, <1>8, RunningIsNotRecorded

LEMMA SwitchOutcomesSound ==
    ASSUME NEW b, SoundBook(b), NEW cmd \in StartCommand, NEW at \in Instants,
           NEW c \in SwitchOutcomes(b, cmd, at)
    PROVE  SoundBook(c) /\ RecordedStays(b, c, {})
  <1>1. cmd.what \in ByIds \cup ByNames /\ cmd.text \in OrNone(Texts)
    BY DEF StartCommand
  <1>2. PICK d \in Classified(b, cmd.what), id \in UnusedSpanIds(b) :
            /\ CanSwitch(d.book, at, d.project, d.tags)
            /\ c \in Describe(Switched(d.book, id, at, d.project, d.tags), id, cmd.text)
    BY DEF SwitchOutcomes
  <1>3. SoundBook(d.book) /\ d.book.spans = b.spans /\ d.tags \in SUBSET TagIds
    BY <1>1, ClassifiedSound
  <1>4. id \in SpanIds /\ id \notin DOMAIN d.book.spans
    BY <1>3 DEF UnusedSpanIds
  <1>5. SoundBook(Switched(d.book, id, at, d.project, d.tags))
    BY <1>2, <1>3, <1>4, SwitchKeepsSound DEF SoundBook
  <1>6. OthersStay(d.book, Switched(d.book, id, at, d.project, d.tags),
                   {d.book.active_span_id, id})
    BY <1>3, TimerLeavesOthers DEF SoundBook
  <1>7. SoundBook(c) /\ OthersStay(Switched(d.book, id, at, d.project, d.tags), c, {id})
    BY <1>1, <1>2, <1>5, DescribeSound
  <1>8. d.book.active_span_id = b.active_span_id
    BY <1>3, SameSpansSameTimer
  <1>9. OthersStay(b, c, {b.active_span_id, id})
    BY <1>3, <1>6, <1>7, <1>8 DEF OthersStay
  <1> QED
    BY <1>3, <1>4, <1>7, <1>9, RunningIsNotRecorded

LEMMA StopOutcomesSound ==
    ASSUME NEW b, SoundBook(b), NEW cmd \in StopCommand, NEW at \in Instants,
           NEW c \in StopOutcomes(b, cmd, at)
    PROVE  SoundBook(c) /\ RecordedStays(b, c, {})
  <1>1. PICK d \in Describe(b, b.active_span_id, cmd.text) : CanStop(d, at) /\ c = Stopped(d, at)
    BY DEF StopOutcomes
  <1>2. /\ SoundBook(d) /\ OthersStay(b, d, {b.active_span_id})
        /\ d.active_span_id = b.active_span_id
    BY <1>1, DescribeSound DEF StopCommand
  <1>3. SoundBook(c)
    BY <1>1, <1>2, StopKeepsSound DEF SoundBook, CanStop
  <1>4. OthersStay(d, c, {b.active_span_id})
    BY <1>1, <1>2, TimerLeavesOthers DEF SoundBook
  <1>5. OthersStay(b, c, {b.active_span_id})
    BY <1>2, <1>4 DEF OthersStay
  <1> QED
    BY <1>3, <1>5, RunningIsNotRecorded

\* The copy keeps the project, the tags and, unless one is given, the description.
LEMMA ResumeOutcomesSound ==
    ASSUME NEW b, SoundBook(b), NEW cmd \in ResumeCommand, NEW at \in Instants,
           NEW c \in ResumeOutcomes(b, cmd, at)
    PROVE  SoundBook(c) /\ RecordedStays(b, c, {})
  <1>1. PICK i \in Resolve(b, cmd.span) : \E id \in UnusedSpanIds(b) :
            /\ CanStart(b, at, b.spans[i].project_id, b.spans[i].tag_ids)
            /\ c \in Describe(Started(b, id, at, b.spans[i].project_id, b.spans[i].tag_ids),
                              id, Or(cmd.text, b.spans[i].description))
    BY DEF ResumeOutcomes
  <1>2. b.spans[i] \in Span
    BY ResolveFinds
  <1>3. b.spans[i].tag_ids \in SUBSET TagIds /\ b.spans[i].description \in OrNone(Texts)
    BY <1>2 DEF Span, StoredDescription, OrNone
  <1>4. PICK id \in UnusedSpanIds(b) :
            /\ CanStart(b, at, b.spans[i].project_id, b.spans[i].tag_ids)
            /\ c \in Describe(Started(b, id, at, b.spans[i].project_id, b.spans[i].tag_ids),
                              id, Or(cmd.text, b.spans[i].description))
    BY <1>1
  <1>5. SoundBook(Started(b, id, at, b.spans[i].project_id, b.spans[i].tag_ids))
    BY <1>3, <1>4, StartKeepsSound DEF SoundBook, UnusedSpanIds
  <1>6. cmd.text \in OrNone(Texts)
    BY DEF ResumeCommand
  <1>7. Or(cmd.text, b.spans[i].description) \in OrNone(Texts)
    BY <1>3, <1>6 DEF Or
  <1> DEFINE started == Started(b, id, at, b.spans[i].project_id, b.spans[i].tag_ids)
  <1>8. OthersStay(b, started, {id})
    BY TimerLeavesOthers DEF SoundBook
  <1>9. SoundBook(c) /\ OthersStay(started, c, {id})
    BY <1>4, <1>5, <1>7, DescribeSound
  <1> HIDE DEF started
  <1>10. OthersStay(b, c, {id})
    BY <1>8, <1>9 DEF OthersStay
  <1> QED
    BY <1>9, <1>10, RunningIsNotRecorded DEF UnusedSpanIds

LEMMA CancelOutcomesSound ==
    ASSUME NEW b, SoundBook(b), NEW cmd, NEW c \in CancelOutcomes(b, cmd)
    PROVE  SoundBook(c) /\ RecordedStays(b, c, {})
  <1>1. CASE b.active_span_id # None
    <2>1. b.active_span_id \in Resolve(b, None)
      BY <1>1 DEF Resolve
    <2>2. CanRemove(b, b.active_span_id) /\ b.active_span_id \in SpanIds
      BY <2>1, ResolveFinds DEF CanRemove
    <2>3. c = Removed(b, b.active_span_id)
      BY <1>1 DEF CancelOutcomes
    <2>4. SoundBook(c)
      BY <2>2, <2>3, RemoveKeepsSound DEF SoundBook
    <2>5. OthersStay(b, c, {b.active_span_id})
      BY <2>3, HistoryLeavesOthers DEF SoundBook
    <2> QED
      BY <2>4, <2>5, RunningIsNotRecorded
  <1>2. CASE b.active_span_id = None
    BY <1>2 DEF CancelOutcomes, RecordedStays
  <1> QED
    BY <1>1, <1>2

----------------------------------------------------------------------------
(* The history. *)

LEMMA AddOutcomesSound ==
    ASSUME NEW b, SoundBook(b), NEW cmd \in AddCommand, NEW c \in AddOutcomes(b, cmd)
    PROVE  SoundBook(c) /\ RecordedStays(b, c, {})
  <1>1. /\ cmd.what \in ByIds \cup ByNames /\ cmd.text \in OrNone(Texts)
        /\ cmd.from \in Instants /\ cmd.to \in Instants
    BY DEF AddCommand
  <1>2. PICK d \in Classified(b, cmd.what), id \in UnusedSpanIds(b) :
            /\ CanAdd(d.book, cmd.from, cmd.to, d.project, d.tags)
            /\ c \in Describe(Added(d.book, id, cmd.from, cmd.to, d.project, d.tags), id, cmd.text)
    BY DEF AddOutcomes
  <1>3. SoundBook(d.book) /\ d.book.spans = b.spans /\ d.tags \in SUBSET TagIds
    BY <1>1, ClassifiedSound
  <1>4. id \in SpanIds /\ id \notin DOMAIN d.book.spans
    BY <1>3 DEF UnusedSpanIds
  <1>5. SoundBook(Added(d.book, id, cmd.from, cmd.to, d.project, d.tags))
    BY <1>1, <1>2, <1>3, <1>4, AddKeepsSound DEF SoundBook
  <1> DEFINE added == Added(d.book, id, cmd.from, cmd.to, d.project, d.tags)
  <1>6. OthersStay(d.book, added, {id})
    BY <1>3, HistoryLeavesOthers DEF SoundBook
  <1>7. SoundBook(c) /\ OthersStay(added, c, {id})
    BY <1>1, <1>2, <1>5, DescribeSound
  <1> HIDE DEF added
  <1>8. OthersStay(b, c, {id})
    BY <1>3, <1>6, <1>7 DEF OthersStay
  <1> QED
    BY <1>3, <1>4, <1>7, <1>8, RunningIsNotRecorded

\* Editing, unassigning and describing one span: the app's edit and the end of the CLI's.
LEMMA EditOutcomesSound ==
    ASSUME NEW b, SoundBook(b), NEW cmd,
           cmd.from \in OrNone(Instants), cmd.to \in OrNone(Instants),
           cmd.project \in OrNone(ProjectIds), cmd.text \in OrNone(Texts),
           cmd.tags \in {{}} \cup {{ts} : ts \in SUBSET TagIds},
           NEW c \in EditOutcomes(b, cmd)
    PROVE  SoundBook(c) /\ OthersStay(b, c, {cmd.span}) /\ cmd.span \in DOMAIN b.spans
  <1> DEFINE edited == Edited(b, cmd.span, cmd.from, cmd.to, cmd.project, cmd.tags)
             kept == IF cmd.unassign THEN Unassigned(edited, cmd.span) ELSE edited
  <1>1. CanEdit(b, cmd.span, cmd.from, cmd.to, cmd.project, cmd.tags)
    BY DEF EditOutcomes
  <1>2. c \in Describe(kept, cmd.span, cmd.text)
    BY <1>1 DEF EditOutcomes
  <1>3. SoundBook(edited)
    BY <1>1, EditKeepsSound DEF SoundBook
  <1>4. DOMAIN edited.spans = DOMAIN b.spans
    BY DEF Edited, SoundBook, Logbook
  <1>5. CanUnassign(edited, cmd.span)
    BY <1>1, <1>4 DEF CanUnassign, CanEdit
  <1>6. OthersStay(b, edited, {cmd.span})
    BY HistoryLeavesOthers DEF SoundBook
  <1> HIDE DEF edited
  <1>7. SoundBook(kept)
    BY <1>3, <1>5, UnassignKeepsSound DEF SoundBook
  <1>8. OthersStay(edited, kept, {cmd.span})
    <2>1. OthersStay(edited, Unassigned(edited, cmd.span), {cmd.span})
      BY <1>3, HistoryLeavesOthers DEF SoundBook
    <2> QED
      BY <2>1 DEF OthersStay
  <1> HIDE DEF kept
  <1>9. SoundBook(c) /\ OthersStay(kept, c, {cmd.span})
    BY <1>2, <1>7, DescribeSound
  <1>10. OthersStay(b, c, {cmd.span})
    BY <1>6, <1>8, <1>9 DEF OthersStay
  <1> QED
    BY <1>1, <1>9, <1>10 DEF CanEdit

\* The tag sets of `cosw edit` are made of tags of the span and tags just resolved.
LEMMA RetaggedType ==
    ASSUME NEW b, NEW id, b.spans[id] \in Span, NEW what, NEW added \in SUBSET TagIds,
           NEW untag, NEW newTags \in Retagged(b, id, what, added, untag)
    PROVE  newTags \in {{}} \cup {{ts} : ts \in SUBSET TagIds}
  <1> DEFINE tags == b.spans[id].tag_ids \cup added
  <1>1. tags \in SUBSET TagIds
    BY DEF Span
  <1>2. newTags = {} \/ newTags = {tags} \/ \E k : newTags = {tags \ {k}}
    BY DEF Retagged
  <1>3. \A k : tags \ {k} \in SUBSET TagIds
    BY <1>1
  <1> HIDE DEF tags
  <1> QED
    BY <1>1, <1>2, <1>3

LEMMA CliEditOutcomesSound ==
    ASSUME NEW b, SoundBook(b), NEW cmd \in CliEditCommand, NEW c \in CliEditOutcomes(b, cmd)
    PROVE  SoundBook(c) /\ RecordedStays(b, c, Resolve(b, cmd.span))
  <1>1. /\ cmd.what \in ByIds \cup ByNames /\ cmd.text \in OrNone(Texts)
        /\ cmd.from \in OrNone(Instants) /\ cmd.to \in OrNone(Instants)
    BY DEF CliEditCommand
  <1> DEFINE Base(i) == IF cmd.unassign THEN Unassigned(b, i) ELSE b
             Rest(i, d, newTags) ==
                 [span |-> i, from |-> cmd.from, to |-> cmd.to, project |-> d.project,
                  tags |-> newTags, unassign |-> FALSE, text |-> cmd.text]
             Ends(i, d) == UNION {EditOutcomes(d.book, Rest(i, d, newTags)) :
                                      newTags \in Retagged(d.book, i, cmd.what, d.tags, cmd.untag)}
             Per(i) == UNION {Ends(i, d) : d \in Classified(Base(i), cmd.what)}
  <1>2. PICK i \in Resolve(b, cmd.span) : c \in Per(i)
    <2>1. CliEditOutcomes(b, cmd) = UNION {Per(i) : i \in Resolve(b, cmd.span)}
      BY Zenon DEF CliEditOutcomes
    <2> HIDE DEF Per
    <2> QED
      BY <2>1
  <1>3. i \in DOMAIN b.spans
    BY ResolveFinds
  <1>4. /\ SoundBook(Base(i)) /\ DOMAIN Base(i).spans = DOMAIN b.spans
        /\ OthersStay(b, Base(i), {i})
    <2>1. SoundBook(Unassigned(b, i))
      BY <1>3, UnassignKeepsSound DEF SoundBook, CanUnassign
    <2>2. DOMAIN Unassigned(b, i).spans = DOMAIN b.spans
      BY DEF Unassigned, SoundBook, Logbook
    <2>3. OthersStay(b, Unassigned(b, i), {i}) /\ OthersStay(b, b, {i})
      BY HistoryLeavesOthers DEF SoundBook, OthersStay
    <2> QED
      BY <2>1, <2>2, <2>3
  <1> HIDE DEF Base
  <1>5. PICK d \in Classified(Base(i), cmd.what) : c \in Ends(i, d)
    <2> HIDE DEF Ends
    <2> QED
      BY <1>2
  <1>6. /\ SoundBook(d.book) /\ d.book.spans = Base(i).spans
        /\ d.project \in OrNone(ProjectIds) /\ d.tags \in SUBSET TagIds
    BY <1>1, <1>4, ClassifiedSound
  <1>7. PICK newTags \in Retagged(d.book, i, cmd.what, d.tags, cmd.untag) :
            c \in EditOutcomes(d.book, Rest(i, d, newTags))
    BY <1>5
  <1>8. d.book.spans[i] \in Span
    <2>1. i \in DOMAIN d.book.spans
      BY <1>3, <1>4, <1>6
    <2> QED
      BY <1>6, <2>1, LogbookFields DEF SoundBook
  <1>9. newTags \in {{}} \cup {{ts} : ts \in SUBSET TagIds}
    BY <1>6, <1>7, <1>8, RetaggedType
  <1> DEFINE rest == Rest(i, d, newTags)
  <1>10. /\ rest.from \in OrNone(Instants) /\ rest.to \in OrNone(Instants)
         /\ rest.project \in OrNone(ProjectIds) /\ rest.text \in OrNone(Texts)
         /\ rest.tags \in {{}} \cup {{ts} : ts \in SUBSET TagIds}
    BY <1>1, <1>6, <1>9
  <1>11. c \in EditOutcomes(d.book, rest) /\ rest.span = i
    BY <1>7
  <1> HIDE DEF rest
  <1>12. SoundBook(c) /\ OthersStay(d.book, c, {i})
    BY <1>6, <1>10, <1>11, EditOutcomesSound
  <1>13. OthersStay(b, c, {i})
    BY <1>4, <1>6, <1>12 DEF OthersStay
  <1> QED
    BY <1>2, <1>12, <1>13 DEF OthersStay, RecordedStays

LEMMA RemoveOutcomesSound ==
    ASSUME NEW b, SoundBook(b), NEW cmd, NEW c \in RemoveOutcomes(b, cmd)
    PROVE  SoundBook(c) /\ RecordedStays(b, c, Resolve(b, cmd.span))
  <1>1. PICK i \in Resolve(b, cmd.span) : c = Removed(b, i)
    BY DEF RemoveOutcomes
  <1>2. i \in SpanIds /\ CanRemove(b, i)
    BY ResolveFinds DEF CanRemove
  <1>3. OthersStay(b, c, {i})
    BY <1>1, HistoryLeavesOthers DEF SoundBook
  <1> QED
    BY <1>1, <1>2, <1>3, RemoveKeepsSound DEF SoundBook, OthersStay, RecordedStays

----------------------------------------------------------------------------
(* The catalogue. *)

LEMMA AddEntryOutcomesSound ==
    ASSUME NEW b, SoundBook(b), NEW cmd \in AddEntryCommand,
           NEW c \in AddProjectOutcomes(b, cmd) \cup AddTagOutcomes(b, cmd)
    PROVE  SoundBook(c)
  <1>1. cmd.name \in Names /\ cmd.text \in OrNone(Texts)
    BY DEF AddEntryCommand
  <1>2. CASE c \in AddProjectOutcomes(b, cmd)
    BY <1>1, <1>2, AddProjectKeepsSound DEF AddProjectOutcomes, UnusedProjectIds, SoundBook
  <1>3. CASE c \in AddTagOutcomes(b, cmd)
    BY <1>1, <1>3, AddTagKeepsSound DEF AddTagOutcomes, UnusedTagIds, SoundBook
  <1> QED
    BY <1>2, <1>3

\* An entry is looked up among those the logbook has.
LEMMA MeantFinds ==
    ASSUME NEW m, NEW cmd, NEW k \in Meant(m, cmd)
    PROVE  k \in DOMAIN m
  BY DEF Meant, Named

LEMMA ProjectOutcomesSound ==
    ASSUME NEW b, SoundBook(b), NEW cmd \in EntryCommand,
           NEW c \in RenameProjectOutcomes(b, cmd) \cup ClientOutcomes(b, cmd)
                         \cup ArchiveProjectOutcomes(b, cmd)
    PROVE  SoundBook(c)
  <1>1. cmd.name \in Names /\ cmd.text \in OrNone(Texts) /\ cmd.archived \in BOOLEAN
    BY DEF EntryCommand
  <1>2. CASE c \in RenameProjectOutcomes(b, cmd)
    <2>1. PICK k \in Meant(b.projects, cmd) :
              CanRenameProject(b, k, cmd.name) /\ c = ProjectRenamed(b, k, cmd.name)
      BY <1>2 DEF RenameProjectOutcomes
    <2> QED
      BY <1>1, <2>1, MeantFinds, ProjectEditsKeepSound DEF SoundBook
  <1>3. CASE c \in ClientOutcomes(b, cmd)
    <2>1. PICK k \in Meant(b.projects, cmd) : c = ProjectClientSet(b, k, cmd.text)
      BY <1>3 DEF ClientOutcomes
    <2> QED
      BY <1>1, <2>1, MeantFinds, ProjectEditsKeepSound DEF SoundBook
  <1>4. CASE c \in ArchiveProjectOutcomes(b, cmd)
    <2>1. PICK k \in Meant(b.projects, cmd) : c = ProjectArchivedSet(b, k, cmd.archived)
      BY <1>4 DEF ArchiveProjectOutcomes
    <2> QED
      BY <1>1, <2>1, MeantFinds, ProjectEditsKeepSound DEF SoundBook
  <1> QED
    BY <1>2, <1>3, <1>4

LEMMA TagOutcomesSound ==
    ASSUME NEW b, SoundBook(b), NEW cmd \in EntryCommand,
           NEW c \in RenameTagOutcomes(b, cmd) \cup ArchiveTagOutcomes(b, cmd)
    PROVE  SoundBook(c)
  <1>1. cmd.name \in Names /\ cmd.archived \in BOOLEAN
    BY DEF EntryCommand
  <1>2. CASE c \in RenameTagOutcomes(b, cmd)
    <2>1. PICK k \in Meant(b.tags, cmd) :
              CanRenameTag(b, k, cmd.name) /\ c = TagRenamed(b, k, cmd.name)
      BY <1>2 DEF RenameTagOutcomes
    <2> QED
      BY <1>1, <2>1, MeantFinds, TagEditsKeepSound DEF SoundBook
  <1>3. CASE c \in ArchiveTagOutcomes(b, cmd)
    <2>1. PICK k \in Meant(b.tags, cmd) : c = TagArchivedSet(b, k, cmd.archived)
      BY <1>3 DEF ArchiveTagOutcomes
    <2> QED
      BY <1>1, <2>1, MeantFinds, TagEditsKeepSound DEF SoundBook
  <1> QED
    BY <1>2, <1>3

----------------------------------------------------------------------------
(* All of them. *)

\* What is done to projects and tags leaves the spans as they are.
LEMMA CatalogueLeavesSpans ==
    ASSUME NEW b, SoundBook(b), NEW cmd,
           NEW c \in AddProjectOutcomes(b, cmd) \cup RenameProjectOutcomes(b, cmd)
                         \cup ClientOutcomes(b, cmd) \cup ArchiveProjectOutcomes(b, cmd)
                         \cup AddTagOutcomes(b, cmd) \cup RenameTagOutcomes(b, cmd)
                         \cup ArchiveTagOutcomes(b, cmd)
    PROVE  RecordedStays(b, c, {})
  <1>1. b \in Logbook
    BY DEF SoundBook
  <1>2. c.spans = b.spans
    BY <1>1 DEF Logbook, AddProjectOutcomes, RenameProjectOutcomes, ClientOutcomes,
                ArchiveProjectOutcomes, AddTagOutcomes, RenameTagOutcomes, ArchiveTagOutcomes,
                ProjectAdded, ProjectRenamed, ProjectClientSet, ProjectArchivedSet,
                TagAdded, TagRenamed, TagArchivedSet
  <1> QED
    BY <1>2 DEF RecordedStays

\* The field `op` says which fields a command has.
LEMMA CommandKinds ==
    ASSUME NEW cmd \in Command
    PROVE  /\ cmd.op \in {"start", "switch"} => cmd \in StartCommand
           /\ cmd.op = "stop" => cmd \in StopCommand
           /\ cmd.op = "resume" => cmd \in ResumeCommand
           /\ cmd.op = "cancel" => cmd \in CancelCommand
           /\ cmd.op = "add" => cmd \in AddCommand
           /\ cmd.op = "edit" => cmd \in EditCommand
           /\ cmd.op = "cliEdit" => cmd \in CliEditCommand
           /\ cmd.op = "remove" => cmd \in RemoveCommand
           /\ cmd.op \in {"addProject", "addTag"} => cmd \in AddEntryCommand
           /\ cmd.op \in {"renameProject", "renameTag", "client", "archiveProject",
                          "archiveTag"} => cmd \in EntryCommand
           /\ cmd.op \in {"start", "switch", "stop", "resume", "cancel", "add", "edit",
                          "cliEdit", "remove", "addProject", "addTag", "renameProject",
                          "renameTag", "client", "archiveProject", "archiveTag"}
  <1>1. CASE cmd \in StartCommand
    BY <1>1 DEF StartCommand
  <1>2. CASE cmd \in StopCommand
    BY <1>2 DEF StopCommand
  <1>3. CASE cmd \in ResumeCommand
    BY <1>3 DEF ResumeCommand
  <1>4. CASE cmd \in CancelCommand
    BY <1>4 DEF CancelCommand
  <1>5. CASE cmd \in AddCommand
    BY <1>5 DEF AddCommand
  <1>6. CASE cmd \in EditCommand
    BY <1>6 DEF EditCommand
  <1>7. CASE cmd \in CliEditCommand
    BY <1>7 DEF CliEditCommand
  <1>8. CASE cmd \in RemoveCommand
    BY <1>8 DEF RemoveCommand
  <1>9. CASE cmd \in AddEntryCommand
    BY <1>9 DEF AddEntryCommand
  <1>10. CASE cmd \in EntryCommand
    BY <1>10 DEF EntryCommand
  <1> QED
    BY <1>1, <1>2, <1>3, <1>4, <1>5, <1>6, <1>7, <1>8, <1>9, <1>10 DEF Command

\* The instant a timer command acts at.
LEMMA AtIsInstant ==
    ASSUME NEW at \in OrNone(Instants), NEW now \in Instants
    PROVE  Or(at, now) \in Instants
  BY DEF Or, OrNone

\* What the two theorems say, case by case.
LEMMA OutcomesSoundAndTrue ==
    ASSUME NEW b, SoundBook(b), NEW cmd \in Command, NEW now \in Instants,
           NEW c \in Outcomes(b, cmd, now)
    PROVE  /\ SoundBook(c)
           /\ RecordedStays(b, c, IF cmd.op \in {"edit", "cliEdit", "remove"}
                                   THEN Resolve(b, cmd.span) ELSE {})
  <1>1. CASE cmd.op = "start"
    <2>1. cmd \in StartCommand /\ c \in StartOutcomes(b, cmd, Or(cmd.at, now))
      BY <1>1, CommandKinds DEF Outcomes
    <2> QED
      BY <1>1, <2>1, AtIsInstant, StartOutcomesSound DEF StartCommand
  <1>2. CASE cmd.op = "stop"
    <2>1. cmd \in StopCommand /\ c \in StopOutcomes(b, cmd, Or(cmd.at, now))
      BY <1>2, CommandKinds DEF Outcomes
    <2> QED
      BY <1>2, <2>1, AtIsInstant, StopOutcomesSound DEF StopCommand
  <1>3. CASE cmd.op = "switch"
    <2>1. cmd \in StartCommand /\ c \in SwitchOutcomes(b, cmd, Or(cmd.at, now))
      BY <1>3, CommandKinds DEF Outcomes
    <2> QED
      BY <1>3, <2>1, AtIsInstant, SwitchOutcomesSound DEF StartCommand
  <1>4. CASE cmd.op = "resume"
    <2>1. cmd \in ResumeCommand /\ c \in ResumeOutcomes(b, cmd, Or(cmd.at, now))
      BY <1>4, CommandKinds DEF Outcomes
    <2> QED
      BY <1>4, <2>1, AtIsInstant, ResumeOutcomesSound DEF ResumeCommand
  <1>5. CASE cmd.op = "cancel"
    BY <1>5, CancelOutcomesSound DEF Outcomes
  <1>6. CASE cmd.op = "add"
    BY <1>6, CommandKinds, AddOutcomesSound DEF Outcomes
  <1>7. CASE cmd.op = "edit"
    <2>1. cmd \in EditCommand /\ c \in EditOutcomes(b, cmd)
      BY <1>7, CommandKinds DEF Outcomes
    <2>2. /\ cmd.from \in OrNone(Instants) /\ cmd.to \in OrNone(Instants)
          /\ cmd.project \in OrNone(ProjectIds) /\ cmd.text \in OrNone(Texts)
          /\ cmd.tags \in {{}} \cup {{ts} : ts \in SUBSET TagIds}
      BY <2>1 DEF EditCommand
    <2>3. SoundBook(c) /\ OthersStay(b, c, {cmd.span}) /\ cmd.span \in DOMAIN b.spans
      BY <2>1, <2>2, EditOutcomesSound
    <2>4. cmd.span \in Resolve(b, cmd.span)
      BY <2>1, <2>3, NoneAssumption DEF EditCommand, Resolve
    <2> QED
      BY <1>7, <2>3, <2>4 DEF OthersStay, RecordedStays
  <1>8. CASE cmd.op = "cliEdit"
    BY <1>8, CommandKinds, CliEditOutcomesSound DEF Outcomes
  <1>9. CASE cmd.op = "remove"
    BY <1>9, RemoveOutcomesSound DEF Outcomes
  <1>10. CASE cmd.op \in {"addProject", "addTag"}
    BY <1>10, CommandKinds, AddEntryOutcomesSound, CatalogueLeavesSpans DEF Outcomes
  <1>11. CASE cmd.op \in {"renameProject", "client", "archiveProject"}
    BY <1>11, CommandKinds, ProjectOutcomesSound, CatalogueLeavesSpans DEF Outcomes
  <1>12. CASE cmd.op \in {"renameTag", "archiveTag"}
    BY <1>12, CommandKinds, TagOutcomesSound, CatalogueLeavesSpans DEF Outcomes
  <1> QED
    BY <1>1, <1>2, <1>3, <1>4, <1>5, <1>6, <1>7, <1>8, <1>9, <1>10, <1>11, <1>12, CommandKinds

\* No command makes an unsound logbook of a sound one, however many mutations it is made
\* of and whatever it names: the snapshot a client hands to commit always validates.
THEOREM OutcomesSound ==
    ASSUME NEW b, SoundBook(b), NEW cmd \in Command, NEW now \in Instants,
           NEW c \in Outcomes(b, cmd, now)
    PROVE  SoundBook(c)
  BY OutcomesSoundAndTrue

\* No command changes or discards recorded time but that of the span it is given to edit
\* or remove: not the one that resolves by default, nor one it passes over on the way.
THEOREM OutcomesKeepRecorded ==
    ASSUME NEW b, SoundBook(b), NEW cmd \in Command, NEW now \in Instants,
           NEW c \in Outcomes(b, cmd, now)
    PROVE  RecordedStays(b, c, IF cmd.op \in {"edit", "cliEdit", "remove"}
                               THEN Resolve(b, cmd.span) ELSE {})
  BY OutcomesSoundAndTrue

----------------------------------------------------------------------------
(* What an edit leaves on its span. *)

SameCatalogue(b, c) == c.projects = b.projects /\ c.tags = b.tags

\* The span after edit_span, unassign_span and set_span_description.
SpanAfter(cmd, old) ==
    [started_at |-> Or(cmd.from, old.started_at),
     stopped_at |-> Or(cmd.to, old.stopped_at),
     project_id |-> IF cmd.unassign THEN None ELSE Or(cmd.project, old.project_id),
     tag_ids |-> IF cmd.tags = {} THEN old.tag_ids ELSE UNION cmd.tags,
     description |-> IF cmd.text = None THEN old.description ELSE Normalized(cmd.text)]

LEMMA EditOutcomesFields ==
    ASSUME NEW b, SoundBook(b), NEW cmd, NEW c \in EditOutcomes(b, cmd)
    PROVE  /\ cmd.span \in DOMAIN b.spans
           /\ c.spans[cmd.span] = SpanAfter(cmd, b.spans[cmd.span])
           /\ SameCatalogue(b, c)
  <1> DEFINE id == cmd.span
             old == b.spans[id]
             edited == Edited(b, id, cmd.from, cmd.to, cmd.project, cmd.tags)
             kept == IF cmd.unassign THEN Unassigned(edited, id) ELSE edited
             span1 == [old EXCEPT !.started_at = Or(cmd.from, old.started_at),
                                  !.stopped_at = Or(cmd.to, old.stopped_at),
                                  !.project_id = Or(cmd.project, old.project_id),
                                  !.tag_ids = IF cmd.tags = {} THEN old.tag_ids
                                              ELSE UNION cmd.tags]
             span2 == IF cmd.unassign THEN [span1 EXCEPT !.project_id = None] ELSE span1
             span3 == IF cmd.text = None THEN span2
                      ELSE [span2 EXCEPT !.description = Normalized(cmd.text)]
  <1>1. /\ id \in DOMAIN b.spans /\ old \in Span
        /\ c \in Describe(kept, id, cmd.text)
    BY LogbookFields DEF EditOutcomes, CanEdit, SoundBook
  <1>2. b = [active_span_id |-> b.active_span_id, projects |-> b.projects,
             tags |-> b.tags, spans |-> b.spans]
    BY DEF SoundBook, Logbook
  <1>3. edited = [b EXCEPT !.spans[id] = span1]
    BY Zenon DEF Edited
  <1>4. /\ edited = [b EXCEPT !.spans = [b.spans EXCEPT ![id] = span1]]
    BY <1>3
  <1> HIDE DEF edited
  <1>5. kept = [b EXCEPT !.spans = [b.spans EXCEPT ![id] = span2]]
    <2>1. CASE cmd.unassign
      <3>1. kept = [edited EXCEPT !.spans[id].project_id = None]
        BY <2>1 DEF Unassigned
      <3> HIDE DEF kept, span1
      <3>2. kept = [b EXCEPT !.spans = [b.spans EXCEPT ![id] = [span1 EXCEPT !.project_id = None]]]
        BY <1>1, <1>2, <1>4, <3>1
      <3> QED
        BY <2>1, <3>2
    <2>2. CASE ~cmd.unassign
      BY <1>4, <2>2
    <2> QED
      BY <2>1, <2>2
  <1> HIDE DEF kept
  <1>6. c = [b EXCEPT !.spans = [b.spans EXCEPT ![id] = span3]]
    <2>1. CASE cmd.text = None
      BY <1>1, <1>5, <2>1 DEF Describe
    <2>2. CASE cmd.text # None
      <3>1. c = [kept EXCEPT !.spans[id].description = Normalized(cmd.text)]
        BY <1>1, <2>2 DEF Describe, Described
      <3> HIDE DEF span2
      <3>2. c = [b EXCEPT !.spans = [b.spans EXCEPT ![id] =
                    [span2 EXCEPT !.description = Normalized(cmd.text)]]]
        BY <1>1, <1>2, <1>5, <3>1
      <3> QED
        BY <2>2, <3>2
    <2> QED
      BY <2>1, <2>2
  <1>7. c.spans[id] = span3 /\ SameCatalogue(b, c)
    <2> HIDE DEF span3
    <2> QED
      BY <1>1, <1>2, <1>6 DEF SameCatalogue
  <1>8. span3 = SpanAfter(cmd, old)
    BY <1>1 DEF Span, SpanAfter
  <1> HIDE DEF span3
  <1> QED
    BY <1>1, <1>7, <1>8

\* Resolving adds to the catalogue at most, and what it finds or creates bears the name.
LEMMA ResolveProjectNames ==
    ASSUME NEW b, SoundBook(b), NEW name, NEW r \in ResolveProject(b, name)
    PROVE  /\ r.book.tags = b.tags
           /\ \A k \in DOMAIN b.projects : k \in DOMAIN r.book.projects
                                           /\ r.book.projects[k] = b.projects[k]
           /\ name = None => r.project = None
           /\ name # None => /\ r.project \in DOMAIN r.book.projects
                             /\ Fold[r.book.projects[r.project].name] = Fold[name]
  <1>1. CASE name = None
    BY <1>1 DEF ResolveProject
  <1>2. CASE name # None /\ Named(b.projects, name) # {}
    BY <1>2 DEF ResolveProject, Named
  <1>3. CASE name # None /\ Named(b.projects, name) = {}
    <2>1. PICK k \in UnusedProjectIds(b) :
              r = [book |-> ProjectAdded(b, k, name, None), project |-> k]
      BY <1>3 DEF ResolveProject
    <2> DEFINE m == Insert(b.projects, k, [name |-> name, client |-> Normalized(None),
                                           archived |-> FALSE])
    <2>2. ProjectAdded(b, k, name, None) = [b EXCEPT !.projects = m]
      BY Zenon DEF ProjectAdded
    <2>3. /\ m[k].name = name /\ k \in DOMAIN m
          /\ \A x \in DOMAIN b.projects : x \in DOMAIN m /\ m[x] = b.projects[x]
      BY <2>1 DEF Insert, UnusedProjectIds
    <2> HIDE DEF m
    <2>4. r.book.projects = m /\ r.book.tags = b.tags /\ r.project = k
      BY <2>1, <2>2 DEF SoundBook, Logbook
    <2> QED
      BY <1>3, <2>3, <2>4
  <1> QED
    BY <1>1, <1>2, <1>3

LEMMA ResolveTagNames ==
    ASSUME NEW b, SoundBook(b), NEW name, NEW r \in ResolveTag(b, name)
    PROVE  /\ r.book.projects = b.projects
           /\ \A k \in DOMAIN b.tags : k \in DOMAIN r.book.tags
                                       /\ r.book.tags[k] = b.tags[k]
           /\ name = None => r.tags = {}
           /\ name # None => \E k \in DOMAIN r.book.tags :
                                 r.tags = {k} /\ Fold[r.book.tags[k].name] = Fold[name]
  <1>1. CASE name = None
    BY <1>1 DEF ResolveTag
  <1>2. CASE name # None /\ Named(b.tags, name) # {}
    BY <1>2 DEF ResolveTag, Named
  <1>3. CASE name # None /\ Named(b.tags, name) = {}
    <2>1. PICK k \in UnusedTagIds(b) : r = [book |-> TagAdded(b, k, name), tags |-> {k}]
      BY <1>3 DEF ResolveTag
    <2> DEFINE m == Insert(b.tags, k, [name |-> name, archived |-> FALSE])
    <2>2. TagAdded(b, k, name) = [b EXCEPT !.tags = m]
      BY Zenon DEF TagAdded
    <2>3. /\ m[k].name = name /\ k \in DOMAIN m
          /\ \A x \in DOMAIN b.tags : x \in DOMAIN m /\ m[x] = b.tags[x]
      BY <2>1 DEF Insert, UnusedTagIds
    <2> HIDE DEF m
    <2>4. r.book.tags = m /\ r.book.projects = b.projects /\ r.tags = {k}
      BY <2>1, <2>2 DEF SoundBook, Logbook
    <2> QED
      BY <1>3, <2>3, <2>4
  <1> QED
    BY <1>1, <1>2, <1>3

LEMMA ClassifiedNames ==
    ASSUME NEW b, SoundBook(b), NEW what \in ByNames, NEW r \in Classified(b, what)
    PROVE  /\ what.project = None => r.project = None
           /\ what.project # None =>
                  /\ r.project \in DOMAIN r.book.projects
                  /\ Fold[r.book.projects[r.project].name] = Fold[what.project]
           /\ what.tag = None => r.tags = {}
           /\ what.tag # None =>
                  \E k \in DOMAIN r.book.tags :
                      r.tags = {k} /\ Fold[r.book.tags[k].name] = Fold[what.tag]
  <1>1. what.named /\ what.project \in OrNone(Names) /\ what.tag \in OrNone(Names)
    BY DEF ByNames
  <1>2. PICK p \in ResolveProject(b, what.project) :
            \E t \in ResolveTag(p.book, what.tag) :
                r = [book |-> t.book, project |-> p.project, tags |-> t.tags]
    BY <1>1 DEF Classified
  <1>3. SoundBook(p.book)
    BY <1>1, ResolveProjectSound
  <1>4. PICK t \in ResolveTag(p.book, what.tag) :
            r = [book |-> t.book, project |-> p.project, tags |-> t.tags]
    BY <1>2
  <1>5. /\ what.project = None => p.project = None
        /\ what.project # None =>
               /\ p.project \in DOMAIN p.book.projects
               /\ Fold[p.book.projects[p.project].name] = Fold[what.project]
    BY ResolveProjectNames
  <1>6. /\ t.book.projects = p.book.projects
        /\ what.tag = None => t.tags = {}
        /\ what.tag # None =>
               \E k \in DOMAIN t.book.tags :
                   t.tags = {k} /\ Fold[t.book.tags[k].name] = Fold[what.tag]
    BY <1>3, ResolveTagNames
  <1> QED
    BY <1>4, <1>5, <1>6
=============================================================================
