---------------------------- MODULE DomainProofs ----------------------------
(***************************************************************************)
(* Every mutation of the logbook, allowed by its own checks, turns a sound *)
(* logbook into a sound logbook.  One lemma per mutation; they are what    *)
(* the invariants of Logbook rest on.                                      *)
(***************************************************************************)
EXTENDS Domain, TLAPS

----------------------------------------------------------------------------
(* Maps. *)

\* A map is a function from some of the keys to values.
LEMMA MapOfDef ==
    ASSUME NEW K, NEW V, NEW m
    PROVE  m \in MapOf(K, V) <=> DOMAIN m \subseteq K /\ m \in [DOMAIN m -> V]
  <1>1. ASSUME m \in MapOf(K, V)
        PROVE  DOMAIN m \subseteq K /\ m \in [DOMAIN m -> V]
    <2>1. PICK D \in SUBSET K : m \in [D -> V]
      BY <1>1 DEF MapOf
    <2> QED
      BY <2>1
  <1>2. ASSUME DOMAIN m \subseteq K, m \in [DOMAIN m -> V]
        PROVE  m \in MapOf(K, V)
    BY <1>2 DEF MapOf
  <1> QED
    BY <1>1, <1>2

\* BTreeMap::insert keeps the map's type and says where each key now leads.
LEMMA InsertProperties ==
    ASSUME NEW K, NEW V, NEW m \in MapOf(K, V), NEW k \in K, NEW v \in V
    PROVE  /\ Insert(m, k, v) \in MapOf(K, V)
           /\ DOMAIN Insert(m, k, v) = DOMAIN m \cup {k}
           /\ Insert(m, k, v)[k] = v
           /\ \A x \in DOMAIN m \ {k} : Insert(m, k, v)[x] = m[x]
  BY MapOfDef DEF Insert

\* BTreeMap::remove keeps the map's type and the other keys.
LEMMA RemoveProperties ==
    ASSUME NEW K, NEW V, NEW m, m \in MapOf(K, V), NEW k
    PROVE  /\ Remove(m, k) \in MapOf(K, V)
           /\ DOMAIN Remove(m, k) = DOMAIN m \ {k}
           /\ \A x \in DOMAIN m \ {k} : Remove(m, k)[x] = m[x]
  BY MapOfDef DEF Remove

\* Assigning to a key that is there keeps the map's type and its keys.
LEMMA UpdateProperties ==
    ASSUME NEW K, NEW V, NEW m \in MapOf(K, V), NEW k \in DOMAIN m, NEW v \in V
    PROVE  /\ [m EXCEPT ![k] = v] \in MapOf(K, V)
           /\ DOMAIN [m EXCEPT ![k] = v] = DOMAIN m
           /\ [m EXCEPT ![k] = v][k] = v
           /\ \A x \in DOMAIN m \ {k} : [m EXCEPT ![k] = v][x] = m[x]
  BY MapOfDef

\* The fields of a logbook and of its entries.
LEMMA LogbookFields ==
    ASSUME NEW b \in Logbook
    PROVE  /\ b.active_span_id \in OrNone(SpanIds)
           /\ b.spans \in MapOf(SpanIds, Span)
           /\ b.projects \in MapOf(ProjectIds, Project)
           /\ b.tags \in MapOf(TagIds, Tag)
           /\ DOMAIN b.spans \subseteq SpanIds
           /\ DOMAIN b.projects \subseteq ProjectIds
           /\ DOMAIN b.tags \subseteq TagIds
           /\ \A i \in DOMAIN b.spans : b.spans[i] \in Span
           /\ \A i \in DOMAIN b.projects : b.projects[i] \in Project
           /\ \A i \in DOMAIN b.tags : b.tags[i] \in Tag
  <1>1. /\ b.active_span_id \in OrNone(SpanIds)
        /\ b.spans \in MapOf(SpanIds, Span)
        /\ b.projects \in MapOf(ProjectIds, Project)
        /\ b.tags \in MapOf(TagIds, Tag)
    BY DEF Logbook
  <1> QED
    BY <1>1, MapOfDef

\* An overlap has no direction.
LEMMA OverlapSymmetric ==
    ASSUME NEW s1, NEW e1, NEW s2, NEW e2
    PROVE  IntervalsOverlap(s1, e1, s2, e2) <=> IntervalsOverlap(s2, e2, s1, e1)
  BY DEF IntervalsOverlap

\* An empty logbook is sound.
LEMMA NewLogbookSound == NewLogbook \in Logbook /\ Sound(NewLogbook)
  <1>1. EmptyMap \in MapOf(SpanIds, Span) /\ EmptyMap \in MapOf(ProjectIds, Project)
          /\ EmptyMap \in MapOf(TagIds, Tag)
    BY MapOfDef DEF EmptyMap
  <1>2. NewLogbook \in Logbook
    BY <1>1 DEF NewLogbook, Logbook, OrNone
  <1>3. /\ DOMAIN NewLogbook.spans = {} /\ DOMAIN NewLogbook.projects = {}
        /\ DOMAIN NewLogbook.tags = {} /\ NewLogbook.active_span_id = None
    BY DEF NewLogbook, EmptyMap
  <1>4. Sound(NewLogbook)
    BY <1>3 DEF Sound, SpansDisjoint, CatalogueSound, ReferencesResolve, TimeRangesOk,
                NoDuplicateName, ActivePointerConsistent, Unstopped
  <1> QED
    BY <1>2, <1>4

----------------------------------------------------------------------------
(* One span more, one span changed, one span fewer. *)

\* What a mutation must check of the span it puts under `id`.
SpanFits(b, id, span) ==
    /\ span \in Span
    /\ IsFree(b, span.started_at, span.stopped_at, {id})
    /\ ProjectRefOk(b, span.project_id)
    /\ TagsOk(b, span.tag_ids)
    /\ span.stopped_at # None => span.started_at <= span.stopped_at

\* A logbook c that is b with a fitting span put under id, and otherwise b's span map
\* and catalogue, is sound in everything but the active pointer.
LEMMA PutSpanSound ==
    ASSUME NEW b \in Logbook, Sound(b), NEW id \in SpanIds, NEW span, SpanFits(b, id, span),
           NEW c, DOMAIN c.spans = DOMAIN b.spans \cup {id}, c.spans[id] = span,
           \A i \in DOMAIN b.spans \ {id} : c.spans[i] = b.spans[i],
           c.projects = b.projects, c.tags = b.tags
    PROVE  /\ SpansDisjoint(c)
           /\ CatalogueSound(c)
           /\ Unstopped(c) = (Unstopped(b) \ {id})
                                \cup (IF span.stopped_at = None THEN {id} ELSE {})
  <1>1. SpansDisjoint(c)
    <2> SUFFICES ASSUME NEW i \in DOMAIN c.spans, NEW j \in DOMAIN c.spans, i # j
                 PROVE  ~IntervalsOverlap(c.spans[i].started_at, c.spans[i].stopped_at,
                                          c.spans[j].started_at, c.spans[j].stopped_at)
      BY DEF SpansDisjoint
    <2>1. CASE i = id
      BY <2>1 DEF SpanFits, IsFree
    <2>2. CASE j = id
      BY <2>2, OverlapSymmetric DEF SpanFits, IsFree
    <2>3. CASE i # id /\ j # id
      BY <2>3 DEF Sound, SpansDisjoint
    <2> QED
      BY <2>1, <2>2, <2>3
  <1>2. CatalogueSound(c)
    <2>1. ReferencesResolve(c)
      BY DEF SpanFits, ProjectRefOk, TagsOk, ReferencesResolve, Sound, CatalogueSound
    <2>2. TimeRangesOk(c)
      BY DEF SpanFits, TimeRangesOk, Sound, CatalogueSound
    <2> QED
      BY <2>1, <2>2 DEF Sound, CatalogueSound
  <1>3. Unstopped(c) = (Unstopped(b) \ {id})
                          \cup (IF span.stopped_at = None THEN {id} ELSE {})
    BY DEF Unstopped
  <1> QED
    BY <1>1, <1>2, <1>3

\* Inserting a span at a fresh id.
LEMMA InsertSpan ==
    ASSUME NEW b \in Logbook, Sound(b), NEW id \in SpanIds, id \notin DOMAIN b.spans,
           NEW span, SpanFits(b, id, span),
           NEW c, c.spans = Insert(b.spans, id, span),
           c.projects = b.projects, c.tags = b.tags
    PROVE  /\ Insert(b.spans, id, span) \in MapOf(SpanIds, Span)
           /\ SpansDisjoint(c) /\ CatalogueSound(c)
           /\ Unstopped(c) = Unstopped(b) \cup (IF span.stopped_at = None THEN {id} ELSE {})
  <1>1. b.spans \in MapOf(SpanIds, Span) /\ span \in Span
    BY LogbookFields DEF SpanFits
  <1>2. Insert(b.spans, id, span) \in MapOf(SpanIds, Span)
    BY <1>1, InsertProperties
  <1>3. /\ DOMAIN c.spans = DOMAIN b.spans \cup {id}
        /\ c.spans[id] = span
        /\ \A x \in DOMAIN b.spans \ {id} : c.spans[x] = b.spans[x]
    BY DEF Insert
  <1>4. /\ SpansDisjoint(c) /\ CatalogueSound(c)
        /\ Unstopped(c) = (Unstopped(b) \ {id})
                             \cup (IF span.stopped_at = None THEN {id} ELSE {})
    BY <1>3, PutSpanSound
  <1>5. Unstopped(b) \ {id} = Unstopped(b)
    BY DEF Unstopped
  <1> QED
    BY <1>2, <1>4, <1>5

\* Changing the span under an id that is there.
LEMMA UpdateSpan ==
    ASSUME NEW b \in Logbook, Sound(b), NEW id \in DOMAIN b.spans,
           NEW span, SpanFits(b, id, span),
           NEW c, c.spans = [b.spans EXCEPT ![id] = span],
           c.projects = b.projects, c.tags = b.tags
    PROVE  /\ [b.spans EXCEPT ![id] = span] \in MapOf(SpanIds, Span)
           /\ SpansDisjoint(c) /\ CatalogueSound(c)
           /\ Unstopped(c) = (Unstopped(b) \ {id})
                                \cup (IF span.stopped_at = None THEN {id} ELSE {})
  <1>1. b.spans \in MapOf(SpanIds, Span) /\ span \in Span /\ id \in SpanIds
    BY LogbookFields DEF SpanFits
  <1>2. [b.spans EXCEPT ![id] = span] \in MapOf(SpanIds, Span)
    BY <1>1, UpdateProperties
  <1>3. /\ DOMAIN c.spans = DOMAIN b.spans \cup {id}
        /\ c.spans[id] = span
        /\ \A x \in DOMAIN b.spans \ {id} : c.spans[x] = b.spans[x]
    BY <1>1, UpdateProperties
  <1>4. /\ SpansDisjoint(c) /\ CatalogueSound(c)
        /\ Unstopped(c) = (Unstopped(b) \ {id})
                             \cup (IF span.stopped_at = None THEN {id} ELSE {})
    BY <1>1, <1>3, PutSpanSound
  <1> QED
    BY <1>2, <1>4

\* A span that stays where it is keeps fitting.
LEMMA SameIntervalFits ==
    ASSUME NEW b \in Logbook, Sound(b), NEW id \in DOMAIN b.spans, NEW span \in Span,
           span.started_at = b.spans[id].started_at,
           span.stopped_at = b.spans[id].stopped_at,
           ProjectRefOk(b, span.project_id), TagsOk(b, span.tag_ids)
    PROVE  SpanFits(b, id, span)
  BY DEF SpanFits, IsFree, Sound, SpansDisjoint, CatalogueSound, TimeRangesOk

----------------------------------------------------------------------------
(* The timer. *)

\* start_timer: the new span is free of the others and becomes the active one.
LEMMA StartKeepsSound ==
    ASSUME NEW b \in Logbook, Sound(b), NEW id \in SpanIds, id \notin DOMAIN b.spans,
           NEW at \in Instants, NEW p, NEW ts \in SUBSET TagIds, CanStart(b, at, p, ts)
    PROVE  Started(b, id, at, p, ts) \in Logbook /\ Sound(Started(b, id, at, p, ts))
  <1> DEFINE span == NewSpan(at, p, ts)
             m == Insert(b.spans, id, span)
             c == Started(b, id, at, p, ts)
  <1>1. SpanFits(b, id, span)
    <2>1. p \in OrNone(ProjectIds)
      BY LogbookFields DEF CanStart, ProjectRefOk, OrNone
    <2>2. span \in Span
      BY <2>1 DEF NewSpan, Span, OrNone, StoredDescription
    <2>3. span.started_at = at /\ span.stopped_at = None /\ span.project_id = p
            /\ span.tag_ids = ts
      BY DEF NewSpan
    <2>4. IsFree(b, at, None, {id})
      BY DEF CanStart, IsFree
    <2> QED
      BY <2>2, <2>3, <2>4 DEF SpanFits, CanStart
  <1>2. m \in MapOf(SpanIds, Span)
    BY <1>1, LogbookFields, InsertProperties DEF SpanFits
  <1>3. /\ c \in Logbook
        /\ c.spans = m /\ c.active_span_id = id
        /\ c.projects = b.projects /\ c.tags = b.tags
    BY <1>2 DEF Started, Logbook, OrNone
  <1>4. /\ SpansDisjoint(c) /\ CatalogueSound(c)
        /\ Unstopped(c) = Unstopped(b) \cup (IF span.stopped_at = None THEN {id} ELSE {})
    <2> HIDE DEF c, span
    <2> QED
      BY <1>1, <1>3, InsertSpan DEF m
  <1>5. span.stopped_at = None /\ Unstopped(b) = {}
    BY DEF NewSpan, CanStart, Sound, ActivePointerConsistent
  <1>6. ActivePointerConsistent(c)
    BY <1>3, <1>4, <1>5, NoneAssumption DEF ActivePointerConsistent
  <1> QED
    BY <1>3, <1>4, <1>6 DEF Sound

\* stop_timer and the first half of switch: the active span keeps its start, gets a
\* stop and nothing runs any more.
LEMMA StopKeepsSound ==
    ASSUME NEW b \in Logbook, Sound(b), NEW at \in Instants,
           b.active_span_id # None, CanClose(b, at)
    PROVE  /\ Stopped(b, at) \in Logbook /\ Sound(Stopped(b, at))
           /\ Stopped(b, at).active_span_id = None
           /\ Stopped(b, at).spans =
                  [b.spans EXCEPT ![b.active_span_id] =
                      [b.spans[b.active_span_id] EXCEPT !.stopped_at = at]]
           /\ Stopped(b, at).projects = b.projects /\ Stopped(b, at).tags = b.tags
  <1> DEFINE id == b.active_span_id
             span == [b.spans[id] EXCEPT !.stopped_at = at]
             m == [b.spans EXCEPT ![id] = span]
             c == Stopped(b, at)
  <1>1. id \in DOMAIN b.spans /\ id \in SpanIds /\ b.spans[id] \in Span
    BY LogbookFields DEF CanClose
  <1>2. SpanFits(b, id, span)
    <2>1. span \in Span
      BY <1>1 DEF Span, OrNone
    <2>2. /\ span.started_at = b.spans[id].started_at /\ span.stopped_at = at
          /\ span.project_id = b.spans[id].project_id /\ span.tag_ids = b.spans[id].tag_ids
      BY <1>1 DEF Span
    <2> QED
      BY <1>1, <2>1, <2>2
      DEF SpanFits, CanClose, Sound, CatalogueSound, ReferencesResolve
  <1>3. m \in MapOf(SpanIds, Span)
    BY <1>1, <1>2, LogbookFields, UpdateProperties DEF SpanFits
  <1>4. c = [b EXCEPT !.spans = m, !.active_span_id = None]
    BY <1>1 DEF Stopped, Logbook
  <1>5. /\ c \in Logbook
        /\ c.spans = m /\ c.active_span_id = None
        /\ c.projects = b.projects /\ c.tags = b.tags
    BY <1>3, <1>4 DEF Logbook, OrNone
  <1>6. /\ SpansDisjoint(c) /\ CatalogueSound(c)
        /\ Unstopped(c) = (Unstopped(b) \ {id})
                             \cup (IF span.stopped_at = None THEN {id} ELSE {})
    <2> HIDE DEF c, span, id
    <2> QED
      BY <1>1, <1>2, <1>5, UpdateSpan DEF m
  <1>7. span.stopped_at # None /\ Unstopped(b) = {id}
    BY <1>1, NoneAssumption DEF Span, Sound, ActivePointerConsistent
  <1>8. ActivePointerConsistent(c)
    BY <1>5, <1>6, <1>7 DEF ActivePointerConsistent
  <1> QED
    BY <1>5, <1>6, <1>8 DEF Sound

\* switch: after the old span is closed at `at`, starting a new one at `at` is allowed.
LEMMA SwitchKeepsSound ==
    ASSUME NEW b \in Logbook, Sound(b), NEW id \in SpanIds, id \notin DOMAIN b.spans,
           NEW at \in Instants, NEW p, NEW ts \in SUBSET TagIds, CanSwitch(b, at, p, ts)
    PROVE  Switched(b, id, at, p, ts) \in Logbook /\ Sound(Switched(b, id, at, p, ts))
  <1>1. CASE b.active_span_id = None
    <2>1. CanStart(b, at, p, ts)
      <3>1. None \notin DOMAIN b.spans
        BY LogbookFields, NoneAssumption
      <3> QED
        BY <1>1, <3>1 DEF CanSwitch, CanStart, IsFree
    <2> QED
      BY <1>1, <2>1, StartKeepsSound DEF Switched
  <1>2. CASE b.active_span_id # None
    <2> DEFINE c == Stopped(b, at)
               old == b.active_span_id
    <2>1. CanClose(b, at)
      BY <1>2 DEF CanSwitch
    <2>2. /\ c \in Logbook /\ Sound(c) /\ c.active_span_id = None
          /\ c.spans = [b.spans EXCEPT ![old] = [b.spans[old] EXCEPT !.stopped_at = at]]
          /\ c.projects = b.projects /\ c.tags = b.tags
      BY <1>2, <2>1, StopKeepsSound
    <2>3. old \in DOMAIN b.spans /\ b.spans[old] \in Span
      BY <2>1, LogbookFields DEF CanClose
    <2>4. /\ DOMAIN c.spans = DOMAIN b.spans
          /\ c.spans[old].stopped_at = at
          /\ \A i \in DOMAIN b.spans \ {old} : c.spans[i] = b.spans[i]
      BY <2>2, <2>3 DEF Span
    <2>5. CanStart(c, at, p, ts)
      <3>1. ~EndsAfter(at, at)
        BY NoneAssumption, InstantAssumption DEF EndsAfter
      <3>2. IsFree(c, at, None, {})
        BY <2>4, <3>1 DEF IsFree, IntervalsOverlap, CanSwitch
      <3> QED
        BY <2>2, <3>2 DEF CanStart, CanSwitch, ProjectRefOk, TagsOk
    <2>6. id \notin DOMAIN c.spans
      BY <2>4
    <2> HIDE DEF c
    <2>7. Started(c, id, at, p, ts) \in Logbook /\ Sound(Started(c, id, at, p, ts))
      BY <2>2, <2>5, <2>6, StartKeepsSound
    <2> QED
      BY <1>2, <2>7 DEF Switched, c
  <1> QED
    BY <1>1, <1>2

----------------------------------------------------------------------------
(* The history. *)

\* Any change of one span that leaves it fitting and does not stop or start it keeps
\* the logbook sound: edit_span, set_span_description and unassign_span are such.
LEMMA ChangeSpanKeepsSound ==
    ASSUME NEW b \in Logbook, Sound(b), NEW id \in DOMAIN b.spans, NEW span,
           SpanFits(b, id, span),
           span.stopped_at = None <=> b.spans[id].stopped_at = None
    PROVE  LET c == [b EXCEPT !.spans[id] = span] IN c \in Logbook /\ Sound(c)
  <1> DEFINE m == [b.spans EXCEPT ![id] = span]
             c == [b EXCEPT !.spans[id] = span]
  <1>1. m \in MapOf(SpanIds, Span)
    BY LogbookFields, UpdateProperties DEF SpanFits
  <1>2. /\ c \in Logbook
        /\ c.spans = m /\ c.active_span_id = b.active_span_id
        /\ c.projects = b.projects /\ c.tags = b.tags
    BY <1>1 DEF Logbook
  <1>3. /\ SpansDisjoint(c) /\ CatalogueSound(c)
        /\ Unstopped(c) = (Unstopped(b) \ {id})
                             \cup (IF span.stopped_at = None THEN {id} ELSE {})
    <2> HIDE DEF c
    <2> QED
      BY <1>2, UpdateSpan DEF m
  <1>4. Unstopped(c) = Unstopped(b)
    BY <1>3 DEF Unstopped
  <1>5. ActivePointerConsistent(c)
    BY <1>2, <1>4 DEF Sound, ActivePointerConsistent
  <1> QED
    BY <1>2, <1>3, <1>5 DEF Sound

\* edit_span: the edited interval is checked against every other span, and only a
\* stopped span can be given a stop time.
LEMMA EditKeepsSound ==
    ASSUME NEW b \in Logbook, Sound(b), NEW id, NEW start \in OrNone(Instants),
           NEW stop \in OrNone(Instants), NEW p \in OrNone(ProjectIds),
           NEW newTags \in {{}} \cup {{ts} : ts \in SUBSET TagIds},
           CanEdit(b, id, start, stop, p, newTags)
    PROVE  /\ Edited(b, id, start, stop, p, newTags) \in Logbook
           /\ Sound(Edited(b, id, start, stop, p, newTags))
  <1> DEFINE old == b.spans[id]
             tags == IF newTags = {} THEN old.tag_ids ELSE UNION newTags
             span == [old EXCEPT !.started_at = Or(start, old.started_at),
                                 !.stopped_at = Or(stop, old.stopped_at),
                                 !.project_id = Or(p, old.project_id),
                                 !.tag_ids = tags]
  <1>1. id \in DOMAIN b.spans /\ old \in Span
    BY LogbookFields DEF CanEdit
  <1>2. tags \in SUBSET TagIds /\ TagsOk(b, tags)
    <2>1. CASE newTags = {}
      BY <1>1, <2>1 DEF Span, Sound, CatalogueSound, ReferencesResolve
    <2>2. CASE newTags # {}
      <3>1. PICK ts \in SUBSET TagIds : newTags = {ts}
        BY <2>2
      <3>2. tags = ts
        BY <2>2, <3>1
      <3> QED
        BY <3>1, <3>2 DEF CanEdit
    <2> QED
      BY <2>1, <2>2
  <1> HIDE DEF tags
  <1>3. /\ span.started_at = Or(start, old.started_at)
        /\ span.stopped_at = Or(stop, old.stopped_at)
        /\ span.project_id = Or(p, old.project_id)
        /\ span.tag_ids = tags
    BY <1>1 DEF Span
  <1>4. span \in Span
    BY <1>1, <1>2 DEF Span, Or, OrNone
  <1>5. SpanFits(b, id, span)
    <2>1. ProjectRefOk(b, Or(p, old.project_id))
      BY <1>1 DEF Or, CanEdit, Sound, CatalogueSound, ReferencesResolve
    <2> QED
      BY <1>2, <1>3, <1>4, <2>1 DEF SpanFits, CanEdit
  <1>6. span.stopped_at = None <=> old.stopped_at = None
    BY <1>3 DEF Or, CanEdit
  <1>7. Edited(b, id, start, stop, p, newTags) = [b EXCEPT !.spans[id] = span]
    BY DEF Edited, tags
  <1> QED
    <2> HIDE DEF span
    <2> QED
      BY <1>1, <1>5, <1>6, <1>7, ChangeSpanKeepsSound

\* add_span: a completed span never touches the timer.
LEMMA AddKeepsSound ==
    ASSUME NEW b \in Logbook, Sound(b), NEW id \in SpanIds, id \notin DOMAIN b.spans,
           NEW start \in Instants, NEW stop \in Instants, NEW p, NEW ts \in SUBSET TagIds,
           CanAdd(b, start, stop, p, ts)
    PROVE  /\ Added(b, id, start, stop, p, ts) \in Logbook
           /\ Sound(Added(b, id, start, stop, p, ts))
  <1> DEFINE span == [NewSpan(start, p, ts) EXCEPT !.stopped_at = stop]
             m == Insert(b.spans, id, span)
             c == Added(b, id, start, stop, p, ts)
  <1>1. SpanFits(b, id, span)
    <2>1. p \in OrNone(ProjectIds)
      BY LogbookFields DEF CanAdd, ProjectRefOk, OrNone
    <2>2. span \in Span
      BY <2>1 DEF NewSpan, Span, OrNone, StoredDescription
    <2>3. span.started_at = start /\ span.stopped_at = stop /\ span.project_id = p
            /\ span.tag_ids = ts
      BY DEF NewSpan
    <2>4. IsFree(b, start, stop, {id})
      BY DEF CanAdd, IsFree
    <2> QED
      BY <2>2, <2>3, <2>4 DEF SpanFits, CanAdd
  <1>2. m \in MapOf(SpanIds, Span)
    BY <1>1, LogbookFields, InsertProperties DEF SpanFits
  <1>3. /\ c \in Logbook
        /\ c.spans = m /\ c.active_span_id = b.active_span_id
        /\ c.projects = b.projects /\ c.tags = b.tags
    BY <1>2 DEF Added, Logbook
  <1>4. /\ SpansDisjoint(c) /\ CatalogueSound(c)
        /\ Unstopped(c) = Unstopped(b) \cup (IF span.stopped_at = None THEN {id} ELSE {})
    <2> HIDE DEF c, span
    <2> QED
      BY <1>1, <1>3, InsertSpan DEF m
  <1>5. span.stopped_at # None
    BY NoneAssumption DEF NewSpan
  <1>6. ActivePointerConsistent(c)
    BY <1>3, <1>4, <1>5 DEF Sound, ActivePointerConsistent
  <1> QED
    BY <1>3, <1>4, <1>6 DEF Sound

\* remove_span: removing the active span clears the pointer with it.
LEMMA RemoveKeepsSound ==
    ASSUME NEW b \in Logbook, Sound(b), NEW id \in SpanIds, CanRemove(b, id)
    PROVE  Removed(b, id) \in Logbook /\ Sound(Removed(b, id))
  <1> DEFINE c == Removed(b, id)
             m == Remove(b.spans, id)
  <1>1. /\ m \in MapOf(SpanIds, Span)
        /\ DOMAIN m = DOMAIN b.spans \ {id}
        /\ \A i \in DOMAIN b.spans \ {id} : m[i] = b.spans[i]
    <2>1. b.spans \in MapOf(SpanIds, Span)
      BY LogbookFields
    <2>2. m \in MapOf(SpanIds, Span)
      BY <2>1, RemoveProperties
    <2> QED
      BY <2>2 DEF Remove
  <1>2. /\ c \in Logbook
        /\ c.spans = m
        /\ c.active_span_id = IF b.active_span_id = id THEN None ELSE b.active_span_id
        /\ c.projects = b.projects /\ c.tags = b.tags
    BY <1>1 DEF Removed, Logbook, OrNone
  <1> HIDE DEF c, m
  <1>3. SpansDisjoint(c)
    BY <1>1, <1>2 DEF Sound, SpansDisjoint
  <1>4. CatalogueSound(c)
    BY <1>1, <1>2 DEF Sound, CatalogueSound, ReferencesResolve, TimeRangesOk,
                      ProjectRefOk, TagsOk
  <1>5. Unstopped(c) = Unstopped(b) \ {id}
    BY <1>1, <1>2 DEF Unstopped
  <1>6. ActivePointerConsistent(c)
    BY <1>2, <1>5, NoneAssumption DEF Sound, ActivePointerConsistent
  <1> QED
    BY <1>2, <1>3, <1>4, <1>6 DEF Sound, c

\* set_span_description: what is stored is never blank or over-long.
LEMMA DescribeKeepsSound ==
    ASSUME NEW b \in Logbook, Sound(b), NEW id, NEW text \in OrNone(Texts),
           CanDescribe(b, id, text)
    PROVE  Described(b, id, text) \in Logbook /\ Sound(Described(b, id, text))
  <1> DEFINE span == [b.spans[id] EXCEPT !.description = Normalized(text)]
  <1>1. id \in DOMAIN b.spans /\ b.spans[id] \in Span
    BY LogbookFields DEF CanDescribe
  <1>2. Normalized(text) \in StoredDescription
    BY DEF CanDescribe, Normalized, StoredDescription, OrNone
  <1>3. /\ span \in Span
        /\ span.started_at = b.spans[id].started_at
        /\ span.stopped_at = b.spans[id].stopped_at
        /\ span.project_id = b.spans[id].project_id
        /\ span.tag_ids = b.spans[id].tag_ids
    BY <1>1, <1>2 DEF Span
  <1>4. Described(b, id, text) = [b EXCEPT !.spans[id] = span]
    BY <1>1 DEF Described, Logbook
  <1> HIDE DEF span
  <1>5. SpanFits(b, id, span)
    BY <1>1, <1>3, SameIntervalFits DEF Sound, CatalogueSound, ReferencesResolve
  <1> QED
    BY <1>1, <1>3, <1>4, <1>5, ChangeSpanKeepsSound

\* unassign_span: unassigned time needs no project.
LEMMA UnassignKeepsSound ==
    ASSUME NEW b \in Logbook, Sound(b), NEW id, CanUnassign(b, id)
    PROVE  Unassigned(b, id) \in Logbook /\ Sound(Unassigned(b, id))
  <1> DEFINE span == [b.spans[id] EXCEPT !.project_id = None]
  <1>1. id \in DOMAIN b.spans /\ b.spans[id] \in Span
    BY LogbookFields DEF CanUnassign
  <1>2. /\ span \in Span
        /\ span.started_at = b.spans[id].started_at
        /\ span.stopped_at = b.spans[id].stopped_at
        /\ span.project_id = None
        /\ span.tag_ids = b.spans[id].tag_ids
    BY <1>1 DEF Span, OrNone
  <1>3. Unassigned(b, id) = [b EXCEPT !.spans[id] = span]
    BY <1>1 DEF Unassigned, Logbook
  <1> HIDE DEF span
  <1>4. SpanFits(b, id, span)
    BY <1>1, <1>2, SameIntervalFits
    DEF Sound, CatalogueSound, ReferencesResolve, ProjectRefOk, OrNone
  <1> QED
    BY <1>1, <1>2, <1>3, <1>4, ChangeSpanKeepsSound

----------------------------------------------------------------------------
(* The catalogue. *)

\* Changing the catalogue alone: spans keep their references as long as no project
\* and no tag goes away, and the names must stay unique.
LEMMA CatalogueKeepsSound ==
    ASSUME NEW b \in Logbook, Sound(b), NEW c \in Logbook,
           c.spans = b.spans, c.active_span_id = b.active_span_id,
           DOMAIN b.projects \subseteq DOMAIN c.projects,
           DOMAIN b.tags \subseteq DOMAIN c.tags,
           NoDuplicateName(c.projects), NoDuplicateName(c.tags)
    PROVE  Sound(c)
  <1>1. SpansDisjoint(c)
    BY DEF Sound, SpansDisjoint
  <1>2. ActivePointerConsistent(c)
    BY DEF Sound, ActivePointerConsistent, Unstopped
  <1>3. CatalogueSound(c)
    BY DEF Sound, CatalogueSound, ReferencesResolve, ProjectRefOk, TagsOk, OrNone,
           TimeRangesOk
  <1> QED
    BY <1>1, <1>2, <1>3 DEF Sound

\* check_project_name and check_tag_name: an entry whose name is free among the others
\* can be put under its key without a duplicate.
LEMMA PutNameKeepsUnique ==
    ASSUME NEW m, NoDuplicateName(m), NEW k, NEW n, DOMAIN n = DOMAIN m \cup {k},
           \A x \in DOMAIN m \ {k} : n[x] = m[x], NameFree(m, n[k].name, {k})
    PROVE  NoDuplicateName(n)
  BY DEF NoDuplicateName, NameFree

\* A change that keeps every name keeps the names unique.
LEMMA SameNamesKeepUnique ==
    ASSUME NEW m, NoDuplicateName(m), NEW n, DOMAIN n = DOMAIN m,
           \A x \in DOMAIN m : n[x].name = m[x].name
    PROVE  NoDuplicateName(n)
  BY DEF NoDuplicateName

\* Putting a project under a key, with a name no other project has.
LEMMA PutProjectKeepsSound ==
    ASSUME NEW b \in Logbook, Sound(b), NEW id \in ProjectIds, NEW project \in Project,
           NameFree(b.projects, project.name, {id})
    PROVE  LET c == [b EXCEPT !.projects = Insert(b.projects, id, project)]
           IN  c \in Logbook /\ Sound(c)
  <1> DEFINE m == Insert(b.projects, id, project)
             c == [b EXCEPT !.projects = m]
  <1>1. b.projects \in MapOf(ProjectIds, Project)
    BY LogbookFields
  <1>2. m \in MapOf(ProjectIds, Project)
    BY <1>1, InsertProperties
  <1>3. /\ c \in Logbook /\ c.projects = m /\ c.tags = b.tags
        /\ c.spans = b.spans /\ c.active_span_id = b.active_span_id
    BY <1>2 DEF Logbook
  <1>4. /\ DOMAIN m = DOMAIN b.projects \cup {id} /\ m[id] = project
        /\ \A x \in DOMAIN b.projects \ {id} : m[x] = b.projects[x]
    BY DEF Insert
  <1> HIDE DEF m, c
  <1>5. NoDuplicateName(m)
    BY <1>4, PutNameKeepsUnique DEF Sound, CatalogueSound
  <1>6. Sound(c)
    BY <1>3, <1>4, <1>5, CatalogueKeepsSound DEF Sound, CatalogueSound
  <1> QED
    BY <1>3, <1>6 DEF c, m

\* Putting a tag under a key, with a name no other tag has.
LEMMA PutTagKeepsSound ==
    ASSUME NEW b \in Logbook, Sound(b), NEW id \in TagIds, NEW tag \in Tag,
           NameFree(b.tags, tag.name, {id})
    PROVE  LET c == [b EXCEPT !.tags = Insert(b.tags, id, tag)]
           IN  c \in Logbook /\ Sound(c)
  <1> DEFINE m == Insert(b.tags, id, tag)
             c == [b EXCEPT !.tags = m]
  <1>1. b.tags \in MapOf(TagIds, Tag)
    BY LogbookFields
  <1>2. m \in MapOf(TagIds, Tag)
    BY <1>1, InsertProperties
  <1>3. /\ c \in Logbook /\ c.projects = b.projects /\ c.tags = m
        /\ c.spans = b.spans /\ c.active_span_id = b.active_span_id
    BY <1>2 DEF Logbook
  <1>4. /\ DOMAIN m = DOMAIN b.tags \cup {id} /\ m[id] = tag
        /\ \A x \in DOMAIN b.tags \ {id} : m[x] = b.tags[x]
    BY DEF Insert
  <1> HIDE DEF m, c
  <1>5. NoDuplicateName(m)
    BY <1>4, PutNameKeepsUnique DEF Sound, CatalogueSound
  <1>6. Sound(c)
    BY <1>3, <1>4, <1>5, CatalogueKeepsSound DEF Sound, CatalogueSound
  <1> QED
    BY <1>3, <1>6 DEF c, m

\* Assigning a known key is inserting under it again.
LEMMA UpdateIsInsert ==
    ASSUME NEW m, NEW k \in DOMAIN m, NEW v, m = [x \in DOMAIN m |-> m[x]]
    PROVE  [m EXCEPT ![k] = v] = Insert(m, k, v)
  BY DEF Insert

\* The names in the rest of a map are free of the name an entry already has.
LEMMA OwnNameIsFree ==
    ASSUME NEW m, NoDuplicateName(m), NEW k \in DOMAIN m
    PROVE  NameFree(m, m[k].name, {k})
  BY DEF NoDuplicateName, NameFree

\* A stored client is never blank.
LEMMA NormalizedClient ==
    ASSUME NEW text \in OrNone(Texts)
    PROVE  Normalized(text) \in StoredClient
  BY DEF Normalized, StoredClient, OrNone

\* add_project
LEMMA AddProjectKeepsSound ==
    ASSUME NEW b \in Logbook, Sound(b), NEW id \in ProjectIds, id \notin DOMAIN b.projects,
           NEW name \in Names, NEW client \in OrNone(Texts), CanAddProject(b, name)
    PROVE  /\ ProjectAdded(b, id, name, client) \in Logbook
           /\ Sound(ProjectAdded(b, id, name, client))
  <1> DEFINE project == [name |-> name, client |-> Normalized(client), archived |-> FALSE]
  <1>1. project \in Project /\ project.name = name
    BY NormalizedClient DEF Project
  <1>2. NameFree(b.projects, name, {id})
    BY DEF CanAddProject, NameFree
  <1>3. ProjectAdded(b, id, name, client) = [b EXCEPT !.projects = Insert(b.projects, id, project)]
    BY DEF ProjectAdded
  <1> HIDE DEF project
  <1> QED
    BY <1>1, <1>2, <1>3, PutProjectKeepsSound

\* A change of a project that is there, to a name no other project has: rename_project,
\* set_project_client, set_project_archived.
LEMMA ChangeProjectKeepsSound ==
    ASSUME NEW b \in Logbook, Sound(b), NEW id \in DOMAIN b.projects,
           NEW project \in Project, NameFree(b.projects, project.name, {id})
    PROVE  LET c == [b EXCEPT !.projects[id] = project]
           IN  c \in Logbook /\ Sound(c)
  <1>1. b.projects \in MapOf(ProjectIds, Project) /\ id \in ProjectIds
    BY LogbookFields
  <1>2. b.projects = [x \in DOMAIN b.projects |-> b.projects[x]]
    BY <1>1, MapOfDef
  <1>3. [b.projects EXCEPT ![id] = project] = Insert(b.projects, id, project)
    BY <1>2, UpdateIsInsert
  <1> QED
    BY <1>1, <1>3, PutProjectKeepsSound

\* A change of a tag that is there, to a name no other tag has: rename_tag,
\* set_tag_archived.
LEMMA ChangeTagKeepsSound ==
    ASSUME NEW b \in Logbook, Sound(b), NEW id \in DOMAIN b.tags,
           NEW tag \in Tag, NameFree(b.tags, tag.name, {id})
    PROVE  LET c == [b EXCEPT !.tags[id] = tag]
           IN  c \in Logbook /\ Sound(c)
  <1>1. b.tags \in MapOf(TagIds, Tag) /\ id \in TagIds
    BY LogbookFields
  <1>2. b.tags = [x \in DOMAIN b.tags |-> b.tags[x]]
    BY <1>1, MapOfDef
  <1>3. [b.tags EXCEPT ![id] = tag] = Insert(b.tags, id, tag)
    BY <1>2, UpdateIsInsert
  <1> QED
    BY <1>1, <1>3, PutTagKeepsSound

\* rename_project, set_project_client and set_project_archived.
LEMMA ProjectEditsKeepSound ==
    ASSUME NEW b \in Logbook, Sound(b), NEW id \in DOMAIN b.projects
    PROVE  /\ \A name \in Names : CanRenameProject(b, id, name) =>
                 /\ ProjectRenamed(b, id, name) \in Logbook
                 /\ Sound(ProjectRenamed(b, id, name))
           /\ \A client \in OrNone(Texts) :
                 /\ ProjectClientSet(b, id, client) \in Logbook
                 /\ Sound(ProjectClientSet(b, id, client))
           /\ \A archived \in BOOLEAN :
                 /\ ProjectArchivedSet(b, id, archived) \in Logbook
                 /\ Sound(ProjectArchivedSet(b, id, archived))
  <1>1. b.projects[id] \in Project
    BY LogbookFields
  <1>2. NameFree(b.projects, b.projects[id].name, {id})
    BY OwnNameIsFree DEF Sound, CatalogueSound
  <1>3. ASSUME NEW name \in Names, CanRenameProject(b, id, name)
        PROVE  /\ ProjectRenamed(b, id, name) \in Logbook
               /\ Sound(ProjectRenamed(b, id, name))
    <2> DEFINE project == [b.projects[id] EXCEPT !.name = name]
    <2>1. project \in Project /\ project.name = name
      BY <1>1 DEF Project
    <2>2. ProjectRenamed(b, id, name) = [b EXCEPT !.projects[id] = project]
      BY DEF ProjectRenamed
    <2> HIDE DEF project
    <2> QED
      BY <1>3, <2>1, <2>2, ChangeProjectKeepsSound DEF CanRenameProject
  <1>4. ASSUME NEW client \in OrNone(Texts)
        PROVE  /\ ProjectClientSet(b, id, client) \in Logbook
               /\ Sound(ProjectClientSet(b, id, client))
    <2> DEFINE project == [b.projects[id] EXCEPT !.client = Normalized(client)]
    <2>1. project \in Project /\ project.name = b.projects[id].name
      BY <1>1, NormalizedClient DEF Project
    <2>2. ProjectClientSet(b, id, client) = [b EXCEPT !.projects[id] = project]
      BY DEF ProjectClientSet
    <2> HIDE DEF project
    <2> QED
      BY <1>2, <2>1, <2>2, ChangeProjectKeepsSound
  <1>5. ASSUME NEW archived \in BOOLEAN
        PROVE  /\ ProjectArchivedSet(b, id, archived) \in Logbook
               /\ Sound(ProjectArchivedSet(b, id, archived))
    <2> DEFINE project == [b.projects[id] EXCEPT !.archived = archived]
    <2>1. project \in Project /\ project.name = b.projects[id].name
      BY <1>1 DEF Project
    <2>2. ProjectArchivedSet(b, id, archived) = [b EXCEPT !.projects[id] = project]
      BY DEF ProjectArchivedSet
    <2> HIDE DEF project
    <2> QED
      BY <1>2, <2>1, <2>2, ChangeProjectKeepsSound
  <1> QED
    BY <1>3, <1>4, <1>5

\* add_tag
LEMMA AddTagKeepsSound ==
    ASSUME NEW b \in Logbook, Sound(b), NEW id \in TagIds, id \notin DOMAIN b.tags,
           NEW name \in Names, CanAddTag(b, name)
    PROVE  TagAdded(b, id, name) \in Logbook /\ Sound(TagAdded(b, id, name))
  <1> DEFINE tag == [name |-> name, archived |-> FALSE]
  <1>1. tag \in Tag /\ tag.name = name
    BY DEF Tag
  <1>2. NameFree(b.tags, name, {id})
    BY DEF CanAddTag, NameFree
  <1>3. TagAdded(b, id, name) = [b EXCEPT !.tags = Insert(b.tags, id, tag)]
    BY DEF TagAdded
  <1> HIDE DEF tag
  <1> QED
    BY <1>1, <1>2, <1>3, PutTagKeepsSound

\* rename_tag and set_tag_archived.
LEMMA TagEditsKeepSound ==
    ASSUME NEW b \in Logbook, Sound(b), NEW id \in DOMAIN b.tags
    PROVE  /\ \A name \in Names : CanRenameTag(b, id, name) =>
                 /\ TagRenamed(b, id, name) \in Logbook
                 /\ Sound(TagRenamed(b, id, name))
           /\ \A archived \in BOOLEAN :
                 /\ TagArchivedSet(b, id, archived) \in Logbook
                 /\ Sound(TagArchivedSet(b, id, archived))
  <1>1. b.tags[id] \in Tag
    BY LogbookFields
  <1>2. NameFree(b.tags, b.tags[id].name, {id})
    BY OwnNameIsFree DEF Sound, CatalogueSound
  <1>3. ASSUME NEW name \in Names, CanRenameTag(b, id, name)
        PROVE  TagRenamed(b, id, name) \in Logbook /\ Sound(TagRenamed(b, id, name))
    <2> DEFINE tag == [b.tags[id] EXCEPT !.name = name]
    <2>1. tag \in Tag /\ tag.name = name
      BY <1>1 DEF Tag
    <2>2. TagRenamed(b, id, name) = [b EXCEPT !.tags[id] = tag]
      BY DEF TagRenamed
    <2> HIDE DEF tag
    <2> QED
      BY <1>3, <2>1, <2>2, ChangeTagKeepsSound DEF CanRenameTag
  <1>4. ASSUME NEW archived \in BOOLEAN
        PROVE  /\ TagArchivedSet(b, id, archived) \in Logbook
               /\ Sound(TagArchivedSet(b, id, archived))
    <2> DEFINE tag == [b.tags[id] EXCEPT !.archived = archived]
    <2>1. tag \in Tag /\ tag.name = b.tags[id].name
      BY <1>1 DEF Tag
    <2>2. TagArchivedSet(b, id, archived) = [b EXCEPT !.tags[id] = tag]
      BY DEF TagArchivedSet
    <2> HIDE DEF tag
    <2> QED
      BY <1>2, <2>1, <2>2, ChangeTagKeepsSound
  <1> QED
    BY <1>3, <1>4
=============================================================================
