------------------------------ MODULE Reports -------------------------------
(***************************************************************************)
(* `cosw report` and the timesheet of `cosw export`: which spans a query   *)
(* matches, clipped to its range, split at local midnights and added up.   *)
(* Pure functions of a logbook; the property compares them, on every       *)
(* logbook the mutations build, with counting instant by instant.          *)
(***************************************************************************)
EXTENDS Logbook, Commands, FiniteSetsExt

CONSTANTS
    Day,        \* Day[t]: the local date of an instant, as a number; 0 is a Monday
    Midnight,   \* Midnight[d]: the instant at which date d begins
    Asked       \* the queries tried, each with the clock at which it is asked

Filters == [range : OrNone({"day", "week", "all"}), from : OrNone(Instants),
            to : OrNone(Instants), projects : SUBSET Names, tags : SUBSET Names,
            ignore_projects : SUBSET Names, ignore_tags : SUBSET Names,
            include_current : BOOLEAN]

ASSUME AskedAssumption == Asked \subseteq [filters : Filters, now : Instants]

\* Instants are counted in seconds, none missing.
ASSUME ClockAssumption == \A s, t \in Instants : s..t \subseteq Instants

\* The dates a report may ask the calendar about.
Dates == UNION {{Day[t], Day[t] + 1, Day[t] - (Day[t] % 7)} : t \in Instants}

\* A date is the instants from its midnight to the next, and no date comes back once it
\* is over. (It did where clocks were set back across midnight: day_segments would not
\* end there.)
ASSUME CalendarAssumption ==
    /\ Day \in [Instants -> Int]
    /\ \A d \in Dates : Midnight[d] \in Int /\ Midnight[d] # None
    /\ \A d, e \in Dates : d < e => Midnight[d] <= Midnight[e]
    /\ \A t \in Instants : Midnight[Day[t]] <= t /\ t < Midnight[Day[t] + 1]

Later(a, b) == IF a < b THEN b ELSE a
Earlier(a, b) == IF a < b THEN a ELSE b

----------------------------------------------------------------------------
\* bounds: a shortcut is the beginning of the period that contains now (month and year
\* are alike); None is unbounded.
RangeFrom(f, now) ==
    CASE f.range = "day" -> Midnight[Day[now]]
      [] f.range = "week" -> Midnight[Day[now] - (Day[now] % 7)]
      [] f.range = "all" -> None
      [] OTHER -> f.from

RangeTo(f) == IF f.range = None THEN f.to ELSE None

\* A shortcut is not combined with a range, and the names are known.
Answerable(b, f) ==
    /\ f.range # None => f.from = None /\ f.to = None
    /\ \A n \in f.projects \cup f.ignore_projects : Named(b.projects, n) # {}
    /\ \A n \in f.tags \cup f.ignore_tags : Named(b.tags, n) # {}

\* _name_ids: for each name the first entry found, of those equal by casefold.
NameIds(m, names) == {CHOOSE k \in Named(m, n) : TRUE : n \in names}

Passes(b, f, s) ==
    /\ s.stopped_at = None => f.include_current
    /\ f.projects # {} => s.project_id \in NameIds(b.projects, f.projects)
    /\ NameIds(b.tags, f.tags) \subseteq s.tag_ids
    /\ s.project_id \notin NameIds(b.projects, f.ignore_projects)
    /\ NameIds(b.tags, f.ignore_tags) \cap s.tag_ids = {}

\* A span clipped to the range; the running span ends now.
Clipped(b, f, now, i) ==
    LET start == b.spans[i].started_at
        stop == Or(b.spans[i].stopped_at, now)
        from == RangeFrom(f, now)
    IN  [span |-> i,
         from |-> IF from = None THEN start ELSE Later(start, from),
         to |-> IF RangeTo(f) = None THEN stop ELSE Earlier(stop, RangeTo(f))]

MatchingSpans(b, f, now) ==
    {row \in {Clipped(b, f, now, i) : i \in {j \in DOMAIN b.spans : Passes(b, f, b.spans[j])}} :
        row.from < row.to}

ProjectName(b, s) == IF s.project_id = None THEN None ELSE b.projects[s.project_id].name

Seconds(rows) == MapThenSumSet(LAMBDA row : row.to - row.from, rows)

\* totals_by with the project's name as the key.
TotalsByProject(b, rows, name) ==
    Seconds({row \in rows : ProjectName(b, b.spans[row.span]) = name})

\* Mutant of DaySegments: a row belongs to the date it starts on.
DayOfStart(row) == {row}

\* day_segments: a row cut at every local midnight.
DaySegments(row) ==
    LET after[t \in Instants] ==
            IF t >= row.to THEN {}
            ELSE LET end == Earlier(row.to, Midnight[Day[t] + 1])
                 IN  {[span |-> row.span, from |-> t, to |-> end]} \cup after[end]
    IN  after[row.from]

\* The lines of the timesheet, and what totals_by_day adds up.
Segments(rows) == UNION {DaySegments(row) : row \in rows}

TotalsByDay(b, rows, day, name) ==
    TotalsByProject(b, {seg \in Segments(rows) : Day[seg.from] = day}, name)

----------------------------------------------------------------------------
(* Counting instead: an instant is one unit of time. *)

\* The span that records instant t, as seen at `now`, belongs in the answer.
Counts(b, f, now, t, name) ==
    /\ RangeFrom(f, now) # None => RangeFrom(f, now) <= t
    /\ RangeTo(f) # None => t < RangeTo(f)
    /\ \E i \in DOMAIN b.spans :
           /\ b.spans[i].started_at <= t /\ t < Or(b.spans[i].stopped_at, now)
           /\ ProjectName(b, b.spans[i]) = name
           /\ Passes(b, f, b.spans[i])

\* A report counts all the recorded time in its range and no instant twice, on its own
\* date: spans that cross midnight or the range's ends, empty ones, and the running one,
\* whose end is the clock (matching_spans, totals_by_day, build_timesheet). This rests on
\* the logbook recording nothing twice.
ReportsCountOnce ==
    \A ask \in {a \in Asked : Answerable(book, a.filters)} :
        LET rows == MatchingSpans(book, ask.filters, ask.now)
            counted(name) == {t \in Instants : Counts(book, ask.filters, ask.now, t, name)}
        IN  \A name \in OrNone(Names) :
                /\ TotalsByProject(book, rows, name) = Cardinality(counted(name))
                /\ \A day \in {Day[t] : t \in Instants} :
                       TotalsByDay(book, rows, day, name)
                           = Cardinality({t \in counted(name) : Day[t] = day})
=============================================================================
