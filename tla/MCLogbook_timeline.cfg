\* Three spans over five instants: the timer, back-dated additions and edits.
SPECIFICATION TimelineSpec
CONSTANTS
    SpanIds = {1, 2, 3}
    Instants = {0, 1, 2, 3, 4}
    ProjectIds = {p1}
    TagIds = {}
    Names = {"a"}
    Lower <- MCLower
    Fold <- MCFold
    Given <- TimelineCommands
    Clock = {1}
    Day <- MCDay
    Midnight <- MCMidnight
    Asked <- Queries
    Texts = {}
    BlankTexts = {}
    LongTexts = {}
    None = None
INVARIANTS
    CommandsKeepSound
    RecordedTimeSurvives
    ReportsCountOnce
    NoDoubleRecording
    OneActiveTimer
    MutationsStayCommittable
PROPERTIES
    StoppedStaysStopped
    SwitchIsSeamless
