\* Two spans are enough for a switch at the instant the running span started.
SPECIFICATION TimelineSpec
CONSTANTS
    SpanIds = {1, 2}
    Instants = {0, 1}
    ProjectIds = {}
    TagIds = {}
    Names = {"a"}
    Lower <- MCLower
    Fold <- MCFold
    Given <- TimelineCommands
    Clock = {1}
    Day <- MCDay
    Midnight <- MCMidnight
    Asked = {}
    Texts = {}
    BlankTexts = {}
    LongTexts = {}
    None = None
INVARIANT MutationsAlwaysValidate
