\* One span, two projects, two tags and names that differ only in case.
SPECIFICATION Spec
CONSTANTS
    SpanIds = {1}
    Instants = {0, 1}
    ProjectIds = {p1, p2}
    TagIds = {t1, t2}
    Names = {"ss", "SS", "sz"}
    Lower <- MCLower
    Fold <- MCFold
    Given <- CatalogueCommands
    Clock = {1}
    Day <- MCDay
    Midnight <- MCMidnight
    Asked = {}
    Texts = {note, blank, long}
    BlankTexts = {blank}
    LongTexts = {long}
    None = None
SYMMETRY MCSymmetry
INVARIANTS
    CommandsKeepSound
    
    TypeOK
    CatalogueConsistent
