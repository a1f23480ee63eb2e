\* A phone and a laptop, three commits, every interleaving of their steps.
SPECIFICATION Spec
CONSTANTS
    phone = phone
    laptop = laptop
    project = project
    tag = tag
    note = note
    Clients = {phone, laptop}
    Apps = {phone}
    CommandsOf <- MCCommandsOf
    MaxVersion = 3
    SpanIds = {1, 2}
    Instants = {0, 1}
    ProjectIds = {project}
    TagIds = {tag}
    Names = {"ss", "SS", "sz"}
    Lower <- MCLower
    Fold <- MCFold
    Texts = {note}
    BlankTexts = {}
    LongTexts = {}
    None = None
INVARIANTS
    TypeOK
    NeverTwice
    ReturnedIsStored
PROPERTIES
    ImplementsSharedLogbook
CHECK_DEADLOCK FALSE
