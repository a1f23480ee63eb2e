\* An instance shared by two threads, a second instance, two passphrases.
SPECIFICATION Spec
CONSTANTS
    worker = worker
    caller = caller
    other = other
    app = app
    cli = cli
    Threads = {worker, caller, other}
    Instances = {app, cli}
    InstanceOf <- MCInstanceOf
    Contents = {c0, c1}
    EmptyContent = c0
    Keys = {k1, k2}
    None = None
    Rotators = {other}
    MaxEtag = 3
    MaxVersion = 2
SYMMETRY MCSymmetry
INVARIANTS
    TypeOK
    HeadNeverMislabels
PROPERTIES
    RotationIsNotUndone
    ImplementsStore
