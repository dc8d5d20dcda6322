SPECIFICATION Spec
CONSTANTS
    doc = doc
    log = log
    chat = chat
    Files = {doc, log, chat}
    Kind <- KindOf
    Required = {doc}
    MaxContent = 1
    MaxAlters = 2
    Origin = Origin
    Restored = Restored
    Missing = Missing
    None = None
    Lost = Lost
INVARIANT DriftStaysVisible
INVARIANT BundleSound
PROPERTY ImportVerdict
CHECK_DEADLOCK FALSE
