CONSTANTS
    None = None
    Stale = Stale
    Processes = {p1, p2}
    Clients = {c1}
    Kinds = {"reload", "stop", "change", "devices", "garbled"}
    MaxEdits = 1

SPECIFICATION FairDaemons

INVARIANTS
    ServerIsAlone
    AnswersHold

CHECK_DEADLOCK FALSE

PROPERTIES
    NothingIsIgnored
