SPECIFICATION HubSpec
CONSTANTS
    Client = {c1}
    QueueSize = 2
    None = None
INVARIANTS HubTypeOK ToldTheTruth DataIsAnnounced DrainIsFinal
PROPERTIES RevokedIsSilent SlowIsClosed
CHECK_DEADLOCK FALSE
