SPECIFICATION Spec
CONSTANTS
    Paths = {1, 2}
    Refused = {2}
    Contents <- MCContents
    Times = {0, 5, 99}
    MaxRequests = 3
INVARIANTS
    SyncTypeOK
    AnswersAsAsked
    FilesAsPushed
CHECK_DEADLOCK FALSE
