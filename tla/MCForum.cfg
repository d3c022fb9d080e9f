CONSTANTS
    viewer = viewer
    other = other
    Clients = {viewer, other}
    Viewer = viewer
    Ordinary = {other}
    MaxThreads = 2
    MaxMessages = 3

SPECIFICATION FSpec
INVARIANTS ForumTypeOK ThreadsKeepFirstPost CountExact LeavesOnlyDeletedThread
PROPERTY LockOnlyOvertaken
CHECK_DEADLOCK FALSE
