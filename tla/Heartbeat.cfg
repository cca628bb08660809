SPECIFICATION FairSpec
CONSTANTS
    Writers = {w1, w2, w3}
    NoOwner = NoOwner
    Garbage = Garbage
    Records = {r1}
    Retain = 2
    Attempts = 1
    MaxLength = 3
    MaxCrashes = 2
INVARIANTS
    IInv
    LiveWriterKeepsLock
PROPERTIES
    ImplementsLog
    DeadWritersLockIsReclaimed
