SPECIFICATION FairSpec
CONSTANTS
    Fires = {f1, f2, f3}
    NoOwner = NoOwner
    Garbage = Garbage
    Suspends = FALSE
    MaxCrashes = 3
INVARIANTS
    IInv
    OccupantKeepsLock
PROPERTIES
    RecoveryNeedsProofOfDeath
    NamelessLockIsLeftAlone
    ImplementsAuthority
    DeadOwnersLockIsRecovered
