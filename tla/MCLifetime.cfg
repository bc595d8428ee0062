SPECIFICATION Spec
CONSTANTS
    z = z
    d1 = d1
    d2 = d2
    Zero = z
    Digest <- MCDigest
    LIMIT = 3
    ROOT_SLOTS = 3
    MAX_ROWS = 6
    MAX_FIXED_RUN_ROWS = 9
    RowRequests <- MCRowRequests
    AttemptSizes <- MCAttemptSizes
SYMMETRY MCSymmetry
INVARIANTS
    TypeOK
    RowsExposedOnce
    ExposureBound
    BurnDurable
    NoRollback
    FixedRunChain
    ReplayAccepts
    RemainingRowsSecret
PROPERTIES
    FixedRunNeverResumes
    JournalAppendOnly
