SPECIFICATION Spec
CONSTANTS
    r1 = r1
    r2 = r2
    r3 = r3
    Roots <- MCRoots
    ROOT_SLOTS = 3
    Required <- MCRequired
    Capacity = 12
INVARIANTS
    TypeOK
    PrefixAgreement
    RegistryInStep
    ProverBurnedFirst
PROPERTIES
    ImplementsAgreedRun
