SPECIFICATION FairSpec
CONSTANTS
    Call = {c1, c2}
    U32 = 4
    WorldSize = 3
    Amount <- MCAmount
    Job = {j1, j2}
    None = None
    Playbook <- MCPlaybook
    MaxRequests = 3
INVARIANTS
    Inductive
    AloneExact
    NeverUndercounts
    RealNeverEmpty
    CountExact
    SplitPaused
    PlaybookReports
    RegistrationConsistent
PROPERTIES
    TrainingResumes
    RequestsEnd
CHECK_DEADLOCK FALSE
