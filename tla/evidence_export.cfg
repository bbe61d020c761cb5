SPECIFICATION EvidenceSpec
CONSTANTS
    Certs = {c1, c2}
    Staff = {alice}
    Outside = outside
    Null = Null
    Submissions <- MCSubmissions
    Corrections <- MCCorrections
    PageCounts = {1, 2}
    LegacyCert = c2
    MaxVersions = 1
    MaxEvents = 5
    MaxBundles = 1
INVARIANTS
    SoundRecordsExport
    StrongIsAttested
    ProposalIsOriginal
    CheckpointsStand
CHECK_DEADLOCK FALSE
