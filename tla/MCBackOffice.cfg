SPECIFICATION Spec
CONSTANTS
    j1 = j1
    j2 = j2
    a1 = a1
    a2 = a2
    c1 = c1
    c2 = c2
    Journals = {j1, j2}
    Accounts = {a1, a2}
    Codes <- MCCodes
    DebitNormal <- MCAssets
    Assets <- MCAssets
    NaN = NaN
    Amounts = {1, NaN}
    Settlements = {s1}
    Screenings = {c1, c2}
    Entities = {"BLOCKED_CORP", "blocked_corp", "PEP_PERSON_1"}
    Upper <- MCUpper
    Sanctioned = {"BLOCKED_CORP"}
    Pep = {"PEP_PERSON_1"}
    HashRisky = {"blocked_corp"}
    MaxRequests = 2
    MaxEvents = 2
    MaxRuns = 2
    MaxFaults = 1
SYMMETRY Symmetry
INVARIANTS
    TypeOK
    TrialBalance
    RunsAccountedFor
    ReportsComplete
    ScreeningsAgree
    AuditTrailComplete
PROPERTIES
    AlarmsExplained
    PassedMeansNoNegative
    ImplementsRegister
CHECK_DEADLOCK FALSE
