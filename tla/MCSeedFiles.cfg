CONSTANTS
    Generators = {run1, run2}
    Merchants = {m}
    Gateways = {g}
    Issuers = {i}
    Mixed = Mixed
    Seeded = Seeded
    Unread = Unread
    Vault <- MCVault
    Requests <- MCRequests
    Months <- MCMonths
SYMMETRY Symmetry
SPECIFICATION Spec
INVARIANTS TypeOK OneGeneration WrongIsNeverApproved RightIsAccepted
PROPERTIES FilesStayPut
CHECK_DEADLOCK FALSE
