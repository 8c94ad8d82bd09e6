SPECIFICATION LifeSpec

CONSTANTS
    Groups = {lab, safe}
    LabGroups = {lab, safe}
    ProtectedGroups = {safe}
    Skus = {e5}
    RemovableSkus = {e5}
    Sku = e5
    Tries = 2
    Offboarders = {o}
    Helpdesk = {h}
    Hirers = {a, b}
    NoTarget = NoTarget
    Requests <- HelpdeskRequests
    MaxMishaps = 1

SYMMETRY HirersAlike

INVARIANT LifeTypeOK
INVARIANT OffboardingIsSound
INVARIANT RemediationIsSound
INVARIANT OnboardingIsSound
INVARIANT CleanCallsSucceed
INVARIANT OnlyRerunsAreQuiet
PROPERTY OffboardingTakesOnly
CHECK_DEADLOCK TRUE
