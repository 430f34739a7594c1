SPECIFICATION Spec
CONSTANTS
    alpha = alpha
    beta = beta
    repair = repair
    other = other
    blank = blank
    None = None
    Tenants <- MCTenants
    FirstTenant = alpha
    Texts <- MCTexts
    Blank = blank
    FirstText = repair
    Pages <- MCPages
    MaxRevision = 3
    MaxTarget = 3
    MaxTasks = 3
    MaxRepairs = 1
INVARIANTS
    ConfirmationBinds
    HistoryTells
    OffersAreKept
