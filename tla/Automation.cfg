CONSTANTS
    auto = auto  sup = sup  eng = eng  t1 = t1
    e1 = e1  e2 = e2  h1 = h1  a1 = a1  a2 = a2  a3 = a3  None = None
    Actions = {a1, a2}
    Principals <- MCPrincipals
    Approvers <- MCPrincipals
    Tenants = {t1}
    DefaultTenant = t1
    TenantOf <- MCTenantOf
    Procs = {e1, h1}
    AllowAbort = FALSE
    LateRefusal = FALSE
    Engine = {e1}
    Requester = auto
    Supervisor = sup
    Proposals <- MCProposals
    TRIP_THRESHOLD = 2
    MaxRuns = 2
SPECIFICATION AutomationSpec
VIEW View
SYMMETRY Symmetry
INVARIANTS BreakerHolds OneWaitingProposal DecisionsStand
