CONSTANTS
    op = op  eng = eng  adm = adm  outsider = outsider
    t1 = t1  t2 = t2  p1 = p1  p2 = p2  a1 = a1  None = None
    Actions = {a1}
    Principals <- MCPrincipalsWide
    Approvers <- MCApproversWide
    Tenants = {t1, t2}
    DefaultTenant = t1
    TenantOf <- MCTenantOfWide
    Procs = {p1, p2}
    AllowAbort = FALSE
    LateRefusal = FALSE
SPECIFICATION FairSpec
INVARIANTS AppliedOnce TrailIsComplete
PROPERTIES ImplementsLifecycle RollbackIsAudited
