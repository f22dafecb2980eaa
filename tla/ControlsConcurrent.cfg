CONSTANTS
    op = op  eng = eng  adm = adm  outsider = outsider
    t1 = t1  t2 = t2  p1 = p1  p2 = p2  a1 = a1  None = None
    Actions = {a1}
    Principals <- MCPair
    Approvers <- MCPair
    Tenants = {t1, t2}
    DefaultTenant = t1
    TenantOf <- MCTenantOfPair
    Procs = {p1, p2}
    AllowAbort = TRUE
    LateRefusal = TRUE
SPECIFICATION Spec
SYMMETRY Symmetry
VIEW View
INVARIANTS TwoPersonRule FlagGatesExecution AuditIsHonest
