SPECIFICATION Spec
CONSTANTS
    Users = {ops}  Admins = {}  Requests = {r1, r2}
    Devices = {d1}  Tenants = {"default", "acme"}  Reviews = {r1, r2}
    x1 = x1  x2 = x2
    None = None
    MaxTokens = 4
    MaxVersion = 2
    MaxUpsets = 1
    Calls = 3
    Conditions = {{}, {"grafana"}}
    Threshold = 90
    MaxTroubles = 2
    MaxMishaps = 1
    MaxRows = 3
    MaxNow = 2
    MaxEvents = 3
    Callers = {q1, q2}
    Principals = {"acme"}
    Watched = {1, 2}
    Owner <- MCOwner
    TTL = 1
    TopN = 1
    MaxTicks = 1
    MaxChanges = 1
    Rated = 2
INVARIANTS SessionsAreExact StageIsEarned GateIsTrue   AnswersAreOwn
  
CHECK_DEADLOCK FALSE
