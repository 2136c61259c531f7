SPECIFICATION FairSpec
CONSTANTS
    p1 = p1
    q1 = q1
    q2 = q2
    w1 = w1
    w2 = w2
    Payslips = {p1}
    Requests = {q1}
    Workers = {w1, w2}
    MaxRetries = 1
    MaxJobs = 1
PROPERTIES ClaimsEnd
INVARIANTS ClaimExclusive
