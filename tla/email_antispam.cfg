SPECIFICATION FairSpec
CONSTANTS
    p1 = p1
    q1 = q1
    q2 = q2
    w1 = w1
    w2 = w2
    Payslips = {p1}
    Requests = {q1, q2}
    Workers = {}
    MaxRetries = 2
    MaxJobs = 1
SYMMETRY ActorSymmetry
PROPERTIES AntiSpam
