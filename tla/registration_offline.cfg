SPECIFICATION Spec
CONSTANTS
    r1 = r1
    r2 = r2
    tcp = tcp
    tls = tls
    Requests = {r1, r2}
    Settings = {tcp, tls}
    MaxRequests = 2
    MaxChanges = 1
PROPERTY AuditFallsBack
CHECK_DEADLOCK FALSE
